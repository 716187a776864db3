------------------------- MODULE AccountsClients_proofs -------------------------
(***************************************************************************)
(* Theorems about the clients of Accounts: what a client holds is what its *)
(* own calls returned, though the handlers of other calls, of other        *)
(* clients and of requests that were given up run between them.            *)
(***************************************************************************)
EXTENDS Accounts_proofs

----------------------------------------------------------------------------
(* How a command goes on *)

\* s is r after an answer, with vk the vault key that the answer unwraps to.
Proceeds(r, s, answer, vk) ==
    \/ r.pc = "begin" /\ s.pc = "register" /\ s.handle \in answer
       /\ s.token = r.token /\ s.vk = r.vk
    \/ r.pc = "register" /\ s.pc = "start" /\ vk # {} /\ s.vk = vk
       /\ s.handle = r.handle /\ s.token = r.token
    \/ r.pc = "start" /\ s.pc = "finish" /\ (\E a \in answer : s.handle = a.handle)
       /\ s.token = r.token /\ s.vk = r.vk
    \/ r.pc = "finish" /\ s.pc = (IF r.cmd = "register" THEN "open" ELSE "envelopes")
       /\ s.token \in answer /\ s.handle = r.handle /\ s.vk = r.vk
    \/ r.pc = "envelopes" /\ s.pc = "vault" /\ vk # {} /\ s.vk = vk
       /\ s.handle = r.handle /\ s.token = r.token
    \/ r.pc \in {"vault", "delete"} /\ s.pc = "open"
       /\ s.handle = r.handle /\ s.token = r.token /\ s.vk = r.vk

Same(r, s) == DOMAIN s = DOMAIN Out /\ s.n = r.n /\ s.cmd = r.cmd

Becomes(r, s, pc, handle, token, vk) ==
    /\ Same(r, s)
    /\ s.pc = pc /\ s.handle = handle /\ s.token = token /\ s.vk = vk

\* The updates of a command, field by field.
LEMMA SetPc ==
    ASSUME NEW r, DOMAIN r = DOMAIN Out, NEW pc
    PROVE  LET s == [r EXCEPT !.pc = pc]
           IN  Becomes(r, s, pc, r.handle, r.token, r.vk) /\ s.worker = r.worker
BY DEF Becomes, Same, Out

\* Waiting for a worker, or no longer.
LEMMA SetWorker ==
    ASSUME NEW r, DOMAIN r = DOMAIN Out, NEW w
    PROVE  LET s == [r EXCEPT !.worker = w]
           IN  /\ Becomes(r, s, r.pc, r.handle, r.token, r.vk) /\ s.worker = w
               /\ s.passkey = r.passkey /\ s.id = r.id /\ s.salt = r.salt
BY DEF Becomes, Same, Out

\* The handle of register/start.
LEMMA SetHandle ==
    ASSUME NEW r, DOMAIN r = DOMAIN Out, NEW pc, NEW handle
    PROVE  LET s == [r EXCEPT !.pc = pc, !.handle = handle]
           IN  Becomes(r, s, pc, handle, r.token, r.vk) /\ s.worker = r.worker
BY DEF Becomes, Same, Out

\* The vault key.
LEMMA SetVk ==
    ASSUME NEW r, DOMAIN r = DOMAIN Out, NEW pc, NEW vk
    PROVE  LET s == [r EXCEPT !.pc = pc, !.vk = vk]
           IN  Becomes(r, s, pc, r.handle, r.token, vk) /\ s.worker = r.worker
BY DEF Becomes, Same, Out

\* The token of a session.
LEMMA SetToken ==
    ASSUME NEW r, DOMAIN r = DOMAIN Out, NEW pc, NEW token
    PROVE  LET s == [r EXCEPT !.pc = pc, !.token = token]
           IN  Becomes(r, s, pc, r.handle, token, r.vk) /\ s.worker = r.worker
BY DEF Becomes, Same, Out

\* What a command that is not given up does with an answer.
LEMMA AdvanceCases ==
    ASSUME NEW r, NEW answer, NEW vk, DOMAIN r = DOMAIN Out, answer # {}, r.pc # "delete",
           Advance(r, answer, vk) # Out
    PROVE  LET s == Advance(r, answer, vk)
           IN  Same(r, s) /\ s.worker = r.worker /\ Proceeds(r, s, answer, vk)
<1> DEFINE s == Advance(r, answer, vk)
           Goal == Same(r, s) /\ s.worker = r.worker /\ Proceeds(r, s, answer, vk)
<1> SUFFICES Goal
  OBVIOUS
<1>0. (CHOOSE x \in answer : TRUE) \in answer
  OBVIOUS
<1>1. CASE r.pc = "begin"
  <2> DEFINE h == CHOOSE x \in answer : TRUE
  <2>1. s = [r EXCEPT !.pc = "register", !.handle = h]
    BY <1>1 DEF Advance
  <2>2. h \in answer
    BY <1>0
  <2> HIDE DEF h, s
  <2>3. Becomes(r, s, "register", h, r.token, r.vk) /\ s.worker = r.worker
    BY <2>1, SetHandle
  <2> QED BY <1>1, <2>2, <2>3 DEF Proceeds, Becomes
<1>2. CASE r.pc = "register" /\ vk # {}
  <2>1. s = [r EXCEPT !.pc = "start", !.vk = vk]
    BY <1>2 DEF Advance
  <2> HIDE DEF s
  <2>2. Becomes(r, s, "start", r.handle, r.token, vk) /\ s.worker = r.worker
    BY <2>1, SetVk
  <2> QED BY <1>2, <2>2 DEF Proceeds, Becomes
<1>3. CASE r.pc = "start"
  <2> DEFINE a == CHOOSE x \in answer : TRUE
             h == a.handle
             i == IF r.cmd = "register" THEN r.id ELSE a.id
             y == IF r.cmd = "register" THEN r.salt ELSE a.salt
  <2>1. s = [r EXCEPT !.pc = "finish", !.handle = h, !.id = i, !.salt = y]
    BY <1>3 DEF Advance, Out
  <2>2. a \in answer /\ h = a.handle
    BY <1>0
  <2> HIDE DEF a, h, i, y, s
  <2>3. Becomes(r, s, "finish", h, r.token, r.vk) /\ s.worker = r.worker
    BY <2>1 DEF Becomes, Same, Out
  <2> QED BY <1>3, <2>2, <2>3 DEF Proceeds, Becomes
<1>4. CASE r.pc = "finish"
  <2> DEFINE t == CHOOSE x \in answer : TRUE
             p == IF r.cmd = "register" THEN "open" ELSE "envelopes"
  <2>1. s = [r EXCEPT !.pc = p, !.token = t]
    BY <1>4 DEF Advance
  <2>2. t \in answer
    BY <1>0
  <2> HIDE DEF t, p, s
  <2>3. Becomes(r, s, p, r.handle, t, r.vk) /\ s.worker = r.worker
    BY <2>1, SetToken
  <2> QED BY <1>4, <2>2, <2>3 DEF Proceeds, Becomes, p
<1>5. CASE r.pc = "envelopes" /\ vk # {}
  <2>1. s = [r EXCEPT !.pc = "vault", !.vk = vk]
    BY <1>5 DEF Advance
  <2> HIDE DEF s
  <2>2. Becomes(r, s, "vault", r.handle, r.token, vk) /\ s.worker = r.worker
    BY <2>1, SetVk
  <2> QED BY <1>5, <2>2 DEF Proceeds, Becomes
<1>6. CASE r.pc = "vault" /\ (\E n \in answer : VaultVerified(Bundle(n)))
  <2>1. s = [r EXCEPT !.pc = "open"]
    BY <1>6 DEF Advance
  <2> HIDE DEF s
  <2>2. Becomes(r, s, "open", r.handle, r.token, r.vk) /\ s.worker = r.worker
    BY <2>1, SetPc
  <2> QED BY <1>6, <2>2 DEF Proceeds, Becomes
<1>7. CASE /\ r.pc \notin {"begin", "start", "finish"}
           /\ ~(r.pc = "register" /\ vk # {}) /\ ~(r.pc = "envelopes" /\ vk # {})
           /\ ~(r.pc = "vault" /\ (\E n \in answer : VaultVerified(Bundle(n))))
  BY <1>7 DEF Advance
<1> HIDE DEF Goal
<1> QED BY <1>1, <1>2, <1>3, <1>4, <1>5, <1>6, <1>7

\* The vault key that the answer to the call at r.pc unwraps to.
Unwrapped(r, answer) ==
    CASE r.pc = "register" -> VaultKey(r, Bundle(r.n))
      [] r.pc = "envelopes" -> UNION {VaultKey(r, Bundle(n)) : n \in answer}
      [] OTHER -> r.vk

\* A command is given up, or it goes on with the answer and waits no longer.
LEMMA AfterCases ==
    ASSUME NEW r, NEW answer, DOMAIN r = DOMAIN Out, After(r, answer) # Out
    PROVE  LET s == After(r, answer)
           IN  /\ Same(r, s) /\ s.worker = NoWorker
               /\ Proceeds(r, s, answer, Unwrapped(r, answer))
               /\ (r.pc = "delete") <=> (answer = {})
<1> DEFINE here == [r EXCEPT !.worker = NoWorker]
           vk == Unwrapped(r, answer)
           s == After(r, answer)
           Goal == /\ Same(r, s) /\ s.worker = NoWorker
                   /\ Proceeds(r, s, answer, vk)
                   /\ (r.pc = "delete") <=> (answer = {})
<1> SUFFICES Goal
  OBVIOUS
<1>1. s = CASE r.pc = "delete" /\ answer = {} -> [here EXCEPT !.pc = "open"]
            [] r.pc # "delete" /\ answer # {} -> Advance(here, answer, vk)
            [] OTHER -> Out
  BY DEF After, Unwrapped
<1>2. Becomes(r, here, r.pc, r.handle, r.token, r.vk) /\ here.worker = NoWorker
  BY SetWorker
<1>3. DOMAIN here = DOMAIN Out
  BY <1>2 DEF Becomes, Same
<1>4. s # Out
  OBVIOUS
<1> HIDE DEF here, vk, s
<1>5. CASE r.pc = "delete" /\ answer = {}
  <2>1. s = [here EXCEPT !.pc = "open"]
    BY <1>1, <1>5
  <2>2. Becomes(here, s, "open", here.handle, here.token, here.vk) /\ s.worker = here.worker
    BY <1>3, <2>1, SetPc
  <2> QED BY <1>2, <1>5, <2>2 DEF Becomes, Same, Proceeds
<1>6. CASE r.pc # "delete" /\ answer # {}
  <2>1. s = Advance(here, answer, vk)
    BY <1>1, <1>6
  <2>2. Same(here, s) /\ s.worker = here.worker /\ Proceeds(here, s, answer, vk)
    BY <1>2, <1>3, <1>4, <1>6, <2>1, AdvanceCases DEF Becomes
  <2>3. Proceeds(r, s, answer, vk)
    BY <1>2, <2>2 DEF Proceeds, Becomes, Same
  <2> QED BY <1>2, <1>6, <2>2, <2>3 DEF Becomes, Same
<1>7. CASE ~(r.pc = "delete" /\ answer = {}) /\ ~(r.pc # "delete" /\ answer # {})
  BY <1>1, <1>4, <1>7
<1> QED
  BY <1>5, <1>6, <1>7

----------------------------------------------------------------------------
(* Types, and which call a worker runs for whom *)

\* The steps of each handler.
StepsOf(op) ==
    CASE op = "idle" -> {"none"}
      [] op = "begin" -> {"store"}
      [] op = "register" -> {"consume", "insert"}
      [] op = "start" -> {"material", "store"}
      [] op = "finish" -> {"material", "consume", "issue"}
      [] OTHER -> {"lookup", "work"}

\* A client waits for a worker that runs its call, with its own proof.
Linked(c, w) ==
    Waits(c, w) => /\ client[c].pc \in Calls /\ worker[w].op = client[c].pc
                   /\ client[c].pc = "finish" => worker[w].proof = Proof(client[c])

TableTypes ==
    /\ \A s \in session :
         /\ s.token \in 1 .. tokens
         /\ s.account \in Numbers
         /\ s.expires \in Nat
         /\ s.handle \in 0 .. handles
    /\ \A c \in challenge : c.handle \in 1 .. handles /\ c.expires \in Nat
    /\ handles \in 0 .. MaxHandles
    /\ tokens \in 0 .. MaxTokens

WorkerTypes(w) ==
    /\ worker[w].op \in Calls \cup {"idle"}
    /\ worker[w].step \in StepsOf(worker[w].op)
    /\ worker[w].n \in 0 .. Len(reg)
    /\ worker[w].handle \in 0 .. handles
    /\ worker[w].token \in 0 .. tokens
    /\ worker[w].found \in 0 .. Len(reg)

ClientTypes(c) ==
    /\ client[c].pc \in {"out", "open"} \cup Calls
    /\ client[c].cmd \in {"none", "register", "login"}
    /\ client[c].n \in 0 .. Len(reg)
    /\ client[c].handle \in 0 .. handles
    /\ client[c].token \in 0 .. tokens
    /\ client[c].worker \in Worker \cup {NoWorker}

\* What no step of a handler or of a command but the clock, the kit and the
\* failures is about.
CountTypes ==
    /\ now \in 0 .. MaxTime
    /\ kit \subseteq Numbers
    /\ faults \in 0 .. MaxFaults

ActorTypes ==
    /\ \A w \in Worker : WorkerTypes(w)
    /\ \A c \in Client : ClientTypes(c)
    /\ \A c \in Client, w \in Worker : Linked(c, w)

TypeInv == WorkerShape /\ RegistrationOK /\ TableTypes /\ CountTypes /\ ActorTypes

\* The invariant says more than the types.
LEMMA TypeInvTypes == TypeInv => TypeOK
<1> SUFFICES ASSUME TypeInv PROVE TypeOK
  OBVIOUS
<1>1. reg \in Seq(Registration) /\ DOMAIN reg = Numbers
  BY DEF TypeInv, RegistrationOK, Numbers
<1>2. \A op \in Calls \cup {"idle"} : StepsOf(op) \subseteq Steps \cup {"none"}
  BY DEF StepsOf, Calls, Steps
<1>3. \A w \in Worker : worker[w].step \in Steps \cup {"none"}
  BY <1>2 DEF TypeInv, ActorTypes, WorkerTypes
<1> QED
  BY <1>1, <1>3 DEF TypeInv, RegistrationOK, TableTypes, CountTypes, ActorTypes, WorkerTypes,
     ClientTypes, TypeOK, Registration

\* At first everybody is idle.
LEMMA TypeInit == Init => TypeInv
<1> SUFFICES ASSUME Init PROVE TypeInv
  OBVIOUS
<1>1. WorkerShape /\ RegistrationOK
  BY EmailInit DEF EmailInv
<1>2. TableTypes /\ CountTypes
  BY BoundsAssumption DEF Init, TableTypes, CountTypes, Numbers
<1>3. ASSUME NEW w \in Worker PROVE WorkerTypes(w)
  <2>1. worker[w] = Idle /\ Len(reg) = 0 /\ handles = 0 /\ tokens = 0
    BY DEF Init
  <2> QED
    BY <2>1 DEF WorkerTypes, Idle, StepsOf
<1>4. ASSUME NEW c \in Client
      PROVE  ClientTypes(c) /\ \A w \in Worker : Linked(c, w)
  <2>1. client[c] = Out /\ Len(reg) = 0 /\ handles = 0 /\ tokens = 0
    BY DEF Init
  <2> QED
    BY <2>1, NoWorkerAssumption DEF ClientTypes, Linked, Waits, Out
<1> QED
  BY <1>1, <1>2, <1>3, <1>4 DEF TypeInv, ActorTypes

\* A step that draws and counts up, if anything.
Grows ==
    /\ \A n \in Numbers : n \in Numbers' /\ reg'[n] = reg[n]
    /\ Len(reg) \in Nat /\ Len(reg') \in Nat /\ Len(reg) <= Len(reg')
    /\ handles \in Nat /\ handles' \in Nat /\ handles <= handles'
    /\ tokens \in Nat /\ tokens' \in Nat /\ tokens <= tokens'

\* Those that a step leaves alone stay typed and linked.
LEMMA OthersTyped ==
    ASSUME TypeInv, Grows
    PROVE  /\ \A w \in Worker : worker'[w] = worker[w] => WorkerTypes(w)'
           /\ \A c \in Client : client'[c] = client[c] => ClientTypes(c)'
           /\ \A c \in Client, w \in Worker :
                client'[c] = client[c] /\ worker'[w] = worker[w] => Linked(c, w)'
<1>0. /\ 0 .. Len(reg) \subseteq 0 .. Len(reg') /\ 0 .. handles \subseteq 0 .. handles'
      /\ 0 .. tokens \subseteq 0 .. tokens'
  BY DEF Grows
<1>1. ASSUME NEW w \in Worker, worker'[w] = worker[w] PROVE WorkerTypes(w)'
  <2>1. WorkerTypes(w)
    BY DEF TypeInv, ActorTypes
  <2> QED
    BY <1>0, <1>1, <2>1 DEF WorkerTypes
<1>2. ASSUME NEW c \in Client, client'[c] = client[c] PROVE ClientTypes(c)'
  <2>1. ClientTypes(c)
    BY DEF TypeInv, ActorTypes
  <2> QED
    BY <1>0, <1>2, <2>1 DEF ClientTypes
<1>3. ASSUME NEW c \in Client, NEW w \in Worker, client'[c] = client[c], worker'[w] = worker[w]
      PROVE  Linked(c, w)'
  <2> SUFFICES ASSUME Waits(c, w)' PROVE Linked(c, w)'
    BY DEF Linked
  <2>1. Waits(c, w)
    BY <1>3 DEF Waits
  <2>2. /\ client[c].pc \in Calls /\ worker[w].op = client[c].pc
        /\ client[c].pc = "finish" => worker[w].proof = Proof(client[c])
    BY <2>1 DEF TypeInv, ActorTypes, Linked
  <2>3. client[c].n \in Numbers
    BY <2>2 DEF TypeInv, RegistrationOK, Calls
  <2>4. reg'[client[c].n] = reg[client[c].n]
    BY <2>3 DEF Grows
  <2>5. Proof(client[c])' = Proof(client[c])
    BY <1>3, <2>4 DEF Proof, Kdf
  <2> QED
    BY <1>3, <2>2, <2>5 DEF Linked
<1> QED
  BY <1>1, <1>2, <1>3

\* What the handler of w may answer with.
Answers(w, answer) ==
    /\ worker[w].op = "begin" => \A h \in answer : h \in 0 .. handles'
    /\ worker[w].op = "start" => \A a \in answer : a.handle \in 0 .. handles'
    /\ worker[w].op = "finish" => \A t \in answer : t \in 0 .. tokens'

\* The client that waits for a handler which ends.
LEMMA AnsweredTyped ==
    ASSUME TypeInv, Grows, NEW w \in Worker, NEW answer, Answers(w, answer),
           NEW c \in Client, Waits(c, w), client'[c] = After(client[c], answer)
    PROVE  ClientTypes(c)' /\ client'[c].worker = NoWorker
<1> DEFINE r == client[c]
           s == After(r, answer)
<1>1. DOMAIN r = DOMAIN Out /\ worker[w].op = r.pc
  BY DEF TypeInv, RegistrationOK, ActorTypes, Linked
<1>2. ClientTypes(c)
  BY DEF TypeInv, ActorTypes
<1>3. CASE s = Out
  <2>1. client'[c] = Out
    BY <1>3
  <2> QED
    BY <2>1 DEF ClientTypes, Out, Grows
<1>4. CASE s # Out
  <2>1. Same(r, s) /\ s.worker = NoWorker /\ Proceeds(r, s, answer, Unwrapped(r, answer))
    BY <1>1, <1>4, AfterCases
  <2>2. client'[c] = s
    OBVIOUS
  <2> DEFINE vk == Unwrapped(r, answer)
  <2> HIDE DEF s, vk
  <2>3. s.pc \in {"open"} \cup Calls /\ s.n = r.n /\ s.cmd = r.cmd
    BY <2>1 DEF Proceeds, Calls, Same
  <2>4. s.handle \in 0 .. handles'
    <3>1. r.handle \in 0 .. handles'
      BY <1>2 DEF ClientTypes, Grows
    <3> QED
      BY <1>1, <2>1, <3>1 DEF Proceeds, Answers
  <2>5. s.token \in 0 .. tokens'
    <3>1. r.token \in 0 .. tokens'
      BY <1>2 DEF ClientTypes, Grows
    <3> QED
      BY <1>1, <2>1, <3>1 DEF Proceeds, Answers
  <2> QED
    BY <1>2, <2>1, <2>2, <2>3, <2>4, <2>5 DEF ClientTypes, Grows
<1> QED
  BY <1>3, <1>4

\* A handler that ends.
LEMMA EndTyped ==
    ASSUME TypeInv, Grows, NEW w \in Worker, NEW answer, Answers(w, answer), End(w, answer)
    PROVE  ActorTypes' /\ kit' \subseteq Numbers' /\ now' = now
<1>1. /\ client' = [c \in Client |-> IF Waits(c, w) THEN After(client[c], answer) ELSE client[c]]
      /\ now' = now
  BY DEF End
<1>2. worker'[w] = Idle /\ \A v \in Worker \ {w} : worker'[v] = worker[v]
  BY EndFields DEF TypeInv
<1>3. \A v \in Worker : WorkerTypes(v)'
  <2>1. WorkerTypes(w)'
    BY <1>2 DEF WorkerTypes, Idle, StepsOf, Grows
  <2> QED
    BY <1>2, <2>1, OthersTyped
<1>4. ASSUME NEW c \in Client PROVE ClientTypes(c)' /\ \A v \in Worker : Linked(c, v)'
  <2>1. CASE Waits(c, w)
    <3>1. client'[c] = After(client[c], answer)
      BY <1>1, <2>1
    <3>2. ClientTypes(c)' /\ client'[c].worker = NoWorker
      BY <2>1, <3>1, AnsweredTyped
    <3> QED
      BY <3>2, NoWorkerAssumption DEF Linked, Waits
  <2>2. CASE ~Waits(c, w)
    <3>1. client'[c] = client[c]
      BY <1>1, <2>2
    <3>2. ~Waits(c, w)'
      BY <2>2, <3>1 DEF Waits
    <3> QED
      BY <1>2, <3>1, <3>2, OthersTyped DEF Linked
  <2> QED
    BY <2>1, <2>2
<1>5. kit' \subseteq Numbers'
  <2>1. \A c \in Client : Reveals(client[c], client'[c]) => client[c].n \in Numbers
    BY DEF Reveals, TypeInv, RegistrationOK
  <2>2. kit' \subseteq Numbers
    BY <2>1 DEF End, TypeInv, CountTypes
  <2> QED
    BY <2>2 DEF Grows
<1> QED
  BY <1>1, <1>3, <1>4, <1>5 DEF ActorTypes

\* A handler that goes on.
LEMMA GotoTyped ==
    ASSUME TypeInv, Grows, NEW w \in Worker, NEW step, NEW found, Goto(w, step, found),
           step \in StepsOf(worker[w].op), found \in 0 .. Len(reg)
    PROVE  ActorTypes' /\ kit' \subseteq Numbers' /\ now' = now
<1>1. client' = client /\ kit' = kit /\ now' = now
  BY DEF Goto
<1>2. /\ \A v \in Worker \ {w} : worker'[v] = worker[v]
      /\ worker'[w].step = step /\ worker'[w].found = found
      /\ worker'[w].handle = worker[w].handle
      /\ worker'[w].proof = worker[w].proof /\ worker'[w].n = worker[w].n
      /\ worker'[w].op = worker[w].op /\ worker'[w].token = worker[w].token
  BY GotoFields DEF TypeInv
<1>3. WorkerTypes(w)'
  <2>1. WorkerTypes(w)
    BY DEF TypeInv, ActorTypes
  <2> QED
    BY <1>2, <2>1 DEF WorkerTypes, Grows
<1>4. ASSUME NEW c \in Client PROVE Linked(c, w)'
  <2> SUFFICES ASSUME Waits(c, w)' PROVE Linked(c, w)'
    BY DEF Linked
  <2>1. Waits(c, w) /\ client'[c] = client[c]
    BY <1>1 DEF Waits
  <2>2. /\ client[c].pc \in Calls /\ worker[w].op = client[c].pc
        /\ client[c].pc = "finish" => worker[w].proof = Proof(client[c])
    BY <2>1 DEF TypeInv, ActorTypes, Linked
  <2>3. Proof(client[c])' = Proof(client[c])
    BY <1>1 DEF Goto, Proof, Kdf
  <2> QED
    BY <1>2, <2>1, <2>2, <2>3 DEF Linked
<1>5. kit' \subseteq Numbers'
  BY <1>1 DEF TypeInv, CountTypes, Grows
<1> QED
  BY <1>1, <1>2, <1>3, <1>4, <1>5, OthersTyped DEF ActorTypes

\* Rows may go.
LEMMA TablesShrink ==
    ASSUME TypeInv, \A n \in Numbers : n \in Numbers', session' \subseteq session,
           challenge' \subseteq challenge, handles' = handles, tokens' = tokens
    PROVE  TableTypes'
<1>1. TableTypes
  BY DEF TypeInv
<1> QED
  BY <1>1 DEF TableTypes

\* A challenge is stored with the next handle.
LEMMA StoreTypes ==
    ASSUME TypeInv, NEW user, StoreChallenge(user), session' = session, tokens' = tokens,
           reg' = reg, now \in Nat
    PROVE  TableTypes' /\ handles \in Nat /\ handles' = handles + 1
<1> DEFINE new == [handle |-> handles', user |-> user, expires |-> now + ChallengeTTL]
<1>1. /\ handles < MaxHandles /\ handles' = handles + 1
      /\ \A c \in challenge' : c \in challenge \/ c = new
      /\ new.handle = handles' /\ new.expires = now + ChallengeTTL
  BY DEF StoreChallenge
<1>2. TableTypes
  BY DEF TypeInv
<1>3. new.expires \in Nat
  BY <1>1, TTLAssumption
<1> HIDE DEF new
<1>4. handles' \in 0 .. MaxHandles /\ handles \in Nat
  BY <1>1, <1>2, BoundsAssumption DEF TableTypes
<1>5. \A c \in challenge' : c.handle \in 1 .. handles' /\ c.expires \in Nat
  BY <1>1, <1>2, <1>3, <1>4 DEF TableTypes
<1>6. \A s \in session' : s.token \in 1 .. tokens' /\ s.account \in Numbers' /\ s.expires \in Nat
                          /\ s.handle \in 0 .. handles'
  BY <1>1, <1>2, <1>4 DEF TableTypes, Numbers
<1> QED
  BY <1>1, <1>2, <1>4, <1>5, <1>6 DEF TableTypes

\* A session is created with the next token, for an account that is stored.
LEMMA IssueTypes ==
    ASSUME TypeInv, NEW w \in Worker, IssueSession(w), now \in Nat
    PROVE  /\ TableTypes' /\ tokens \in Nat /\ handles' = handles
           /\ \/ tokens' = tokens /\ End(w, {})
              \/ tokens' = tokens + 1 /\ End(w, {tokens'})
<1>1. TableTypes /\ account \subseteq Numbers /\ worker[w].handle \in 0 .. handles
  BY DEF TypeInv, RegistrationOK, ActorTypes, WorkerTypes
<1>2. challenge' = challenge /\ handles' = handles
  BY DEF IssueSession
<1>3. CASE Answer(w, {}) /\ session' = session /\ tokens' = tokens
  <2>1. reg' = reg /\ End(w, {})
    BY <1>3 DEF Answer, End
  <2>2. TableTypes' /\ tokens \in Nat
    BY <1>1, <1>2, <1>3, <2>1 DEF TableTypes, Numbers
  <2> QED
    BY <1>2, <1>3, <2>1, <2>2
<1> DEFINE new == [token |-> tokens', account |-> SessionOwner(w), expires |-> now + SessionTTL,
                   handle |-> worker[w].handle, proof |-> worker[w].proof]
<1>4. CASE /\ SessionOwner(w) \in account /\ tokens < MaxTokens /\ tokens' = tokens + 1
           /\ session' = session \cup {new} /\ Answer(w, {tokens'})
  <2>1. reg' = reg /\ End(w, {tokens'})
    BY <1>4 DEF Answer, End
  <2>2. tokens \in Nat /\ tokens' \in 0 .. MaxTokens
    BY <1>1, <1>4, BoundsAssumption DEF TableTypes
  <2>3. /\ new.token \in 1 .. tokens' /\ new.account \in Numbers /\ new.expires \in Nat
        /\ new.handle \in 0 .. handles
    BY <1>1, <1>4, <2>2, TTLAssumption
  <2> HIDE DEF new
  <2>4. session' = session \cup {new}
    BY <1>4
  <2>5. \A s \in session' : s.token \in 1 .. tokens' /\ s.account \in Numbers' /\ s.expires \in Nat
                            /\ s.handle \in 0 .. handles'
    BY <1>1, <1>2, <1>4, <2>1, <2>2, <2>3, <2>4 DEF TableTypes, Numbers
  <2> QED
    BY <1>1, <1>2, <1>4, <2>1, <2>2, <2>5 DEF TableTypes
<1> QED
  BY <1>3, <1>4 DEF IssueSession

\* What a command becomes when its user starts it, asks for deletion, locks or
\* loses its connection.
LEMMA ClientTyped ==
    ASSUME TypeInv, Grows, worker' = worker, NEW c \in Client, NEW s,
           client' = [client EXCEPT ![c] = s],
           s.pc \in {"out", "open"} \cup Calls, s.cmd \in {"none", "register", "login"},
           s.n \in 0 .. Len(reg'), s.handle \in 0 .. handles', s.token \in 0 .. tokens',
           s.worker = NoWorker
    PROVE  ActorTypes'
<1>1. client'[c] = s /\ \A d \in Client \ {c} : client'[d] = client[d]
  BY DEF TypeInv, RegistrationOK
<1>2. ClientTypes(c)' /\ \A w \in Worker : Linked(c, w)'
  BY <1>1, NoWorkerAssumption DEF ClientTypes, Linked, Waits
<1> QED
  BY <1>1, <1>2, OthersTyped DEF ActorTypes

\* Every step keeps the types and the links.
LEMMA TypeStep == TypeInv /\ [Next]_vars => TypeInv'
<1> SUFFICES ASSUME TypeInv, [Next]_vars PROVE TypeInv'
  OBVIOUS
<1> DEFINE SameTables == UNCHANGED tableVars
           Parts == TableTypes' /\ CountTypes' /\ ActorTypes'
<1>a. /\ WorkerShape /\ RegistrationOK /\ TableTypes /\ CountTypes /\ ActorTypes
      /\ handles \in Nat /\ tokens \in Nat /\ now \in Nat
  BY DEF TypeInv, TableTypes, CountTypes
<1>b. /\ WorkerShape' /\ RegistrationOK'
      /\ \A n \in Numbers : n \in Numbers' /\ reg'[n] = reg[n]
  BY <1>a, RegistrationStep
<1>c. Len(reg) \in Nat /\ Len(reg') \in Nat /\ Len(reg) <= Len(reg')
  <2>1. Len(reg) \in Nat /\ Len(reg') \in Nat
    BY <1>a, <1>b DEF RegistrationOK
  <2>2. Len(reg) = 0 \/ Len(reg) \in Numbers
    BY <2>1 DEF Numbers
  <2> QED
    BY <1>b, <2>1, <2>2 DEF Numbers
<1>d. ASSUME handles' \in Nat, handles <= handles', tokens' \in Nat, tokens <= tokens' PROVE Grows
  BY <1>a, <1>b, <1>c, <1>d DEF Grows
<1>e. handles' = handles /\ tokens' = tokens => Grows
  BY <1>a, <1>d
<1>f. SameTables => TableTypes' /\ handles' = handles /\ tokens' = tokens /\ Grows
  BY <1>b, <1>e, TablesShrink DEF tableVars
<1>g. \A w \in Worker : /\ worker[w].op \in Calls \cup {"idle"}
                        /\ worker[w].step \in StepsOf(worker[w].op)
                        /\ worker[w].found \in 0 .. Len(reg)
  BY <1>a DEF ActorTypes, WorkerTypes
<1>h. ASSUME NEW w \in Worker PROVE Found(w) \in 0 .. Len(reg)
  <2>1. Found(w) = 0 \/ Found(w) \in account
    BY FoundIsStored
  <2>2. account \subseteq Numbers
    BY <1>a DEF RegistrationOK
  <2>3. 0 \in 0 .. Len(reg) /\ \A n \in Numbers : n \in 0 .. Len(reg)
    BY <1>c DEF Numbers
  <2> QED
    BY <2>1, <2>2, <2>3
<1>i. \A w \in Worker : Answers(w, {})
  BY DEF Answers
<1>j. ASSUME NEW w \in Worker, NEW answer, Answers(w, answer), End(w, answer), Grows,
             TableTypes', faults' \in 0 .. MaxFaults
      PROVE  Parts
  BY <1>a, <1>j, EndTyped DEF CountTypes
<1>k. ASSUME NEW w \in Worker, NEW step, NEW found, Goto(w, step, found), Grows, TableTypes',
             step \in StepsOf(worker[w].op), found \in 0 .. Len(reg)
      PROVE  Parts
  <2>1. faults' = faults
    BY <1>k DEF Goto
  <2> QED
    BY <1>a, <1>k, <2>1, GotoTyped DEF CountTypes
<1>l. faults \in 0 .. MaxFaults
  BY <1>a DEF CountTypes
\* What End and Goto leave alone, and what a handler knows by its step.
<1>m. ASSUME NEW w \in Worker, NEW answer, Answer(w, answer)
      PROVE  End(w, answer) /\ faults' \in 0 .. MaxFaults
  BY <1>l, <1>m DEF Answer
<1>n. /\ StepsOf("register") = {"consume", "insert"} /\ StepsOf("start") = {"material", "store"}
      /\ StepsOf("finish") = {"material", "consume", "issue"}
      /\ \A op \in {"envelopes", "vault", "delete"} : StepsOf(op) = {"lookup", "work"}
      /\ StepsOf("idle") = {"none"} /\ StepsOf("begin") = {"store"}
  BY DEF StepsOf
<1>1. ASSUME NEW c \in Client, NEW e \in Email, NEW p \in Password, NEW b \in BOOLEAN,
             StartRegister(c, e, p, b)
      PROVE  Parts
  <2> DEFINE n == Len(reg) + 1
             r == [Out EXCEPT !.pc = IF b THEN "begin" ELSE "register",
                              !.cmd = "register", !.n = n, !.passkey = b,
                              !.id = AccountId(n), !.salt = Random(n).salt]
  <2>1. /\ client' = [client EXCEPT ![c] = r] /\ SameTables /\ worker' = worker
        /\ reg' = Append(reg, [email |-> e, password |-> p, passkey |-> b])
        /\ now' = now /\ kit' = kit /\ faults' = faults
    BY <1>1 DEF StartRegister
  <2>2. /\ r.pc \in Calls /\ r.cmd = "register" /\ r.n = n /\ r.handle = 0 /\ r.token = 0
        /\ r.worker = NoWorker
    BY DEF Out, Calls
  <2>3. Len(reg') = Len(reg) + 1
    BY <1>a, <2>1 DEF RegistrationOK, Registration
  <2> HIDE DEF r
  <2>a. /\ r.pc \in {"out", "open"} \cup Calls /\ r.cmd \in {"none", "register", "login"}
        /\ r.n \in 0 .. Len(reg') /\ r.handle \in 0 .. handles' /\ r.token \in 0 .. tokens'
    BY <1>a, <1>c, <1>f, <2>1, <2>2, <2>3
  <2>4. ActorTypes'
    BY <1>f, <2>1, <2>2, <2>a, ClientTyped
  <2>5. CountTypes'
    BY <1>a, <1>b, <2>1 DEF CountTypes
  <2> QED
    BY <1>f, <2>1, <2>4, <2>5
<1>2. ASSUME NEW c \in Client, NEW n \in DOMAIN reg, NEW b \in BOOLEAN, StartLogin(c, n, b)
      PROVE  Parts
  <2> DEFINE r == [Out EXCEPT !.pc = "start", !.cmd = "login", !.n = n, !.passkey = b]
  <2>1. /\ client' = [client EXCEPT ![c] = r] /\ SameTables /\ worker' = worker /\ reg' = reg
        /\ now' = now /\ kit' = kit /\ faults' = faults
    BY <1>2 DEF StartLogin
  <2>2. /\ r.pc \in Calls /\ r.cmd = "login" /\ r.n = n /\ r.handle = 0 /\ r.token = 0
        /\ r.worker = NoWorker
    BY DEF Out, Calls
  <2>3. n \in 0 .. Len(reg)
    BY <1>a DEF RegistrationOK
  <2> HIDE DEF r
  <2>a. /\ r.pc \in {"out", "open"} \cup Calls /\ r.cmd \in {"none", "register", "login"}
        /\ r.n \in 0 .. Len(reg') /\ r.handle \in 0 .. handles' /\ r.token \in 0 .. tokens'
    BY <1>a, <1>c, <1>f, <2>1, <2>2, <2>3
  <2>4. ActorTypes'
    BY <1>f, <2>1, <2>2, <2>a, ClientTyped
  <2>5. CountTypes'
    BY <1>a, <1>b, <2>1 DEF CountTypes
  <2> QED
    BY <1>f, <2>1, <2>4, <2>5
<1>3. ASSUME NEW c \in Client, NEW w \in Worker, Call(c, w) PROVE Parts
  <2> DEFINE r == client[c]
  <2>1. /\ r.pc \in Calls /\ client' = [client EXCEPT ![c].worker = w] /\ SameTables
        /\ worker[w].op = "idle" /\ reg' = reg /\ now' = now /\ kit' = kit /\ faults' = faults
    BY <1>3 DEF Call
  <2>2. /\ \A v \in Worker \ {w} : worker'[v] = worker[v]
        /\ worker'[w].op = r.pc /\ worker'[w].step = FirstStep(r)
        /\ worker'[w].n = r.n /\ worker'[w].found = 0
        /\ worker'[w].proof = (IF r.pc = "finish" THEN Proof(r) ELSE {})
        /\ worker'[w].handle = (IF r.passkey THEN r.handle ELSE 0)
        /\ worker'[w].token = r.token
    BY <1>3, <1>a, CallFields
  <2>3. FirstStep(r) \in StepsOf(r.pc)
    BY <2>1 DEF FirstStep, StepsOf, Calls
  <2>4. ClientTypes(c) /\ DOMAIN r = DOMAIN Out
    BY <1>a DEF ActorTypes, RegistrationOK
  <2>5. WorkerTypes(w)'
    BY <1>a, <1>c, <1>f, <2>1, <2>2, <2>3, <2>4 DEF WorkerTypes, ClientTypes
  <2>6. /\ client'[c] = [r EXCEPT !.worker = w]
        /\ \A d \in Client \ {c} : client'[d] = client[d]
    BY <1>a, <2>1 DEF RegistrationOK
  <2>7. Becomes(r, client'[c], r.pc, r.handle, r.token, r.vk) /\ client'[c].worker = w
        /\ client'[c].passkey = r.passkey /\ client'[c].id = r.id /\ client'[c].salt = r.salt
    BY <2>4, <2>6, SetWorker
  <2>8. ClientTypes(c)'
    BY <1>a, <1>c, <1>f, <2>1, <2>4, <2>7 DEF ClientTypes, Becomes, Same
  <2>9. \A v \in Worker : Linked(c, v)'
    <3>1. Proof(client[c])' = Proof(client[c])
      BY <2>1, <2>7 DEF Proof, Kdf, Becomes, Same
    <3>2. \A v \in Worker : Waits(c, v)' => v = w
      BY <2>7 DEF Waits
    <3> QED
      BY <2>1, <2>2, <2>7, <3>1, <3>2 DEF Linked, Becomes
  <2>10. ASSUME NEW d \in Client \ {c} PROVE Linked(d, w)'
    <3>1. ~Waits(d, w)
      BY <1>a, <2>1 DEF ActorTypes, Linked, Calls
    <3> QED
      BY <2>6, <3>1 DEF Linked, Waits
  <2>11. \A d \in Client : ClientTypes(d)'
    BY <1>f, <2>1, <2>6, <2>8, OthersTyped
  <2>12. \A v \in Worker : WorkerTypes(v)'
    BY <1>f, <2>1, <2>2, <2>5, OthersTyped
  <2>13. \A d \in Client, v \in Worker : Linked(d, v)'
    BY <1>f, <2>1, <2>2, <2>6, <2>9, <2>10, OthersTyped
  <2>14. CountTypes'
    BY <1>a, <1>b, <2>1 DEF CountTypes
  <2> QED
    BY <1>f, <2>1, <2>11, <2>12, <2>13, <2>14 DEF ActorTypes
<1>4. ASSUME NEW c \in Client, RequestDelete(c) \/ Lock(c) \/ Disconnect(c) PROVE Parts
  <2> DEFINE r == client[c]
  <2>1. SameTables /\ worker' = worker /\ reg' = reg /\ now' = now /\ kit' = kit
    BY <1>4 DEF RequestDelete, Lock, Disconnect
  <2>2. faults' \in 0 .. MaxFaults
    BY <1>4, <1>l, BoundsAssumption DEF RequestDelete, Lock, Disconnect
  <2>3. CountTypes'
    BY <1>a, <1>b, <2>1, <2>2 DEF CountTypes
  <2>4. ClientTypes(c) /\ DOMAIN r = DOMAIN Out
    BY <1>a DEF ActorTypes, RegistrationOK
  <2>5. CASE client' = [client EXCEPT ![c] = Out]
    <3>1. /\ Out.pc = "out" /\ Out.cmd = "none" /\ Out.n = 0 /\ Out.handle = 0 /\ Out.token = 0
          /\ Out.worker = NoWorker
      BY DEF Out
    <3> DEFINE s == Out
    <3> HIDE DEF s
    <3>2. client' = [client EXCEPT ![c] = s] /\ s.worker = NoWorker
      BY <2>5, <3>1 DEF s
    <3>3. /\ s.pc \in {"out", "open"} \cup Calls /\ s.cmd \in {"none", "register", "login"}
          /\ s.n \in 0 .. Len(reg') /\ s.handle \in 0 .. handles' /\ s.token \in 0 .. tokens'
      BY <1>a, <1>c, <1>f, <2>1, <3>1 DEF s
    <3> QED
      BY <1>f, <2>1, <2>3, <3>2, <3>3, ClientTyped
  <2>6. CASE r.pc = "open" /\ client' = [client EXCEPT ![c].pc = "delete"]
    <3> DEFINE s == [r EXCEPT !.pc = "delete"]
    <3>1. client' = [client EXCEPT ![c] = s]
      BY <2>6
    <3>2. Becomes(r, s, "delete", r.handle, r.token, r.vk) /\ s.worker = r.worker
      BY <2>4, SetPc
    <3>3. r.worker = NoWorker
      BY <1>a, <2>4, <2>6 DEF ActorTypes, Linked, Waits, Calls, ClientTypes
    <3> HIDE DEF s
    <3>4. /\ s.pc \in Calls /\ s.cmd \in {"none", "register", "login"} /\ s.n \in 0 .. Len(reg')
          /\ s.handle \in 0 .. handles' /\ s.token \in 0 .. tokens' /\ s.worker = NoWorker
      BY <1>f, <2>1, <2>4, <3>2, <3>3 DEF Becomes, Same, ClientTypes, Calls
    <3> QED
      BY <1>f, <2>1, <2>3, <3>1, <3>4, ClientTyped
  <2>7. CASE client' = [client EXCEPT ![c].worker = NoWorker]
    <3> DEFINE s == [r EXCEPT !.worker = NoWorker]
    <3>1. client' = [client EXCEPT ![c] = s]
      BY <2>7
    <3>2. Becomes(r, s, r.pc, r.handle, r.token, r.vk) /\ s.worker = NoWorker
      BY <2>4, SetWorker
    <3> HIDE DEF s
    <3>3. /\ s.pc \in {"out", "open"} \cup Calls /\ s.cmd \in {"none", "register", "login"}
          /\ s.n \in 0 .. Len(reg') /\ s.handle \in 0 .. handles' /\ s.token \in 0 .. tokens'
      BY <1>f, <2>1, <2>4, <3>2 DEF Becomes, Same, ClientTypes
    <3> QED
      BY <1>f, <2>1, <2>3, <3>1, <3>2, <3>3, ClientTyped
  <2>8. \/ r.pc = "open" /\ client' = [client EXCEPT ![c].pc = "delete"]
        \/ client' = [client EXCEPT ![c] = Out]
        \/ client' = [client EXCEPT ![c].worker = NoWorker]
    BY <1>4 DEF RequestDelete, Lock, Disconnect
  <2> QED
    BY <1>f, <2>1, <2>3, <2>5, <2>6, <2>7, <2>8
<1>5. ASSUME Tick \/ UNCHANGED vars PROVE Parts
  <2>1. SameTables /\ worker' = worker /\ client' = client /\ reg' = reg /\ kit' = kit /\ faults' = faults
    BY <1>5 DEF Tick, vars
  <2>2. now' \in 0 .. MaxTime
    BY <1>5, <1>a, BoundsAssumption DEF Tick, vars, CountTypes
  <2>3. ActorTypes'
    BY <1>f, <2>1, OthersTyped DEF ActorTypes
  <2> QED
    BY <1>a, <1>b, <1>f, <2>1, <2>2, <2>3 DEF CountTypes
<1>6. ASSUME NEW w \in Worker, ConsumeForRegister(w) PROVE Parts
  <2>1. /\ challenge' \subseteq challenge /\ session' = session /\ handles' = handles /\ tokens' = tokens
        /\ worker[w].op = "register"
        /\ Answer(w, {}) \/ Goto(w, "insert", 0)
    BY <1>6 DEF ConsumeForRegister, ConsumeChallenge
  <2>2. TableTypes' /\ Grows
    BY <1>b, <1>e, <2>1, TablesShrink
  <2>3. "insert" \in StepsOf(worker[w].op) /\ 0 \in 0 .. Len(reg)
    BY <1>c, <1>n, <2>1
  <2> QED
    BY <1>i, <1>j, <1>k, <1>m, <2>1, <2>2, <2>3
<1>7. ASSUME NEW w \in Worker, InsertAccount(w) PROVE Parts
  <2>1. /\ challenge' = challenge /\ session' = session /\ handles' = handles /\ tokens' = tokens
        /\ Answer(w, {worker[w].n}) /\ worker[w].step = "insert"
    BY <1>7 DEF InsertAccount, At
  <2>2. TableTypes' /\ Grows
    BY <1>b, <1>e, <2>1, TablesShrink
  <2>3. Answers(w, {worker[w].n})
    BY <1>g, <1>n, <2>1 DEF Answers
  <2> QED
    BY <1>j, <1>m, <2>1, <2>2, <2>3
<1>8. ASSUME NEW w \in Worker, StoreForRegister(w) PROVE Parts
  <2>1. /\ StoreChallenge(User(worker[w].n)) /\ session' = session /\ tokens' = tokens
        /\ worker[w].op = "begin" /\ Answer(w, {handles'})
    BY <1>8 DEF StoreForRegister
  <2>2. reg' = reg
    BY <2>1 DEF Answer, End
  <2>3. TableTypes' /\ handles' = handles + 1
    BY <1>a, <2>1, <2>2, StoreTypes
  <2>4. Grows /\ Answers(w, {handles'})
    BY <1>a, <1>d, <2>1, <2>3 DEF Answers
  <2> QED
    BY <1>j, <1>m, <2>1, <2>3, <2>4
<1>9. ASSUME NEW w \in Worker, StoreForLogin(w) PROVE Parts
  <2> DEFINE email == reg[worker[w].n].email
             answer == LoginAnswer(email, worker[w].found)
  <2>1. /\ StoreChallenge(LoginUser(email, worker[w].found)) /\ session' = session /\ tokens' = tokens
        /\ worker[w].op = "start" /\ Answer(w, {answer})
    BY <1>9 DEF StoreForLogin
  <2>2. reg' = reg
    BY <2>1 DEF Answer, End
  <2>3. TableTypes' /\ handles' = handles + 1
    BY <1>a, <2>1, <2>2, StoreTypes
  <2>4. answer.handle = handles'
    BY <2>3 DEF LoginAnswer
  <2> HIDE DEF answer
  <2>5. Grows /\ Answers(w, {answer})
    BY <1>a, <1>d, <2>1, <2>3, <2>4 DEF Answers
  <2> QED
    BY <1>j, <1>m, <2>1, <2>3, <2>5
<1>10. ASSUME NEW w \in Worker, LoginStart(w) PROVE Parts
  <2>1. SameTables /\ worker[w].op = "start" /\ Goto(w, "store", Found(w))
    BY <1>10 DEF LoginStart
  <2> QED
    BY <1>f, <1>h, <1>k, <1>n, <2>1
<1>11. ASSUME NEW w \in Worker, LoginFinish(w) PROVE Parts
  <2>1. SameTables /\ worker[w].op = "finish"
    BY <1>11 DEF LoginFinish
  <2>2. Goto(w, "consume", Found(w)) \/ Goto(w, "issue", Found(w)) \/ Answer(w, {})
    BY <1>11 DEF LoginFinish
  <2> QED
    BY <1>f, <1>h, <1>i, <1>j, <1>k, <1>m, <1>n, <2>1, <2>2
<1>12. ASSUME NEW w \in Worker, VerifyAssertion(w) PROVE Parts
  <2>1. /\ challenge' \subseteq challenge /\ session' = session /\ handles' = handles /\ tokens' = tokens
        /\ worker[w].op = "finish"
        /\ Answer(w, {}) \/ Goto(w, "issue", worker[w].found)
    BY <1>12 DEF VerifyAssertion, ConsumeChallenge
  <2>2. TableTypes' /\ Grows
    BY <1>b, <1>e, <2>1, TablesShrink
  <2> QED
    BY <1>g, <1>i, <1>j, <1>k, <1>m, <1>n, <2>1, <2>2
<1>13. ASSUME NEW w \in Worker, IssueSession(w) PROVE Parts
  <2>1. /\ TableTypes' /\ handles' = handles
        /\ \/ tokens' = tokens /\ End(w, {})
           \/ tokens' = tokens + 1 /\ End(w, {tokens'})
    BY <1>13, <1>a, IssueTypes
  <2>2. faults' = faults /\ worker[w].op = "finish"
    BY <1>13 DEF IssueSession, Answer
  <2>3. Grows /\ Answers(w, {tokens'})
    BY <1>a, <1>d, <2>1, <2>2 DEF Answers
  <2> QED
    BY <1>i, <1>j, <1>l, <2>1, <2>2, <2>3
<1>14. ASSUME NEW w \in Worker, Authenticate(w) PROVE Parts
  <2>1. SameTables /\ worker[w].step = "lookup"
    BY <1>14 DEF Authenticate, At
  <2>2. Answer(w, {}) \/ \E s \in session : Goto(w, "work", s.account)
    BY <1>14 DEF Authenticate, LiveSessions
  <2>3. "work" \in StepsOf(worker[w].op)
    BY <1>g, <1>n, <2>1 DEF Calls
  <2>4. \A s \in session : s.account \in 0 .. Len(reg)
    BY <1>a DEF TableTypes, Numbers
  <2> QED
    BY <1>f, <1>i, <1>j, <1>k, <1>m, <2>1, <2>2, <2>3, <2>4
<1>15. ASSUME NEW w \in Worker, Read(w) \/ Delete(w) PROVE Parts
  <2>1. /\ challenge' = challenge /\ session' \subseteq session /\ handles' = handles /\ tokens' = tokens
        /\ worker[w].step = "work" /\ Answer(w, {worker[w].found} \cap account)
    BY <1>15 DEF Read, Delete, DeleteAccount, At, tableVars
  <2>2. TableTypes' /\ Grows
    BY <1>b, <1>e, <2>1, TablesShrink
  <2>3. Answers(w, {worker[w].found} \cap account)
    BY <1>g, <1>n, <2>1 DEF Answers
  <2> QED
    BY <1>j, <1>m, <2>1, <2>2, <2>3
<1>16. ASSUME NEW w \in Worker, Fail(w) PROVE Parts
  <2>1. SameTables /\ End(w, {}) /\ faults' \in 0 .. MaxFaults
    BY <1>16, <1>l, BoundsAssumption DEF Fail
  <2> QED
    BY <1>f, <1>i, <1>j, <2>1
<1> HIDE DEF Parts
<1>17. Parts
  BY <1>1, <1>2, <1>3, <1>4, <1>5, <1>6, <1>7, <1>8, <1>9, <1>10, <1>11, <1>12, <1>13, <1>14,
     <1>15, <1>16 DEF Next
<1> QED
  BY <1>b, <1>17 DEF TypeInv, Parts

\* Every variable has its type, for any number of clients and workers.
THEOREM TypeCorrect == Spec => []TypeOK
<1> QED
  BY TypeInit, TypeStep, TypeInvTypes, PTL DEF Spec

----------------------------------------------------------------------------
(* Keys and proofs are those of one registration *)

\* An envelope only opens with the key it was made with, whatever the account
\* and the costs it is opened under.
LEMMA UnwrapOnly ==
    ASSUME NEW key, NEW other, NEW vk, NEW account1, NEW account2, NEW type1, NEW type2,
           NEW kdf1, NEW kdf2,
           NEW x \in Unwrap(other, Wrap(key, vk, account1, type1, kdf1), account2, type2, kdf2)
    PROVE  other = key /\ x = vk
<1> DEFINE e == Wrap(key, vk, account1, type1, kdf1)
<1>1. e.body = Encrypt(key, EnvelopeAad(account1, type1, kdf1), vk)
  BY DEF Wrap
<1>2. x \in Decrypt(other, EnvelopeAad(account2, type2, kdf2), e.body)
  BY DEF Unwrap
<1> HIDE DEF e
<1> QED
  BY <1>1, <1>2, DecryptEncrypt

\* The envelopes for passkeys.
LEMMA PasskeyEnvelopes ==
    ASSUME NEW m, NEW e \in Bundle(m).passkeyEnvelope
    PROVE  e = Wrap(PrfWrapKey(Prf(m)), <<"vk", m>>, AccountId(m), "passkey", NoKdf)
BY DEF Bundle, RegisterWith, Random

\* Whatever row an answer comes from, a client unwraps its own vault key from
\* it or nothing.
LEMMA VaultKeyOwn ==
    ASSUME NEW r, NEW m
    PROVE  VaultKey(r, Bundle(m)) \subseteq {Random(r.n).vk}
<1> SUFFICES ASSUME NEW x \in VaultKey(r, Bundle(m)) PROVE x = Random(r.n).vk
  OBVIOUS
<1>1. Random(r.n).vk = <<"vk", r.n>> /\ Random(r.n).secretKey = <<"secret-key", r.n>>
  BY DEF Random
<1>2. CASE r.passkey
  <2>1. PICK e \in Bundle(m).passkeyEnvelope : x \in UnlockWithPasskey(Prf(r.n), e, r.id)
    BY <1>2 DEF VaultKey
  <2>2. e = Wrap(PrfWrapKey(Prf(m)), <<"vk", m>>, AccountId(m), "passkey", NoKdf)
    BY PasskeyEnvelopes
  <2>3. PrfWrapKey(Prf(r.n)) = PrfWrapKey(Prf(m)) /\ x = <<"vk", m>>
    BY <2>1, <2>2, UnwrapOnly DEF UnlockWithPasskey
  <2>4. r.n = m
    BY <2>3, KeysDiffer
  <2> QED
    BY <1>1, <2>3, <2>4
<1>3. CASE ~r.passkey
  <2> DEFINE key(k) == PkFromStretched(Stretch(reg[r.n].password, <<"secret-key", r.n>>, k))
             kdf == KdfV1(<<"salt", m>>)
             root == Stretch(reg[m].password, <<"secret-key", m>>, kdf)
             e == Bundle(m).passwordEnvelope
  <2>1. e = Wrap(PkFromStretched(root), <<"vk", m>>, AccountId(m), "password", kdf)
    BY BundleFields
  <2>2. x \in UnlockWithPassword(reg[r.n].password, <<"secret-key", r.n>>, e, Kdf(r), r.id)
    BY <1>1, <1>3 DEF VaultKey
  <2> HIDE DEF e
  <2>3. PICK k \in DecodeKdf(Kdf(r)) : x \in Unwrap(key(k), e, r.id, "password", k)
    BY <2>2 DEF UnlockWithPassword
  <2>4. key(k) = PkFromStretched(root) /\ x = <<"vk", m>>
    <3> DEFINE mine == key(k)
               theirs == PkFromStretched(root)
               vk == <<"vk", m>>
    <3>1. x \in Unwrap(mine, Wrap(theirs, vk, AccountId(m), "password", kdf), r.id, "password", k)
      BY <2>1, <2>3
    <3> HIDE DEF mine, theirs, kdf, vk
    <3>2. mine = theirs /\ x = vk
      BY <3>1, UnwrapOnly
    <3> QED
      BY <3>2 DEF mine, theirs, vk
  <2>5. r.n = m
    BY <2>4, KeysDiffer
  <2> QED
    BY <1>1, <2>4, <2>5
<1> QED
  BY <1>2, <1>3

\* What a client presents is the proof of its own registration only.
LEMMA ProofOwn ==
    ASSUME NEW r, NEW m, ProvenBy(Proof(r), m)
    PROVE  m = r.n
<1> DEFINE root == Stretch(reg[m].password, <<"secret-key", m>>, KdfV1(<<"salt", m>>))
<1>1. Bundle(m).authVerifier = AvFromStretched(root, AccountId(m))
  BY BundleFields
<1>2. \A a, b, c : <<"auth/verifier", a, b>> # <<"credential", c>>
  OBVIOUS
<1>3. CASE r.passkey
  <2>1. Proof(r) = {Credential(r.n)}
    BY <1>3 DEF Proof
  <2>2. Credential(r.n) # Bundle(m).authVerifier
    BY <1>1, <1>2 DEF Credential, AvFromStretched
  <2>3. Credential(r.n) = Credential(m)
    BY <2>1, <2>2 DEF ProvenBy
  <2> QED
    BY <2>3 DEF Credential
<1>4. CASE ~r.passkey
  <2> DEFINE mine == Stretch(reg[r.n].password, <<"secret-key", r.n>>, Kdf(r))
  <2>1. Random(r.n).secretKey = <<"secret-key", r.n>> /\ DecodeKdf(Kdf(r)) = {Kdf(r)}
    BY DecodeV1 DEF Random, Kdf
  <2>2. Proof(r) = {AvFromStretched(mine, r.id)}
    BY <1>4, <2>1 DEF Proof, DeriveAuthVerifier
  <2>3. AvFromStretched(mine, r.id) # Credential(m)
    BY <1>2 DEF Credential, AvFromStretched
  <2>4. AvFromStretched(mine, r.id) = AvFromStretched(root, AccountId(m))
    BY <1>1, <2>2, <2>3 DEF ProvenBy
  <2>5. mine = root
    <3> HIDE DEF mine, root
    <3> QED
      BY <2>4 DEF AvFromStretched
  <2>6. PkFromStretched(mine) = PkFromStretched(root)
    BY <2>5
  <2> QED
    BY <2>6, KeysDiffer
<1> QED
  BY <1>3, <1>4

----------------------------------------------------------------------------
(* What a client holds *)

\* Every session under a token is for one registration.
Own(t, n) == \A s \in session : s.token = t => s.account = n

\* Somebody was shown the Secret Key of n, or has its passkey.
Holder(n) == n \in Numbers /\ (n \in kit \/ HasPasskey(n))

HoldsVk(r) ==
    \/ r.cmd = "register" /\ r.pc \in {"start", "finish"}
    \/ r.pc \in {"vault", "open", "delete"}
HoldsToken(r) == r.pc \in {"envelopes", "vault", "open", "delete"}
HoldsKit(r) == HoldsToken(r) \/ (r.pc # "out" /\ r.cmd # "register")

\* The vault key, the sessions and the Secret Key or passkey of one client.
ClientHolds(c) ==
    /\ HoldsVk(client[c]) => client[c].vk = {Random(client[c].n).vk}
    /\ HoldsToken(client[c]) => Own(client[c].token, client[c].n)
    /\ HoldsKit(client[c]) => Holder(client[c].n)

\* A request to delete is for the account whose Secret Key or passkey its
\* client used, whether the client still waits or not.
MayDelete(w) ==
    worker[w].op = "delete" =>
      /\ Holder(worker[w].n)
      /\ Own(worker[w].token, worker[w].n)
      /\ worker[w].step = "work" => worker[w].found = worker[w].n

\* Every session was earned with the verifier or a credential of its account.
SessionsProven == \A s \in session : ProvenBy(s.proof, s.account)

HoldOK == (\A c \in Client : ClientHolds(c)) /\ (\A w \in Worker : MayDelete(w))

HoldInv == TypeInv /\ ProofInv /\ SessionsProven /\ HoldOK

\* At first nobody holds anything.
LEMMA HoldInit == Init => HoldInv
<1> SUFFICES ASSUME Init PROVE HoldOK
  BY TypeInit, ProofInit DEF HoldInv, SessionsProven, Init
<1> QED
  BY DEF Init, HoldOK, ClientHolds, HoldsVk, HoldsToken, HoldsKit, MayDelete, Out, Idle

\* A step that draws, shows and issues: a new session has a new token.
Issues ==
    /\ \A n \in Numbers : n \in Numbers' /\ reg'[n] = reg[n]
    /\ kit \subseteq kit'
    /\ \A s \in session' : s \in session \/ s.token = tokens + 1
    /\ tokens \in Nat

\* Every step does no more than that.
LEMMA StepIssues == ASSUME TypeInv, [Next]_vars PROVE Issues
<1>1. /\ \A n \in Numbers : n \in Numbers' /\ reg'[n] = reg[n]
      /\ tokens \in Nat
  BY RegistrationStep DEF TypeInv, TableTypes
<1> DEFINE Rest == kit \subseteq kit' /\ \A s \in session' : s \in session \/ s.token = tokens + 1
<1>2. ASSUME NEW c \in Client,
             \/ \E e \in Email, p \in Password, b \in BOOLEAN : StartRegister(c, e, p, b)
             \/ \E n \in DOMAIN reg, b \in BOOLEAN : StartLogin(c, n, b)
             \/ \E w \in Worker : Call(c, w)
             \/ RequestDelete(c) \/ Lock(c) \/ Disconnect(c)
      PROVE  Rest
  BY <1>2 DEF StartRegister, StartLogin, Call, RequestDelete, Lock, Disconnect, tableVars
<1>3. ASSUME NEW w \in Worker, IssueSession(w) PROVE Rest
  <2>1. kit \subseteq kit'
    BY <1>3 DEF IssueSession, Answer, End
  <2> QED
    BY <1>3, <2>1 DEF IssueSession
<1>4. ASSUME NEW w \in Worker,
             \/ ConsumeForRegister(w) \/ InsertAccount(w) \/ StoreForRegister(w)
             \/ LoginStart(w) \/ StoreForLogin(w) \/ LoginFinish(w) \/ VerifyAssertion(w)
             \/ Authenticate(w) \/ Read(w) \/ Delete(w) \/ Fail(w)
      PROVE  Rest
  <2>1. session' \subseteq session
    BY <1>4 DEF ConsumeForRegister, InsertAccount, StoreForRegister, LoginStart, StoreForLogin,
                LoginFinish, VerifyAssertion, Authenticate, Read, Delete, DeleteAccount, Fail,
                tableVars
  <2>2. (\E answer : End(w, answer)) \/ \E step, found : Goto(w, step, found)
    BY <1>4 DEF ConsumeForRegister, InsertAccount, StoreForRegister, LoginStart, StoreForLogin,
                LoginFinish, VerifyAssertion, Authenticate, Read, Delete, Fail, Answer
  <2>3. kit \subseteq kit'
    BY <2>2 DEF End, Goto
  <2> QED
    BY <2>1, <2>3
<1>5. ASSUME Tick \/ UNCHANGED vars PROVE Rest
  BY <1>5 DEF Tick, vars, tableVars
<1> HIDE DEF Rest
<1>6. Rest
  BY <1>2, <1>3, <1>4, <1>5 DEF Next
<1> QED
  BY <1>1, <1>6 DEF Issues, Rest

\* Who holds a registration goes on to.
LEMMA HolderStays == ASSUME Issues, NEW n, Holder(n) PROVE Holder(n)'
BY DEF Issues, Holder, HasPasskey

\* A token that was issued is issued for nobody else.
LEMMA OwnStays == ASSUME Issues, NEW t \in 0 .. tokens, NEW n, Own(t, n) PROVE Own(t, n)'
BY DEF Issues, Own

\* Those that a step leaves alone hold what they held.
LEMMA OthersHold ==
    ASSUME TypeInv, HoldOK, Issues
    PROVE  /\ \A c \in Client : client'[c] = client[c] => ClientHolds(c)'
           /\ \A w \in Worker : worker'[w] = worker[w] => MayDelete(w)'
<1>1. ASSUME NEW c \in Client, client'[c] = client[c] PROVE ClientHolds(c)'
  <2>1. ClientHolds(c) /\ client[c].token \in 0 .. tokens
    BY DEF HoldOK, TypeInv, ActorTypes, ClientTypes
  <2>2. HoldsToken(client[c]) => Own(client[c].token, client[c].n)'
    BY <1>1, <2>1, OwnStays DEF ClientHolds, Own
  <2>3. HoldsKit(client[c]) => Holder(client[c].n)'
    BY <1>1, <2>1, HolderStays DEF ClientHolds, Holder
  <2> QED
    BY <1>1, <2>1, <2>2, <2>3 DEF ClientHolds
<1>2. ASSUME NEW w \in Worker, worker'[w] = worker[w] PROVE MayDelete(w)'
  <2>1. MayDelete(w) /\ worker[w].token \in 0 .. tokens
    BY DEF HoldOK, TypeInv, ActorTypes, WorkerTypes
  <2> SUFFICES ASSUME worker[w].op = "delete" PROVE MayDelete(w)'
    BY <1>2 DEF MayDelete
  <2>2. Own(worker[w].token, worker[w].n)'
    BY <1>2, <2>1, OwnStays DEF MayDelete, Own
  <2>3. Holder(worker[w].n)'
    BY <1>2, <2>1, HolderStays DEF MayDelete, Holder
  <2> QED
    BY <1>2, <2>1, <2>2, <2>3 DEF MayDelete
<1> QED
  BY <1>1, <1>2

\* The client that waits for a handler which ends, when a token that it is
\* given is issued for its own registration.
LEMMA AnsweredHolds ==
    ASSUME TypeInv, HoldOK, Issues, NEW w \in Worker, NEW answer, NEW c \in Client,
           Waits(c, w), End(w, answer),
           worker[w].op = "finish" =>
             \A t \in answer, x \in session' : x.token = t => x.account = client[c].n
    PROVE  ClientHolds(c)'
<1> DEFINE r == client[c]
           s == After(r, answer)
           vk == Unwrapped(r, answer)
<1>1. DOMAIN r = DOMAIN Out /\ worker[w].op = r.pc /\ r.pc \in Calls
  BY DEF TypeInv, RegistrationOK, ActorTypes, Linked
<1>2. ClientHolds(c) /\ r.token \in 0 .. tokens /\ client'[c] = s
  BY DEF HoldOK, TypeInv, ActorTypes, ClientTypes, End
<1>3. CASE s = Out
  <2>1. client'[c] = Out
    BY <1>2, <1>3
  <2> QED
    BY <2>1 DEF ClientHolds, HoldsVk, HoldsToken, HoldsKit, Out
<1>4. CASE s # Out
  <2>1. Same(r, s) /\ Proceeds(r, s, answer, vk)
    BY <1>1, <1>4, AfterCases
  <2>2. s.n = r.n /\ s.cmd = r.cmd
    BY <2>1 DEF Same
  <2>3. r.pc \in {"register", "envelopes"} => vk \subseteq {Random(r.n).vk}
    <3>1. \A m : VaultKey(r, Bundle(m)) \subseteq {Random(r.n).vk}
      BY VaultKeyOwn
    <3>2. r.pc = "register" => vk = VaultKey(r, Bundle(r.n))
      BY DEF Unwrapped
    <3>3. r.pc = "envelopes" => vk = UNION {VaultKey(r, Bundle(m)) : m \in answer}
      BY DEF Unwrapped
    <3> QED
      BY <3>1, <3>2, <3>3
  <2>4. r.pc = "finish" /\ s.pc = "open" => r.n \in kit'
    <3> SUFFICES ASSUME r.pc = "finish", s.pc = "open" PROVE r.n \in kit'
      OBVIOUS
    <3>1. Reveals(client[c], client'[c])
      BY <1>2 DEF Reveals
    <3> QED
      BY <3>1 DEF End
  <2>5. r.n \in Numbers /\ r.n \in Numbers'
    BY <1>1 DEF TypeInv, RegistrationOK, Calls, Issues
  <2>6. reg' = reg
    BY DEF End
  <2> HIDE DEF s, vk
  <2>7. HoldsVk(s) => s.vk = {Random(s.n).vk}
    BY <1>2, <2>1, <2>2, <2>3 DEF HoldsVk, Proceeds, ClientHolds
  <2>a. client'[c] = s
    BY <1>2
  <2>8. HoldsToken(s) => Own(client[c].token, client[c].n)'
    <3> SUFFICES ASSUME HoldsToken(s) PROVE Own(client[c].token, client[c].n)'
      OBVIOUS
    <3>1. CASE r.pc = "finish"
      <4>1. s.token \in answer
        BY <2>1, <3>1 DEF Proceeds
      <4>2. \A t \in answer, x \in session' : x.token = t => x.account = client'[c].n
        BY <1>1, <2>2, <2>a, <3>1
      <4> QED
        BY <2>a, <4>1, <4>2 DEF Own
    <3>2. CASE r.pc # "finish"
      <4>1. HoldsToken(r) /\ s.token = r.token
        BY <2>1, <3>2 DEF Proceeds, HoldsToken
      <4>2. Own(r.token, r.n)
        BY <1>2, <4>1 DEF ClientHolds
      <4>3. \A x \in session' : x.token = r.token => x.account = r.n
        BY <1>2, <4>2 DEF Issues, Own
      <4>4. client'[c].token = r.token /\ client'[c].n = r.n
        BY <2>2, <2>a, <4>1
      <4> QED
        BY <4>3, <4>4 DEF Own
    <3> QED
      BY <3>1, <3>2
  <2>9. HoldsKit(s) => r.n \in kit' \/ HasPasskey(r.n)
    <3>1. HoldsKit(r) => Holder(r.n) /\ kit \subseteq kit'
      BY <1>2 DEF ClientHolds, Issues
    <3>2. HoldsKit(s) => HoldsKit(r) \/ (r.pc = "finish" /\ s.pc = "open")
      BY <2>1, <2>2 DEF HoldsKit, HoldsToken, Proceeds
    <3> QED
      BY <2>4, <3>1, <3>2 DEF Holder
  <2>10. HoldsKit(s) => Holder(client[c].n)'
    BY <2>2, <2>5, <2>6, <2>9, <2>a DEF Holder, HasPasskey
  <2> QED
    BY <2>7, <2>8, <2>10, <2>a DEF ClientHolds
<1> QED
  BY <1>3, <1>4

\* A handler that ends.
LEMMA EndHolds ==
    ASSUME TypeInv, HoldOK, Issues, NEW w \in Worker, NEW answer, End(w, answer),
           \A c \in Client :
             Waits(c, w) /\ worker[w].op = "finish" =>
               \A t \in answer, x \in session' : x.token = t => x.account = client[c].n
    PROVE  HoldOK'
<1>1. worker'[w] = Idle /\ \A v \in Worker \ {w} : worker'[v] = worker[v]
  BY EndFields DEF TypeInv
<1>2. ASSUME NEW c \in Client PROVE ClientHolds(c)'
  <2>1. CASE Waits(c, w)
    BY <2>1, AnsweredHolds
  <2>2. CASE ~Waits(c, w)
    <3>1. client'[c] = client[c]
      BY <2>2 DEF End
    <3> QED
      BY <3>1, OthersHold
  <2> QED
    BY <2>1, <2>2
<1>3. MayDelete(w)'
  BY <1>1 DEF MayDelete, Idle
<1> QED
  BY <1>1, <1>2, <1>3, OthersHold DEF HoldOK

\* A handler that goes on, to the work of deletion for the requester only.
LEMMA GotoHolds ==
    ASSUME TypeInv, HoldOK, Issues, NEW w \in Worker, NEW step, NEW found, Goto(w, step, found),
           worker[w].op = "delete" => found = worker[w].n
    PROVE  HoldOK'
<1>1. /\ \A v \in Worker \ {w} : worker'[v] = worker[v]
      /\ worker'[w].found = found /\ worker'[w].op = worker[w].op
      /\ worker'[w].n = worker[w].n /\ worker'[w].token = worker[w].token
  BY GotoFields DEF TypeInv
<1>2. MayDelete(w) /\ worker[w].token \in 0 .. tokens
  BY DEF HoldOK, TypeInv, ActorTypes, WorkerTypes
<1>3. MayDelete(w)'
  <2> SUFFICES ASSUME worker[w].op = "delete" PROVE MayDelete(w)'
    BY <1>1 DEF MayDelete
  <2>1. Own(worker[w].token, worker[w].n)'
    BY <1>1, <1>2, OwnStays DEF MayDelete, Own
  <2>2. Holder(worker[w].n)'
    BY <1>1, <1>2, HolderStays DEF MayDelete, Holder
  <2> QED
    BY <1>1, <2>1, <2>2 DEF MayDelete
<1>4. \A c \in Client : client'[c] = client[c]
  BY DEF Goto
<1> QED
  BY <1>1, <1>3, <1>4, OthersHold DEF HoldOK

\* What a command becomes that its user starts, locks, or sends again.
LEMMA ClientHoldsNext ==
    ASSUME TypeInv, HoldOK, Issues, worker' = worker, NEW c \in Client, NEW s,
           client' = [client EXCEPT ![c] = s], ClientHolds(c)'
    PROVE  HoldOK'
<1>1. \A d \in Client \ {c} : client'[d] = client[d]
  BY DEF TypeInv, RegistrationOK
<1> QED
  BY <1>1, OthersHold DEF HoldOK

\* The token of a new session goes to the client whose proof earned it.
LEMMA EarnedByOwner ==
    ASSUME TypeInv, ProofInv, NEW w \in Worker, NEW c \in Client, Waits(c, w),
           worker[w].op = "finish", worker[w].step = "issue"
    PROVE  worker[w].found = client[c].n
<1>1. worker[w].proof = Proof(client[c])
  BY DEF TypeInv, ActorTypes, Linked
<1>2. ProvenBy(worker[w].proof, worker[w].found)
  BY DEF ProofInv, ProofOK, WorkerProofOK
<1> QED
  BY <1>1, <1>2, ProofOwn

\* What a session was earned with stays the proof of its account.
LEMMA SessionsStep ==
    ASSUME TypeInv, ProofInv, SessionsProven, Issues, [Next]_vars PROVE SessionsProven'
<1> SUFFICES ASSUME NEW s \in session' PROVE ProvenBy(s.proof, s.account)'
  BY DEF SessionsProven
<1>1. s.account \in Numbers /\ ProvenBy(s.proof, s.account)
  BY ProvenStep DEF SessionsProven, TypeInv, TableTypes
<1>2. reg'[s.account] = reg[s.account]
  BY <1>1 DEF Issues
<1>3. Bundle(s.account)' = Bundle(s.account)
  BY <1>2 DEF Bundle
<1> QED
  BY <1>1, <1>3 DEF ProvenBy

\* Every step leaves clients with what is theirs.
LEMMA HoldStep == HoldInv /\ [Next]_vars => HoldInv'
<1> SUFFICES ASSUME HoldInv, [Next]_vars PROVE HoldInv'
  OBVIOUS
<1>a. TypeInv /\ ProofInv /\ SessionsProven /\ HoldOK /\ WorkerShape /\ RegistrationOK
  BY DEF HoldInv, TypeInv
<1>b. TypeInv' /\ ProofInv' /\ Issues /\ SessionsProven'
  BY <1>a, TypeStep, ProofStep, StepIssues, SessionsStep
<1>c. \A w \in Worker : /\ worker[w].op \in Calls \cup {"idle"}
                        /\ worker[w].step \in StepsOf(worker[w].op)
  BY <1>a DEF TypeInv, ActorTypes, WorkerTypes
<1>d. \A w \in Worker : worker[w].op = "delete" => worker[w].step \in {"lookup", "work"}
  BY <1>c DEF StepsOf
<1>e. ASSUME NEW w \in Worker, NEW answer, End(w, answer),
             answer = {} \/ worker[w].op # "finish"
      PROVE  HoldOK'
  BY <1>a, <1>b, <1>e, EndHolds
<1>1. ASSUME NEW c \in Client, NEW e \in Email, NEW p \in Password, NEW b \in BOOLEAN,
             StartRegister(c, e, p, b)
      PROVE  HoldOK'
  <2> DEFINE n == Len(reg) + 1
             r == [Out EXCEPT !.pc = IF b THEN "begin" ELSE "register",
                              !.cmd = "register", !.n = n, !.passkey = b,
                              !.id = AccountId(n), !.salt = Random(n).salt]
  <2>1. client' = [client EXCEPT ![c] = r] /\ worker' = worker
    BY <1>1 DEF StartRegister
  <2>2. r.pc \in {"begin", "register"} /\ r.cmd = "register"
    BY DEF Out
  <2> HIDE DEF r
  <2>3. client'[c] = r
    BY <1>a, <2>1 DEF RegistrationOK
  <2>4. ClientHolds(c)'
    BY <2>2, <2>3 DEF ClientHolds, HoldsVk, HoldsToken, HoldsKit
  <2> QED
    BY <1>a, <1>b, <2>1, <2>4, ClientHoldsNext
<1>2. ASSUME NEW c \in Client, NEW n \in DOMAIN reg, NEW b \in BOOLEAN, StartLogin(c, n, b)
      PROVE  HoldOK'
  <2> DEFINE r == [Out EXCEPT !.pc = "start", !.cmd = "login", !.n = n, !.passkey = b]
  <2>1. client' = [client EXCEPT ![c] = r] /\ worker' = worker
    BY <1>2 DEF StartLogin
  <2>2. r.pc = "start" /\ r.cmd = "login" /\ r.n = n
    BY DEF Out
  <2>3. Holder(n)
    BY <1>2, <1>a DEF StartLogin, Holder, RegistrationOK, Numbers
  <2> HIDE DEF r
  <2>4. client'[c] = r
    BY <1>a, <2>1 DEF RegistrationOK
  <2>5. Holder(n)'
    BY <1>b, <2>3, HolderStays
  <2>6. ClientHolds(c)'
    BY <2>2, <2>4, <2>5 DEF ClientHolds, HoldsVk, HoldsToken, HoldsKit, Holder
  <2> QED
    BY <1>a, <1>b, <2>1, <2>6, ClientHoldsNext
<1>3. ASSUME NEW c \in Client, NEW w \in Worker, Call(c, w) PROVE HoldOK'
  <2> DEFINE r == client[c]
  <2>1. client' = [client EXCEPT ![c].worker = w] /\ reg' = reg /\ session' = session
    BY <1>3 DEF Call, tableVars
  <2>2. /\ \A v \in Worker \ {w} : worker'[v] = worker[v]
        /\ worker'[w].op = r.pc /\ worker'[w].step = FirstStep(r)
        /\ worker'[w].token = r.token /\ worker'[w].n = r.n
    BY <1>3, <1>a, CallFields
  <2>3. /\ client'[c] = [r EXCEPT !.worker = w] /\ DOMAIN r = DOMAIN Out
        /\ \A d \in Client \ {c} : client'[d] = client[d]
    BY <1>a, <2>1 DEF RegistrationOK
  <2>4. Becomes(r, client'[c], r.pc, r.handle, r.token, r.vk)
    BY <2>3, SetWorker
  <2>5. ClientHolds(c) /\ r.token \in 0 .. tokens
    BY <1>a DEF HoldOK, TypeInv, ActorTypes, ClientTypes
  <2>6. /\ HoldsToken(r) => Own(r.token, r.n)
        /\ HoldsKit(r) => Holder(r.n)
    BY <2>5 DEF ClientHolds
  <2>7. HoldsToken(r) => Own(client[c].token, client[c].n)'
    BY <2>1, <2>4, <2>6 DEF Own, Becomes, Same
  <2>8. HoldsKit(r) => Holder(client[c].n)'
    BY <1>b, <2>4, <2>6, HolderStays DEF Holder, HasPasskey, Becomes, Same, Issues
  <2>9. ClientHolds(c)'
    BY <2>4, <2>5, <2>7, <2>8 DEF ClientHolds, HoldsVk, HoldsToken, HoldsKit, Becomes, Same
  <2>10. MayDelete(w)'
    <3> SUFFICES ASSUME r.pc = "delete" PROVE MayDelete(w)'
      BY <2>2 DEF MayDelete
    <3>1. FirstStep(r) = "lookup"
      BY DEF FirstStep
    <3>2. Own(r.token, r.n) /\ Holder(r.n)
      BY <2>6 DEF HoldsToken, HoldsKit
    <3>3. \A s \in session' : s.token = r.token => s.account = r.n
      BY <2>1, <3>2 DEF Own
    <3>4. Own(worker[w].token, worker[w].n)'
      BY <2>2, <3>3 DEF Own
    <3>5. Holder(r.n) /\ kit \subseteq kit' /\ r.n \in Numbers'
      BY <1>b, <3>2 DEF Holder, Issues
    <3>6. Holder(worker[w].n)'
      BY <2>1, <2>2, <3>5 DEF Holder, HasPasskey
    <3> QED
      BY <2>2, <3>1, <3>4, <3>6 DEF MayDelete
  <2> QED
    BY <1>a, <1>b, <2>2, <2>3, <2>9, <2>10, OthersHold DEF HoldOK
<1>4. ASSUME NEW c \in Client, RequestDelete(c) \/ Lock(c) \/ Disconnect(c) PROVE HoldOK'
  <2> DEFINE r == client[c]
  <2>1. worker' = worker /\ session' = session /\ reg' = reg /\ kit' = kit
    BY <1>4 DEF RequestDelete, Lock, Disconnect, tableVars
  <2>2. DOMAIN r = DOMAIN Out /\ ClientHolds(c)
    BY <1>a DEF RegistrationOK, HoldOK
  <2>3. CASE client' = [client EXCEPT ![c] = Out]
    <3>1. client'[c] = Out
      BY <1>a, <2>3 DEF RegistrationOK
    <3>2. ClientHolds(c)'
      BY <3>1 DEF ClientHolds, HoldsVk, HoldsToken, HoldsKit, Out
    <3> DEFINE s == Out
    <3> HIDE DEF s
    <3>3. client' = [client EXCEPT ![c] = s]
      BY <2>3 DEF s
    <3> QED
      BY <1>a, <1>b, <2>1, <3>2, <3>3, ClientHoldsNext
  <2>4. ASSUME NEW s, client' = [client EXCEPT ![c] = s],
               Becomes(r, s, s.pc, r.handle, r.token, r.vk),
               s.pc = r.pc \/ (r.pc = "open" /\ s.pc = "delete")
        PROVE  HoldOK'
    <3>1. client'[c] = s
      BY <1>a, <2>4 DEF RegistrationOK
    <3>2. s.n = r.n /\ s.cmd = r.cmd /\ s.token = r.token /\ s.vk = r.vk
      BY <2>4 DEF Becomes, Same
    <3>3. HoldsVk(s) => s.vk = {Random(s.n).vk}
      BY <2>2, <2>4, <3>2 DEF HoldsVk, ClientHolds
    <3>4. HoldsToken(s) => Own(r.token, r.n)
      BY <2>2, <2>4 DEF HoldsToken, ClientHolds
    <3>5. HoldsKit(s) => Holder(r.n)
      BY <2>2, <2>4, <3>2 DEF HoldsKit, HoldsToken, ClientHolds
    <3>6. HoldsToken(s) => Own(client[c].token, client[c].n)'
      BY <2>1, <3>1, <3>2, <3>4 DEF Own
    <3>7. HoldsKit(s) => Holder(client[c].n)'
      BY <2>1, <3>1, <3>2, <3>5 DEF Holder, HasPasskey, Numbers
    <3>8. ClientHolds(c)'
      BY <3>1, <3>3, <3>6, <3>7 DEF ClientHolds
    <3> QED
      BY <1>a, <1>b, <2>1, <2>4, <3>8, ClientHoldsNext
  <2>5. CASE r.pc = "open" /\ client' = [client EXCEPT ![c].pc = "delete"]
    <3> DEFINE s == [r EXCEPT !.pc = "delete"]
    <3>1. client' = [client EXCEPT ![c] = s]
      BY <2>5
    <3>2. Becomes(r, s, "delete", r.handle, r.token, r.vk)
      BY <2>2, SetPc
    <3> HIDE DEF s
    <3>3. s.pc = "delete"
      BY <3>2 DEF Becomes
    <3> QED
      BY <2>4, <2>5, <3>1, <3>2, <3>3
  <2>6. CASE client' = [client EXCEPT ![c].worker = NoWorker]
    <3> DEFINE s == [r EXCEPT !.worker = NoWorker]
    <3>1. client' = [client EXCEPT ![c] = s]
      BY <2>6
    <3>2. Becomes(r, s, r.pc, r.handle, r.token, r.vk)
      BY <2>2, SetWorker
    <3> HIDE DEF s
    <3>3. s.pc = r.pc
      BY <3>2 DEF Becomes
    <3> QED
      BY <2>4, <3>1, <3>2, <3>3
  <2>7. \/ r.pc = "open" /\ client' = [client EXCEPT ![c].pc = "delete"]
        \/ client' = [client EXCEPT ![c] = Out]
        \/ client' = [client EXCEPT ![c].worker = NoWorker]
    BY <1>4 DEF RequestDelete, Lock, Disconnect
  <2> QED
    BY <2>3, <2>5, <2>6, <2>7
<1>5. ASSUME Tick \/ UNCHANGED vars PROVE HoldOK'
  <2>1. worker' = worker /\ client' = client
    BY <1>5 DEF Tick, vars
  <2> QED
    BY <1>a, <1>b, <2>1, OthersHold DEF HoldOK
<1>6. ASSUME NEW w \in Worker,
             \/ ConsumeForRegister(w) \/ LoginStart(w) \/ LoginFinish(w) \/ VerifyAssertion(w)
      PROVE  HoldOK'
  <2>1. worker[w].op # "delete"
    BY <1>6 DEF ConsumeForRegister, LoginStart, LoginFinish, VerifyAssertion
  <2>2. End(w, {}) \/ \E step, found : Goto(w, step, found)
    BY <1>6 DEF ConsumeForRegister, LoginStart, LoginFinish, VerifyAssertion, Answer
  <2> QED
    BY <1>a, <1>b, <1>e, <2>1, <2>2, GotoHolds
<1>7. ASSUME NEW w \in Worker,
             \/ InsertAccount(w) \/ StoreForRegister(w) \/ StoreForLogin(w)
             \/ Read(w) \/ Delete(w) \/ Fail(w)
      PROVE  HoldOK'
  <2>1. Fail(w) \/ worker[w].op # "finish"
    BY <1>c, <1>7 DEF InsertAccount, StoreForRegister, StoreForLogin, Read, Delete, StepsOf, At
  <2>2. Fail(w) => End(w, {})
    BY DEF Fail
  <2>3. \E answer : End(w, answer)
    BY <1>7 DEF InsertAccount, StoreForRegister, StoreForLogin, Read, Delete, Fail, Answer
  <2> QED
    BY <1>e, <2>1, <2>2, <2>3
<1>8. ASSUME NEW w \in Worker, IssueSession(w) PROVE HoldOK'
  <2>1. worker[w].op = "finish" /\ worker[w].step = "issue"
    BY <1>8 DEF IssueSession, At
  <2>2. CASE End(w, {})
    BY <1>e, <2>2
  <2> DEFINE new == [token |-> tokens', account |-> SessionOwner(w), expires |-> now + SessionTTL,
                     handle |-> worker[w].handle, proof |-> worker[w].proof]
  <2>3. CASE End(w, {tokens'}) /\ tokens' = tokens + 1 /\ session' = session \cup {new}
    <3>1. new.account = worker[w].found
      BY DEF SessionOwner
    <3>2. \A s \in session : s.token # tokens'
      BY <1>a, <2>3 DEF TypeInv, TableTypes
    <3>3. ASSUME NEW c \in Client, Waits(c, w), NEW x \in session', x.token = tokens'
          PROVE  x.account = client[c].n
      <4>1. worker[w].found = client[c].n
        BY <1>a, <2>1, <3>3, EarnedByOwner
      <4>2. x = new
        BY <2>3, <3>2, <3>3
      <4> QED
        BY <3>1, <4>1, <4>2
    <3>4. \A c \in Client :
            Waits(c, w) /\ worker[w].op = "finish" =>
              \A t \in {tokens'}, x \in session' : x.token = t => x.account = client[c].n
      BY <3>3
    <3> QED
      BY <1>a, <1>b, <2>3, <3>4, EndHolds
  <2> QED
    BY <1>8, <2>2, <2>3 DEF IssueSession, Answer
<1>9. ASSUME NEW w \in Worker, Authenticate(w) PROVE HoldOK'
  <2>1. worker[w].step = "lookup"
    BY <1>9 DEF Authenticate, At
  <2>2. CASE End(w, {})
    BY <1>e, <2>2
  <2>3. ASSUME NEW s \in LiveSessions(worker[w].token), Goto(w, "work", s.account) PROVE HoldOK'
    <3>1. s \in session /\ s.token = worker[w].token
      BY DEF LiveSessions
    <3>2. worker[w].op = "delete" => s.account = worker[w].n
      BY <1>a, <3>1 DEF HoldOK, MayDelete, Own
    <3> QED
      BY <1>a, <1>b, <2>3, <3>2, GotoHolds
  <2> QED
    BY <1>9, <2>2, <2>3 DEF Authenticate, Answer
<1>10. HoldOK'
  BY <1>1, <1>2, <1>3, <1>4, <1>5, <1>6, <1>7, <1>8, <1>9, <1>a, <1>b DEF Next
<1> QED
  BY <1>b, <1>10 DEF HoldInv

\* An open vault holds the key of one registration and a session of the same,
\* for any number of clients under one e-mail, and whichever of them has the
\* row: no key of one user meets the token of another.
THEOREM OpenHoldsOwnVaultCorrect == Spec => []OpenHoldsOwnVault
<1>1. HoldInv => OpenHoldsOwnVault
  <2> SUFFICES ASSUME HoldInv, NEW c \in Client, client[c].pc \in OpenState
               PROVE  /\ client[c].vk = {Random(client[c].n).vk}
                      /\ \A s \in session : s.token = client[c].token => s.account = client[c].n
    BY DEF OpenHoldsOwnVault
  <2>1. ClientHolds(c) /\ HoldsVk(client[c]) /\ HoldsToken(client[c])
    BY DEF HoldInv, HoldOK, HoldsVk, HoldsToken, OpenState
  <2> QED
    BY <2>1 DEF ClientHolds, Own
<1> QED
  BY <1>1, HoldInit, HoldStep, PTL DEF Spec

----------------------------------------------------------------------------
(* What is shown and what is deleted *)

\* A Secret Key is shown in the step that creates a session for its account.
LEMMA ShownStep ==
    ASSUME HoldInv, [Next]_vars, NEW n \in kit' \ kit
    PROVE  n \in account'
<1>a. TypeInv /\ ProofInv
  BY DEF HoldInv
<1>b. ASSUME NEW w \in Worker, NEW answer, End(w, answer)
      PROVE  /\ answer # {} /\ worker[w].op = "finish"
             /\ \E c \in Client : Waits(c, w) /\ n = client[c].n
  <2>1. PICK c \in Client : Waits(c, w) /\ n = client[c].n /\ Reveals(client[c], client'[c])
    BY <1>b DEF End
  <2>2. worker[w].op = "finish" /\ client[c].pc = "finish"
    BY <1>a, <2>1 DEF TypeInv, ActorTypes, Linked, Reveals
  <2>3. client'[c] = After(client[c], answer) /\ client'[c].pc = "open"
    BY <1>b, <2>1 DEF End, Reveals
  <2>4. answer # {}
    BY <2>2, <2>3 DEF After, Out
  <2> QED
    BY <2>1, <2>2, <2>4
<1>c. \A w \in Worker : worker[w].step \in StepsOf(worker[w].op)
  BY <1>a DEF TypeInv, ActorTypes, WorkerTypes
<1>1. ASSUME NEW c \in Client,
             \/ \E e \in Email, p \in Password, b \in BOOLEAN : StartRegister(c, e, p, b)
             \/ \E m \in DOMAIN reg, b \in BOOLEAN : StartLogin(c, m, b)
             \/ \E w \in Worker : Call(c, w)
             \/ RequestDelete(c) \/ Lock(c) \/ Disconnect(c)
      PROVE  FALSE
  BY <1>1 DEF StartRegister, StartLogin, Call, RequestDelete, Lock, Disconnect
<1>2. ASSUME Tick \/ UNCHANGED vars PROVE FALSE
  BY <1>2 DEF Tick, vars
<1>3. ASSUME NEW w \in Worker,
             \/ ConsumeForRegister(w) \/ LoginStart(w) \/ LoginFinish(w) \/ VerifyAssertion(w)
             \/ Authenticate(w) \/ Fail(w)
      PROVE  FALSE
  <2>1. End(w, {}) \/ \E step, found : Goto(w, step, found)
    BY <1>3 DEF ConsumeForRegister, LoginStart, LoginFinish, VerifyAssertion, Authenticate, Fail,
                Answer
  <2> QED
    BY <1>b, <2>1 DEF Goto
<1>4. ASSUME NEW w \in Worker,
             \/ InsertAccount(w) \/ StoreForRegister(w) \/ StoreForLogin(w) \/ Read(w) \/ Delete(w)
      PROVE  FALSE
  <2>1. worker[w].op # "finish"
    BY <1>c, <1>4 DEF InsertAccount, StoreForRegister, StoreForLogin, Read, Delete, StepsOf, At
  <2>2. \E answer : End(w, answer)
    BY <1>4 DEF InsertAccount, StoreForRegister, StoreForLogin, Read, Delete, Answer
  <2> QED
    BY <1>b, <2>1, <2>2
<1>5. ASSUME NEW w \in Worker, IssueSession(w) PROVE n \in account'
  <2>1. worker[w].op = "finish" /\ worker[w].step = "issue" /\ account' = account
    BY <1>5 DEF IssueSession, At
  <2>2. End(w, {}) \/ (worker[w].found \in account /\ End(w, {tokens'}))
    BY <1>5 DEF IssueSession, Answer, SessionOwner
  <2>3. PICK c \in Client : Waits(c, w) /\ n = client[c].n
    BY <1>b, <2>2
  <2>4. worker[w].found = n
    BY <1>a, <2>1, <2>3, EarnedByOwner
  <2> QED
    BY <1>b, <2>1, <2>2, <2>4
<1> QED
  BY <1>1, <1>2, <1>3, <1>4, <1>5 DEF Next

\* A Secret Key that is shown opens an account that is stored, however many
\* register under its e-mail and whatever is deleted meanwhile.
THEOREM ShownKeyIsStoredCorrect == Spec => ShownKeyIsStored
<1>1. HoldInv /\ [Next]_vars => [\A n \in kit' \ kit : n \in account']_vars
  BY ShownStep
<1> QED
  BY <1>1, HoldInit, HoldStep, PTL DEF Spec, ShownKeyIsStored

\* The delete that removes n, and who sent it.
DeletedBy(w, n) ==
    /\ worker[w].op = "delete" /\ worker'[w].op = "idle"
    /\ worker[w].n = n
    /\ n \in kit \/ HasPasskey(n)
    /\ \A s \in session : s.token = worker[w].token =>
         /\ s.account = n
         /\ s.proof \in {{Bundle(n).authVerifier}, {Credential(n)}}

\* An account goes in the last step of a request to delete.
LEMMA DeletedStep ==
    ASSUME HoldInv, [Next]_vars, NEW n \in account \ account'
    PROVE  \E w \in Worker : DeletedBy(w, n)
<1>1. ASSUME NEW w \in Worker, Delete(w) PROVE DeletedBy(w, n)
  <2>1. n = worker[w].found /\ worker[w].op = "delete" /\ worker[w].step = "work"
    BY <1>1 DEF Delete, DeleteAccount, At
  <2>2. worker'[w] = Idle
    BY <1>1, EndFields DEF Delete, Answer, HoldInv, TypeInv
  <2>3. Holder(n) /\ worker[w].n = n /\ Own(worker[w].token, n)
    BY <2>1 DEF HoldInv, HoldOK, MayDelete
  <2>4. \A s \in session : ProvenBy(s.proof, s.account)
    BY DEF HoldInv, SessionsProven
  <2> QED
    BY <2>1, <2>2, <2>3, <2>4 DEF DeletedBy, Holder, Own, ProvenBy, Idle
<1>2. ASSUME NEW w \in Worker, InsertAccount(w) PROVE FALSE
  BY <1>2 DEF InsertAccount, RegisterAccount
<1>3. ASSUME NEW c \in Client,
             \/ \E e \in Email, p \in Password, b \in BOOLEAN : StartRegister(c, e, p, b)
             \/ \E m \in DOMAIN reg, b \in BOOLEAN : StartLogin(c, m, b)
             \/ \E w \in Worker : Call(c, w)
             \/ RequestDelete(c) \/ Lock(c) \/ Disconnect(c)
      PROVE  FALSE
  BY <1>3 DEF StartRegister, StartLogin, Call, RequestDelete, Lock, Disconnect, tableVars
<1>4. ASSUME NEW w \in Worker,
             \/ ConsumeForRegister(w) \/ StoreForRegister(w) \/ LoginStart(w)
             \/ StoreForLogin(w) \/ LoginFinish(w) \/ VerifyAssertion(w) \/ IssueSession(w)
             \/ Authenticate(w) \/ Read(w) \/ Fail(w)
      PROVE  FALSE
  BY <1>4 DEF ConsumeForRegister, StoreForRegister, LoginStart, StoreForLogin, LoginFinish,
              VerifyAssertion, IssueSession, Authenticate, Read, Fail, tableVars
<1>5. ASSUME Tick \/ UNCHANGED vars PROVE FALSE
  BY <1>5 DEF Tick, vars, tableVars
<1> QED
  BY <1>1, <1>2, <1>3, <1>4, <1>5 DEF Next

\* An account disappears only in a delete that a client sent which uses its
\* Secret Key or passkey, with a token earned by them, though requests wait
\* while it is deleted and its e-mail registered again.
THEOREM DeletedByHolderCorrect == Spec => DeletedByHolder
<1>1. HoldInv /\ [Next]_vars =>
        [\A n \in account \ account' : \E w \in Worker :
           /\ worker[w].op = "delete" /\ worker'[w].op = "idle"
           /\ worker[w].n = n
           /\ n \in kit \/ HasPasskey(n)
           /\ \A s \in session : s.token = worker[w].token =>
                /\ s.account = n
                /\ s.proof \in {{Bundle(n).authVerifier}, {Credential(n)}}]_vars
  BY DeletedStep DEF DeletedBy
<1> QED
  BY <1>1, HoldInit, HoldStep, PTL DEF Spec, DeletedByHolder
=============================================================================
