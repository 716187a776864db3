---------------------------- MODULE Accounts_proofs ----------------------------
(***************************************************************************)
(* Theorems about Accounts, for every set of clients, workers, e-mails and *)
(* passwords, every lifetime and every bound.                              *)
(***************************************************************************)
EXTENDS Accounts, TLAPS

----------------------------------------------------------------------------
(* Sessions and accounts *)

\* Accounts disappear with their sessions, and a session is only created for
\* an account that is there in the same transaction.
LEMMA OrphanStep == NoOrphanSession /\ [Next]_vars => NoOrphanSession'
<1> SUFFICES ASSUME NoOrphanSession, [Next]_vars PROVE NoOrphanSession'
  OBVIOUS
<1> USE DEF NoOrphanSession
<1>0. CASE UNCHANGED <<account, session>>
  BY <1>0
<1>1. ASSUME NEW w \in Worker, InsertAccount(w) PROVE NoOrphanSession'
  BY <1>1 DEF InsertAccount, RegisterAccount
<1>2. ASSUME NEW w \in Worker, IssueSession(w) PROVE NoOrphanSession'
  BY <1>2 DEF IssueSession
<1>3. ASSUME NEW w \in Worker, Delete(w) PROVE NoOrphanSession'
  BY <1>3 DEF Delete, DeleteAccount
<1>4. ASSUME NEW c \in Client, NEW e \in Email, NEW p \in Password, NEW b \in BOOLEAN,
             StartRegister(c, e, p, b)
      PROVE  UNCHANGED <<account, session>>
  BY <1>4 DEF StartRegister, tableVars
<1>5. ASSUME NEW c \in Client, NEW n \in DOMAIN reg, NEW b \in BOOLEAN, StartLogin(c, n, b)
      PROVE  UNCHANGED <<account, session>>
  BY <1>5 DEF StartLogin, tableVars
<1>6. ASSUME NEW c \in Client,
             (\E w \in Worker : Call(c, w)) \/ RequestDelete(c) \/ Lock(c) \/ Disconnect(c)
      PROVE  UNCHANGED <<account, session>>
  BY <1>6 DEF Call, RequestDelete, Lock, Disconnect, tableVars
<1>7. ASSUME NEW w \in Worker,
             \/ ConsumeForRegister(w) \/ StoreForRegister(w) \/ LoginStart(w)
             \/ StoreForLogin(w) \/ LoginFinish(w) \/ VerifyAssertion(w)
             \/ Authenticate(w) \/ Read(w) \/ Fail(w)
      PROVE  UNCHANGED <<account, session>>
  BY <1>7 DEF ConsumeForRegister, StoreForRegister, LoginStart, StoreForLogin, LoginFinish,
              VerifyAssertion, Authenticate, Read, Fail, tableVars
<1>8. ASSUME Tick \/ UNCHANGED vars PROVE UNCHANGED <<account, session>>
  BY <1>8 DEF Tick, vars, tableVars
<1> QED
  BY <1>0, <1>1, <1>2, <1>3, <1>4, <1>5, <1>6, <1>7, <1>8 DEF Next

\* A session belongs to an account that exists.
THEOREM NoOrphanSessionCorrect == Spec => []NoOrphanSession
<1>1. Init => NoOrphanSession
  BY DEF Init, NoOrphanSession
<1> QED
  BY <1>1, OrphanStep, PTL DEF Spec

----------------------------------------------------------------------------
(* Workers *)

WorkerShape ==
    /\ DOMAIN worker = Worker
    /\ \A w \in Worker : DOMAIN worker[w] = DOMAIN Idle

\* What Goto, the end of a handler and a call leave of a worker.
LEMMA GotoFields ==
    ASSUME WorkerShape, NEW w \in Worker, NEW step, NEW found, Goto(w, step, found)
    PROVE  /\ WorkerShape'
           /\ \A v \in Worker \ {w} : worker'[v] = worker[v]
           /\ worker'[w].step = step /\ worker'[w].found = found
           /\ worker'[w].handle = worker[w].handle
           /\ worker'[w].proof = worker[w].proof /\ worker'[w].n = worker[w].n
           /\ worker'[w].op = worker[w].op /\ worker'[w].token = worker[w].token
<1>1. worker' = [worker EXCEPT ![w].step = step, ![w].found = found]
  BY DEF Goto
<1>2. DOMAIN worker' = Worker /\ \A v \in Worker \ {w} : worker'[v] = worker[v]
  BY <1>1 DEF WorkerShape
<1>3. worker'[w] = [[worker[w] EXCEPT !.step = step] EXCEPT !.found = found]
  BY <1>1 DEF WorkerShape
<1>4. DOMAIN worker[w] = DOMAIN Idle
  BY DEF WorkerShape
<1> DEFINE r == [worker[w] EXCEPT !.step = step]
<1>5. /\ DOMAIN r = DOMAIN Idle /\ r.step = step /\ r.handle = worker[w].handle
      /\ r.proof = worker[w].proof /\ r.n = worker[w].n
      /\ r.op = worker[w].op /\ r.token = worker[w].token
  BY <1>4 DEF Idle
<1> HIDE DEF r
<1>6. /\ DOMAIN [r EXCEPT !.found = found] = DOMAIN Idle
      /\ [r EXCEPT !.found = found].step = r.step
      /\ [r EXCEPT !.found = found].found = found
      /\ [r EXCEPT !.found = found].handle = r.handle
      /\ [r EXCEPT !.found = found].proof = r.proof
      /\ [r EXCEPT !.found = found].n = r.n
      /\ [r EXCEPT !.found = found].op = r.op
      /\ [r EXCEPT !.found = found].token = r.token
  BY <1>5 DEF Idle
<1>7. worker'[w] = [r EXCEPT !.found = found]
  BY <1>3 DEF r
<1> QED
  BY <1>2, <1>4, <1>5, <1>6, <1>7 DEF WorkerShape

\* A handler that ends leaves its worker idle.
LEMMA EndFields ==
    ASSUME WorkerShape, NEW w \in Worker, NEW answer, End(w, answer)
    PROVE  /\ WorkerShape'
           /\ \A v \in Worker \ {w} : worker'[v] = worker[v]
           /\ worker'[w] = Idle
BY DEF WorkerShape, End

\* A call starts a handler at its first step, which is never that of issuing.
LEMMA CallFields ==
    ASSUME WorkerShape, NEW c \in Client, NEW w \in Worker, Call(c, w)
    PROVE  /\ WorkerShape'
           /\ \A v \in Worker \ {w} : worker'[v] = worker[v]
           /\ worker'[w].step # "issue"
           /\ worker'[w].op = client[c].pc /\ worker'[w].step = FirstStep(client[c])
           /\ worker'[w].n = client[c].n /\ worker'[w].found = 0
           /\ worker'[w].proof = IF client[c].pc = "finish" THEN Proof(client[c]) ELSE {}
           /\ worker'[w].handle = IF client[c].passkey THEN client[c].handle ELSE 0
           /\ worker'[w].token = client[c].token
<1> DEFINE r == client[c]
           next == [op |-> r.pc, step |-> FirstStep(r), n |-> r.n,
                    proof |-> IF r.pc = "finish" THEN Proof(r) ELSE {},
                    handle |-> IF r.passkey THEN r.handle ELSE 0,
                    token |-> r.token, found |-> 0]
<1>1. worker' = [worker EXCEPT ![w] = next]
  BY DEF Call
<1>2. FirstStep(r) # "issue"
  BY DEF FirstStep
<1>3. /\ DOMAIN next = DOMAIN Idle /\ next.step = FirstStep(r) /\ next.op = r.pc
      /\ next.n = r.n /\ next.found = 0 /\ next.token = r.token
      /\ next.proof = (IF r.pc = "finish" THEN Proof(r) ELSE {})
      /\ next.handle = (IF r.passkey THEN r.handle ELSE 0)
  BY DEF Idle
<1> HIDE DEF next
<1>4. WorkerShape' /\ worker'[w] = next /\ \A v \in Worker \ {w} : worker'[v] = worker[v]
  BY <1>1, <1>3 DEF WorkerShape
<1> HIDE DEF r
<1>5. r = client[c]
  BY DEF r
<1> QED
  BY <1>2, <1>3, <1>4, <1>5

----------------------------------------------------------------------------
(* Challenges *)

\* A worker whose request has consumed the challenge it presented.
Issuing(w) == worker[w].step = "issue" /\ worker[w].handle # 0

\* The handles that sessions and workers have consumed.
Spent == {s.handle : s \in session} \cup {worker[w].handle : w \in {v \in Worker : Issuing(v)}}

\* A handle that is spent was drawn and its row is gone; it is spent once.
ChallengeOK ==
    /\ handles \in Nat
    /\ \A c \in challenge : c.handle \in 1 .. handles
    /\ \A c, d \in challenge : c.handle = d.handle => c = d
    /\ \A h \in Spent : h \in 0 .. handles /\ (\A c \in challenge : c.handle # h)
    /\ \A v, w \in Worker :
         Issuing(v) /\ Issuing(w) /\ worker[v].handle = worker[w].handle => v = w
    /\ \A s \in session, w \in Worker : Issuing(w) => s.handle # worker[w].handle

HandleInv == WorkerShape /\ ChallengeOK /\ ChallengeUsedOnce

\* A step that spends nothing: rows may go, workers may stop issuing.
LEMMA NothingSpent ==
    ASSUME HandleInv, WorkerShape',
           challenge' \subseteq challenge, session' \subseteq session, handles' = handles,
           \A w \in Worker : Issuing(w)' => Issuing(w) /\ worker'[w].handle = worker[w].handle
    PROVE  HandleInv'
<1>1. \A w \in Worker : Issuing(w)' => worker'[w].step = "issue" /\ worker'[w].handle # 0
  BY DEF Issuing
<1>2. Spent' \subseteq Spent
  <2> SUFFICES ASSUME NEW h \in Spent' PROVE h \in Spent
    OBVIOUS
  <2>1. CASE \E s \in session' : h = s.handle
    BY <2>1 DEF Spent
  <2>2. CASE \E w \in Worker : Issuing(w)' /\ h = worker'[w].handle
    BY <2>2 DEF Spent
  <2> QED
    BY <2>1, <2>2 DEF Spent
<1>3. ChallengeOK'
  BY <1>2 DEF HandleInv, ChallengeOK
<1> QED
  BY <1>3 DEF HandleInv, ChallengeUsedOnce

\* Drawing a handle spends nothing.
LEMMA StoreSpendsNothing ==
    ASSUME HandleInv, NEW user, StoreChallenge(user), WorkerShape', session' = session,
           \A w \in Worker : Issuing(w)' => Issuing(w) /\ worker'[w].handle = worker[w].handle
    PROVE  HandleInv'
<1> DEFINE new == [handle |-> handles', user |-> user, expires |-> now + ChallengeTTL]
<1>1. /\ handles' = handles + 1 /\ handles \in Nat
      /\ new.handle = handles'
      /\ \A c \in challenge' : c \in challenge \/ c = new
  BY DEF StoreChallenge, HandleInv, ChallengeOK
<1> HIDE DEF new
<1>2. Spent' \subseteq Spent
  <2> SUFFICES ASSUME NEW h \in Spent' PROVE h \in Spent
    OBVIOUS
  <2>1. CASE \E s \in session' : h = s.handle
    BY <2>1 DEF Spent
  <2>2. CASE \E w \in Worker : Issuing(w)' /\ h = worker'[w].handle
    BY <2>2 DEF Spent
  <2> QED
    BY <2>1, <2>2 DEF Spent
<1>3. \A c \in challenge' : c.handle \in 1 .. handles'
  BY <1>1 DEF HandleInv, ChallengeOK
<1>4. \A c, d \in challenge' : c.handle = d.handle => c = d
  BY <1>1 DEF HandleInv, ChallengeOK
<1>5. \A h \in Spent' : h \in 0 .. handles' /\ (\A c \in challenge' : c.handle # h)
  <2> SUFFICES ASSUME NEW h \in Spent'
               PROVE  h \in 0 .. handles' /\ (\A c \in challenge' : c.handle # h)
    OBVIOUS
  <2>1. h \in 0 .. handles /\ (\A c \in challenge : c.handle # h)
    BY <1>2 DEF HandleInv, ChallengeOK
  <2> QED
    BY <1>1, <2>1
<1>6. /\ \A v, w \in Worker :
           Issuing(v)' /\ Issuing(w)' /\ worker'[v].handle = worker'[w].handle => v = w
      /\ \A s \in session', w \in Worker : Issuing(w)' => s.handle # worker'[w].handle
  BY DEF HandleInv, ChallengeOK
<1> QED
  BY <1>1, <1>3, <1>4, <1>5, <1>6 DEF HandleInv, ChallengeOK, ChallengeUsedOnce

\* The worker that consumes a challenge goes on alone with its handle.
LEMMA VerifyKeeps ==
    ASSUME HandleInv, NEW w \in Worker, VerifyAssertion(w)
    PROVE  HandleInv'
<1> DEFINE h == worker[w].handle
           gone == FreshChallenge(h)
<1>1. challenge' = challenge \ gone /\ session' = session /\ handles' = handles
  BY DEF VerifyAssertion, ConsumeChallenge
<1>a. WorkerShape
  BY DEF HandleInv
<1>2. CASE Answer(w, {})
  <2>1. End(w, {})
    BY <1>2 DEF Answer
  <2>2. WorkerShape' /\ worker'[w] = Idle /\ \A v \in Worker \ {w} : worker'[v] = worker[v]
    BY <1>a, <2>1, EndFields
  <2>3. \A v \in Worker : Issuing(v)' => Issuing(v) /\ worker'[v].handle = worker[v].handle
    BY <2>2 DEF Issuing, Idle
  <2> QED
    BY <1>1, <2>2, <2>3, NothingSpent
<1>3. CASE AssertionValid(w) /\ Goto(w, "issue", worker[w].found)
  <2>1. /\ WorkerShape' /\ worker'[w].handle = h
        /\ \A v \in Worker \ {w} : worker'[v] = worker[v]
    BY <1>a, <1>3, GotoFields
  <2>2. PICK c \in gone : TRUE
    BY <1>3 DEF AssertionValid
  <2>3. c \in challenge /\ c.handle = h
    BY DEF FreshChallenge
  <2>4. h \in 1 .. handles /\ handles \in Nat
    BY <2>3 DEF HandleInv, ChallengeOK
  <2>5. \A d \in challenge' : d.handle # h
    BY <1>1, <2>2, <2>3 DEF HandleInv, ChallengeOK
  <2>6. h \notin Spent
    BY <2>3 DEF HandleInv, ChallengeOK
  <2>7. /\ \A s \in session : s.handle # h
        /\ \A v \in Worker : Issuing(v) => worker[v].handle # h
    BY <2>6 DEF Spent
  <2>8. \A v \in Worker \ {w} : Issuing(v)' <=> Issuing(v)
    BY <2>1 DEF Issuing
  <2>9. Spent' \subseteq Spent \cup {h}
    <3> SUFFICES ASSUME NEW k \in Spent' PROVE k \in Spent \cup {h}
      OBVIOUS
    <3>1. CASE \E s \in session' : k = s.handle
      BY <1>1, <3>1 DEF Spent
    <3>2. CASE \E v \in Worker : Issuing(v)' /\ k = worker'[v].handle
      BY <2>1, <2>8, <3>2 DEF Spent
    <3> QED
      BY <3>1, <3>2 DEF Spent
  <2> HIDE DEF h, gone
  <2>10. \A k \in Spent' : k \in 0 .. handles' /\ (\A d \in challenge' : d.handle # k)
    BY <1>1, <2>4, <2>5, <2>9 DEF HandleInv, ChallengeOK
  <2>11. \A u, v \in Worker :
           Issuing(u)' /\ Issuing(v)' /\ worker'[u].handle = worker'[v].handle => u = v
    BY <2>1, <2>7, <2>8 DEF HandleInv, ChallengeOK
  <2>12. \A s \in session', v \in Worker : Issuing(v)' => s.handle # worker'[v].handle
    BY <1>1, <2>1, <2>7, <2>8 DEF HandleInv, ChallengeOK
  <2> QED
    BY <1>1, <2>1, <2>10, <2>11, <2>12 DEF HandleInv, ChallengeOK, ChallengeUsedOnce
<1> QED
  BY <1>2, <1>3 DEF VerifyAssertion

\* The worker that issues hands its handle to the session.
LEMMA IssueKeeps ==
    ASSUME HandleInv, NEW w \in Worker, IssueSession(w)
    PROVE  HandleInv'
<1>1. challenge' = challenge /\ handles' = handles /\ worker[w].step = "issue"
  BY DEF IssueSession, At
<1>2. WorkerShape' /\ worker'[w] = Idle /\ \A v \in Worker \ {w} : worker'[v] = worker[v]
  <2>1. WorkerShape
    BY DEF HandleInv
  <2>2. \E answer : End(w, answer)
    BY DEF IssueSession, Answer
  <2> QED
    BY <2>1, <2>2, EndFields
<1>3. \A v \in Worker : Issuing(v)' => v # w /\ Issuing(v) /\ worker'[v].handle = worker[v].handle
  BY <1>2 DEF Issuing, Idle
<1>4. CASE session' = session
  BY <1>1, <1>2, <1>3, <1>4, NothingSpent
<1> DEFINE new == [token |-> tokens', account |-> SessionOwner(w), expires |-> now + SessionTTL,
                   handle |-> worker[w].handle, proof |-> worker[w].proof]
<1>5. CASE session' = session \cup {new}
  <2>1. session' = session \cup {new} /\ new.handle = worker[w].handle
    BY <1>5
  <2> HIDE DEF new
  <2>2. new.handle = 0 \/ Issuing(w)
    BY <1>1, <2>1 DEF Issuing
  <2>3. Spent' \subseteq Spent \cup {new.handle}
    <3> SUFFICES ASSUME NEW k \in Spent' PROVE k \in Spent \cup {new.handle}
      OBVIOUS
    <3>1. CASE \E s \in session' : k = s.handle
      BY <2>1, <3>1 DEF Spent
    <3>2. CASE \E v \in Worker : Issuing(v)' /\ k = worker'[v].handle
      BY <1>3, <3>2 DEF Spent
    <3> QED
      BY <3>1, <3>2 DEF Spent
  <2>4. new.handle = 0 \/ new.handle \in Spent
    BY <2>1, <2>2 DEF Spent
  <2>5. \A k \in Spent' : k \in 0 .. handles' /\ (\A d \in challenge' : d.handle # k)
    BY <1>1, <2>3, <2>4 DEF HandleInv, ChallengeOK
  <2>6. \A s \in session : new.handle # 0 => s.handle # new.handle
    BY <2>1, <2>2 DEF HandleInv, ChallengeOK
  <2>7. \A v \in Worker : Issuing(v)' => new.handle # worker'[v].handle
    <3> SUFFICES ASSUME NEW v \in Worker, Issuing(v)' PROVE new.handle # worker'[v].handle
      OBVIOUS
    <3>1. v # w /\ Issuing(v) /\ worker'[v].handle = worker[v].handle /\ worker[v].handle # 0
      BY <1>3 DEF Issuing
    <3> QED
      BY <2>1, <2>2, <3>1 DEF HandleInv, ChallengeOK
  <2>8. \A s \in session', v \in Worker : Issuing(v)' => s.handle # worker'[v].handle
    BY <1>3, <2>1, <2>7 DEF HandleInv, ChallengeOK
  <2>9. ChallengeUsedOnce'
    BY <2>1, <2>6 DEF HandleInv, ChallengeUsedOnce
  <2> QED
    BY <1>1, <1>2, <1>3, <2>5, <2>8, <2>9 DEF HandleInv, ChallengeOK
<1> QED
  BY <1>4, <1>5 DEF IssueSession

\* At first nothing is spent.
LEMMA HandleInit == Init => HandleInv
BY DEF Init, HandleInv, WorkerShape, ChallengeOK, ChallengeUsedOnce, Spent, Issuing, Idle

\* No step spends a handle twice (the statements on webauthn_challenge).
LEMMA HandleStep == HandleInv /\ [Next]_vars => HandleInv'
<1> SUFFICES ASSUME HandleInv, [Next]_vars PROVE HandleInv'
  OBVIOUS
<1>a. WorkerShape
  BY DEF HandleInv
<1> DEFINE SameTables == challenge' = challenge /\ session' = session /\ handles' = handles
\* A worker that ends, goes to another step or starts does not issue, and no
\* other worker changes.
<1>b. ASSUME NEW w \in Worker, NEW answer, End(w, answer)
      PROVE  /\ WorkerShape'
             /\ \A v \in Worker : Issuing(v)' => Issuing(v) /\ worker'[v].handle = worker[v].handle
  BY <1>a, <1>b, EndFields DEF Issuing, Idle
<1>c. ASSUME NEW w \in Worker, NEW step, NEW found, Goto(w, step, found),
             step # "issue" \/ worker[w].handle = 0
      PROVE  /\ WorkerShape'
             /\ \A v \in Worker : Issuing(v)' => Issuing(v) /\ worker'[v].handle = worker[v].handle
  BY <1>a, <1>c, GotoFields DEF Issuing
<1>d. ASSUME NEW c \in Client, NEW w \in Worker, Call(c, w)
      PROVE  /\ WorkerShape'
             /\ \A v \in Worker : Issuing(v)' => Issuing(v) /\ worker'[v].handle = worker[v].handle
  BY <1>a, <1>d, CallFields DEF Issuing
<1>1. ASSUME SameTables, worker' = worker PROVE HandleInv'
  <2>1. WorkerShape' /\ \A v \in Worker : Issuing(v)' => Issuing(v) /\ worker'[v].handle = worker[v].handle
    BY <1>a, <1>1 DEF WorkerShape, Issuing
  <2> QED
    BY <1>1, <2>1, NothingSpent
<1>2. ASSUME NEW c \in Client, NEW e \in Email, NEW p \in Password, NEW b \in BOOLEAN,
             StartRegister(c, e, p, b)
      PROVE  SameTables /\ worker' = worker
  BY <1>2 DEF StartRegister, tableVars
<1>3. ASSUME NEW c \in Client, NEW n \in DOMAIN reg, NEW b \in BOOLEAN, StartLogin(c, n, b)
      PROVE  SameTables /\ worker' = worker
  BY <1>3 DEF StartLogin, tableVars
<1>4. ASSUME NEW c \in Client, RequestDelete(c) \/ Lock(c) \/ Disconnect(c)
      PROVE  SameTables /\ worker' = worker
  BY <1>4 DEF RequestDelete, Lock, Disconnect, tableVars
<1>5. ASSUME Tick \/ UNCHANGED vars PROVE SameTables /\ worker' = worker
  BY <1>5 DEF Tick, vars, tableVars
<1>6. ASSUME NEW c \in Client, NEW w \in Worker, Call(c, w) PROVE HandleInv'
  <2>1. SameTables
    BY <1>6 DEF Call, tableVars
  <2> QED
    BY <1>6, <1>d, <2>1, NothingSpent
<1>7. ASSUME NEW w \in Worker, ConsumeForRegister(w) PROVE HandleInv'
  <2>1. challenge' \subseteq challenge /\ session' = session /\ handles' = handles
    BY <1>7 DEF ConsumeForRegister, ConsumeChallenge
  <2>2. End(w, {}) \/ Goto(w, "insert", 0)
    BY <1>7 DEF ConsumeForRegister, Answer
  <2> QED
    BY <1>b, <1>c, <2>1, <2>2, NothingSpent
<1>8. ASSUME NEW w \in Worker, InsertAccount(w) PROVE HandleInv'
  <2>1. SameTables /\ End(w, {worker[w].n})
    BY <1>8 DEF InsertAccount, Answer
  <2> QED
    BY <1>b, <2>1, NothingSpent
<1>9. ASSUME NEW w \in Worker, StoreForRegister(w) PROVE HandleInv'
  <2>1. /\ StoreChallenge(User(worker[w].n)) /\ End(w, {handles'}) /\ session' = session
    BY <1>9 DEF StoreForRegister, Answer
  <2> QED
    BY <1>b, <2>1, StoreSpendsNothing
<1>10. ASSUME NEW w \in Worker, StoreForLogin(w) PROVE HandleInv'
  <2>1. /\ StoreChallenge(LoginUser(reg[worker[w].n].email, worker[w].found))
        /\ End(w, {LoginAnswer(reg[worker[w].n].email, worker[w].found)})
        /\ session' = session
    BY <1>10 DEF StoreForLogin, Answer
  <2> QED
    BY <1>b, <2>1, StoreSpendsNothing
<1>11. ASSUME NEW w \in Worker, LoginStart(w) PROVE HandleInv'
  <2>1. SameTables /\ Goto(w, "store", Found(w))
    BY <1>11 DEF LoginStart, tableVars
  <2> QED
    BY <1>c, <2>1, NothingSpent
<1>12. ASSUME NEW w \in Worker, LoginFinish(w) PROVE HandleInv'
  <2>1. SameTables
    BY <1>12 DEF LoginFinish, tableVars
  <2>2. \/ Goto(w, "consume", Found(w))
        \/ worker[w].handle = 0 /\ Goto(w, "issue", Found(w))
        \/ End(w, {})
    BY <1>12 DEF LoginFinish, Answer
  <2> QED
    BY <1>b, <1>c, <2>1, <2>2, NothingSpent
<1>13. ASSUME NEW w \in Worker, VerifyAssertion(w) PROVE HandleInv'
  BY <1>13, VerifyKeeps
<1>14. ASSUME NEW w \in Worker, IssueSession(w) PROVE HandleInv'
  BY <1>14, IssueKeeps
<1>15. ASSUME NEW w \in Worker, Authenticate(w) PROVE HandleInv'
  <2>1. SameTables
    BY <1>15 DEF Authenticate, tableVars
  <2>2. End(w, {}) \/ \E s \in session : Goto(w, "work", s.account)
    BY <1>15 DEF Authenticate, Answer, LiveSessions
  <2> QED
    BY <1>b, <1>c, <2>1, <2>2, NothingSpent
<1>16. ASSUME NEW w \in Worker, Read(w) PROVE HandleInv'
  <2>1. SameTables /\ End(w, {worker[w].found} \cap account)
    BY <1>16 DEF Read, Answer, tableVars
  <2> QED
    BY <1>b, <2>1, NothingSpent
<1>17. ASSUME NEW w \in Worker, Delete(w) PROVE HandleInv'
  <2>1. challenge' = challenge /\ session' \subseteq session /\ handles' = handles
    BY <1>17 DEF Delete, DeleteAccount
  <2>2. End(w, {worker[w].found} \cap account)
    BY <1>17 DEF Delete, Answer
  <2> QED
    BY <1>b, <2>1, <2>2, NothingSpent
<1>18. ASSUME NEW w \in Worker, Fail(w) PROVE HandleInv'
  <2>1. SameTables /\ End(w, {})
    BY <1>18 DEF Fail, tableVars
  <2> QED
    BY <1>b, <2>1, NothingSpent
<1> QED
  BY <1>1, <1>2, <1>3, <1>4, <1>5, <1>6, <1>7, <1>8, <1>9, <1>10, <1>11, <1>12, <1>13, <1>14,
     <1>15, <1>16, <1>17, <1>18 DEF Next

\* Of the requests that present one challenge, one at most gets a session, for
\* any number of clients, workers, repeated requests and failures.
THEOREM ChallengeUsedOnceCorrect == Spec => []ChallengeUsedOnce
<1>1. HandleInv => ChallengeUsedOnce
  BY DEF HandleInv
<1> QED
  BY <1>1, HandleInit, HandleStep, PTL DEF Spec

----------------------------------------------------------------------------
(* Registrations *)

Keeps(r, s) == DOMAIN s = DOMAIN Out /\ (s.pc = "out" \/ s.n = r.n)

\* The updates of a command that goes on.
LEMMA Updates ==
    ASSUME NEW r, DOMAIN r = DOMAIN Out, NEW a, NEW b, NEW c, NEW d
    PROVE  /\ Keeps(r, Out)
           /\ Keeps(r, [r EXCEPT !.pc = a])
           /\ Keeps(r, [r EXCEPT !.pc = a, !.handle = b])
           /\ Keeps(r, [r EXCEPT !.pc = a, !.vk = b])
           /\ Keeps(r, [r EXCEPT !.pc = a, !.token = b])
           /\ Keeps(r, [r EXCEPT !.pc = a, !.handle = b, !.id = c, !.salt = d])
BY DEF Keeps, Out

\* A command that goes on keeps its registration.
LEMMA AdvanceKeeps ==
    ASSUME NEW r, NEW answer, NEW vk, DOMAIN r = DOMAIN Out
    PROVE  Keeps(r, Advance(r, answer, vk))
<1> DEFINE s == Advance(r, answer, vk)
<1> SUFFICES Keeps(r, s)
  OBVIOUS
<1>1. CASE r.pc = "begin"
  <2> DEFINE h == CHOOSE x \in answer : TRUE
  <2>1. s = [r EXCEPT !.pc = "register", !.handle = h]
    BY <1>1 DEF Advance
  <2> HIDE DEF h, s
  <2> QED BY <2>1, Updates
<1>2. CASE r.pc = "register" /\ vk # {}
  <2>1. s = [r EXCEPT !.pc = "start", !.vk = vk]
    BY <1>2 DEF Advance
  <2> HIDE DEF s
  <2> QED BY <2>1, Updates
<1>3. CASE r.pc = "start"
  <2> DEFINE a == CHOOSE b \in answer : TRUE
             i == IF r.cmd = "register" THEN r.id ELSE a.id
             x == IF r.cmd = "register" THEN r.salt ELSE a.salt
  <2>1. s = [r EXCEPT !.pc = "finish", !.handle = a.handle, !.id = i, !.salt = x]
    BY <1>3 DEF Advance, Out
  <2> HIDE DEF a, i, x, s
  <2> QED BY <2>1, Updates
<1>4. CASE r.pc = "finish"
  <2> DEFINE t == CHOOSE x \in answer : TRUE
             p == IF r.cmd = "register" THEN "open" ELSE "envelopes"
  <2>1. s = [r EXCEPT !.pc = p, !.token = t]
    BY <1>4 DEF Advance
  <2> HIDE DEF p, t, s
  <2> QED BY <2>1, Updates
<1>5. CASE r.pc = "envelopes" /\ vk # {}
  <2>1. s = [r EXCEPT !.pc = "vault", !.vk = vk]
    BY <1>5 DEF Advance
  <2> HIDE DEF s
  <2> QED BY <2>1, Updates
<1>6. CASE r.pc = "vault" /\ (\E n \in answer : VaultVerified(Bundle(n)))
  <2>1. s = [r EXCEPT !.pc = "open"]
    BY <1>6 DEF Advance
  <2> HIDE DEF s
  <2> QED BY <2>1, Updates
<1>7. CASE /\ r.pc \notin {"begin", "start", "finish"}
           /\ ~(r.pc = "register" /\ vk # {}) /\ ~(r.pc = "envelopes" /\ vk # {})
           /\ ~(r.pc = "vault" /\ (\E n \in answer : VaultVerified(Bundle(n))))
  <2>1. s = Out
    BY <1>7 DEF Advance
  <2> HIDE DEF s
  <2> QED BY <2>1, Updates
<1> HIDE DEF s
<1> QED BY <1>1, <1>2, <1>3, <1>4, <1>5, <1>6, <1>7

\* So does one that handles its answer, or it ends.
LEMMA AfterKeeps ==
    ASSUME NEW r, NEW answer, DOMAIN r = DOMAIN Out
    PROVE  Keeps(r, After(r, answer))
<1> DEFINE here == [r EXCEPT !.worker = NoWorker]
           vk == CASE r.pc = "register" -> VaultKey(r, Bundle(r.n))
                   [] r.pc = "envelopes" -> UNION {VaultKey(r, Bundle(n)) : n \in answer}
                   [] OTHER -> r.vk
           s == After(r, answer)
<1> SUFFICES Keeps(r, s)
  OBVIOUS
<1>1. s = CASE r.pc = "delete" /\ answer = {} -> [here EXCEPT !.pc = "open"]
            [] r.pc # "delete" /\ answer # {} -> Advance(here, answer, vk)
            [] OTHER -> Out
  BY DEF After
<1>2. DOMAIN here = DOMAIN Out /\ here.n = r.n
  BY DEF Out
<1> HIDE DEF here, vk, s
<1>3. Keeps(here, Advance(here, answer, vk))
  BY <1>2, AdvanceKeeps
<1>4. Keeps(here, [here EXCEPT !.pc = "open"]) /\ Keeps(here, Out)
  BY <1>2, Updates
<1>5. CASE r.pc = "delete" /\ answer = {}
  <2>1. s = [here EXCEPT !.pc = "open"]
    BY <1>1, <1>5
  <2> QED BY <2>1, <1>2, <1>4 DEF Keeps
<1>6. CASE r.pc # "delete" /\ answer # {}
  <2>1. s = Advance(here, answer, vk)
    BY <1>1, <1>6
  <2> QED BY <2>1, <1>2, <1>3 DEF Keeps
<1>7. CASE ~(r.pc = "delete" /\ answer = {}) /\ ~(r.pc # "delete" /\ answer # {})
  <2>1. s = Out
    BY <1>1, <1>7
  <2> QED BY <2>1, <1>2, <1>4 DEF Keeps
<1> QED
  BY <1>5, <1>6, <1>7

Registration == [email : Email, password : Password, passkey : BOOLEAN]
Numbers == 1 .. Len(reg)

\* What is stored, and what a command or a handler works with, was drawn, so
\* that what reg says of it never changes.
RegistrationOK ==
    /\ reg \in Seq(Registration)
    /\ account \subseteq Numbers
    /\ DOMAIN client = Client
    /\ \A c \in Client : /\ DOMAIN client[c] = DOMAIN Out
                         /\ client[c].pc = "out" \/ client[c].n \in Numbers
    /\ \A w \in Worker : worker[w].step = "none" \/ worker[w].n \in Numbers

\* The clients after a handler ends.
LEMMA EndClients ==
    ASSUME WorkerShape, RegistrationOK, NEW w \in Worker, NEW answer, End(w, answer),
           account' \subseteq Numbers
    PROVE  WorkerShape' /\ RegistrationOK' /\ reg' = reg
<1>1. /\ client' = [c \in Client |-> IF Waits(c, w) THEN After(client[c], answer) ELSE client[c]]
      /\ reg' = reg
  BY DEF End
<1>2. WorkerShape' /\ worker'[w] = Idle /\ \A v \in Worker \ {w} : worker'[v] = worker[v]
  BY EndFields
<1>3. \A v \in Worker : worker'[v].step = "none" \/ worker'[v].n \in Numbers'
  BY <1>1, <1>2 DEF RegistrationOK, Idle, Numbers
<1>4. ASSUME NEW c \in Client
      PROVE  /\ DOMAIN client'[c] = DOMAIN Out
             /\ client'[c].pc = "out" \/ client'[c].n \in Numbers
  <2>1. CASE client'[c] = client[c]
    BY <2>1 DEF RegistrationOK
  <2>2. CASE Waits(c, w) /\ client'[c] = After(client[c], answer)
    <3> DEFINE s == After(client[c], answer)
    <3>1. Keeps(client[c], s)
      BY AfterKeeps DEF RegistrationOK
    <3>2. client[c].pc = "out" => s.pc = "out"
      BY DEF After, Advance, Out
    <3> HIDE DEF s
    <3> QED
      BY <2>2, <3>1, <3>2 DEF RegistrationOK, Keeps, s
  <2> QED
    BY <1>1, <2>1, <2>2
<1> QED
  BY <1>1, <1>2, <1>3, <1>4 DEF RegistrationOK, Numbers

\* A handler that goes on to another step.
LEMMA GotoClients ==
    ASSUME WorkerShape, RegistrationOK, NEW w \in Worker, NEW step, NEW found,
           Goto(w, step, found), worker[w].step # "none", account' = account
    PROVE  WorkerShape' /\ RegistrationOK' /\ reg' = reg
<1>1. client' = client /\ reg' = reg
  BY DEF Goto
<1>2. /\ WorkerShape' /\ worker'[w].n = worker[w].n
      /\ \A v \in Worker \ {w} : worker'[v] = worker[v]
  BY GotoFields
<1> QED
  BY <1>1, <1>2 DEF RegistrationOK, Numbers

\* The registrations that were drawn stay; account is what the steps of the
\* handlers, the only ones to change it, make of it.
LEMMA RegistrationStep ==
    ASSUME WorkerShape, RegistrationOK, [Next]_vars
    PROVE  /\ WorkerShape' /\ RegistrationOK'
           /\ \A n \in Numbers : n \in Numbers' /\ reg'[n] = reg[n]
<1> DEFINE Goal == /\ WorkerShape' /\ RegistrationOK'
                   /\ \A n \in Numbers : n \in Numbers' /\ reg'[n] = reg[n]
<1> SUFFICES Goal
  OBVIOUS
<1>a. ASSUME NEW w \in Worker, NEW answer, End(w, answer), account' \subseteq Numbers PROVE Goal
  BY <1>a, EndClients DEF Numbers
<1>b. ASSUME NEW w \in Worker, NEW step, NEW found, Goto(w, step, found),
             worker[w].step # "none", account' = account
      PROVE  Goal
  BY <1>b, GotoClients DEF Numbers
<1>c. account \subseteq Numbers
  BY DEF RegistrationOK
<1>1. ASSUME NEW c \in Client, NEW e \in Email, NEW p \in Password, NEW b \in BOOLEAN,
             StartRegister(c, e, p, b)
      PROVE  Goal
  <2> DEFINE new == [email |-> e, password |-> p, passkey |-> b]
             n == Len(reg) + 1
             r == [Out EXCEPT !.pc = IF b THEN "begin" ELSE "register",
                              !.cmd = "register", !.n = n, !.passkey = b,
                              !.id = AccountId(n), !.salt = Random(n).salt]
  <2>1. /\ reg' = Append(reg, new) /\ client' = [client EXCEPT ![c] = r]
        /\ account' = account /\ worker' = worker
    BY <1>1 DEF StartRegister, tableVars
  <2>2. new \in Registration
    BY DEF Registration
  <2>3. r.n = n /\ DOMAIN r = DOMAIN Out
    BY DEF Out
  <2> HIDE DEF new, r
  <2>4. /\ reg' \in Seq(Registration) /\ Len(reg') = Len(reg) + 1 /\ Len(reg) \in Nat
        /\ \A k \in Numbers : reg'[k] = reg[k]
    BY <2>1, <2>2 DEF RegistrationOK, Numbers
  <2>5. Numbers \subseteq Numbers' /\ n \in Numbers'
    BY <2>4 DEF Numbers
  <2> HIDE DEF n
  <2>6. /\ DOMAIN client' = Client
        /\ \A d \in Client : /\ DOMAIN client'[d] = DOMAIN Out
                             /\ client'[d].pc = "out" \/ client'[d].n \in Numbers'
    BY <2>1, <2>3, <2>5 DEF RegistrationOK
  <2> QED
    BY <2>1, <2>4, <2>5, <2>6 DEF RegistrationOK, WorkerShape
<1>2. ASSUME NEW c \in Client, NEW n \in DOMAIN reg, NEW b \in BOOLEAN, StartLogin(c, n, b)
      PROVE  Goal
  <2> DEFINE r == [Out EXCEPT !.pc = "start", !.cmd = "login", !.n = n, !.passkey = b]
  <2>1. /\ client' = [client EXCEPT ![c] = r]
        /\ account' = account /\ worker' = worker /\ reg' = reg
    BY <1>2 DEF StartLogin, tableVars
  <2>2. r.n = n /\ DOMAIN r = DOMAIN Out
    BY DEF Out
  <2>3. n \in Numbers
    BY DEF RegistrationOK, Numbers
  <2> HIDE DEF r
  <2> QED
    BY <2>1, <2>2, <2>3 DEF RegistrationOK, WorkerShape, Numbers
<1>3. ASSUME NEW c \in Client, NEW w \in Worker, Call(c, w) PROVE Goal
  <2>1. /\ client[c].pc \in Calls /\ client' = [client EXCEPT ![c].worker = w]
        /\ account' = account /\ reg' = reg
    BY <1>3 DEF Call, tableVars
  <2>2. client[c].n \in Numbers
    BY <2>1 DEF RegistrationOK, Calls
  <2>3. WorkerShape' /\ \A v \in Worker \ {w} : worker'[v] = worker[v]
    BY <1>3, CallFields
  <2>4. worker'[w].n = client[c].n
    BY <1>3 DEF Call, WorkerShape
  <2>5. /\ DOMAIN client' = Client
        /\ \A d \in Client \ {c} : client'[d] = client[d]
        /\ client'[c] = [client[c] EXCEPT !.worker = w]
        /\ DOMAIN client[c] = DOMAIN Out
    BY <2>1 DEF RegistrationOK
  <2>6. DOMAIN client'[c] = DOMAIN Out /\ client'[c].n = client[c].n
    BY <2>5 DEF Out
  <2> QED
    BY <2>1, <2>2, <2>3, <2>4, <2>5, <2>6 DEF RegistrationOK, Numbers
<1>4. ASSUME NEW c \in Client, RequestDelete(c) \/ Lock(c) \/ Disconnect(c) PROVE Goal
  <2>1. account' = account /\ worker' = worker /\ reg' = reg
    BY <1>4 DEF RequestDelete, Lock, Disconnect, tableVars
  <2>2. \/ client[c].pc = "open" /\ client' = [client EXCEPT ![c].pc = "delete"]
        \/ client' = [client EXCEPT ![c] = Out]
        \/ client' = [client EXCEPT ![c].worker = NoWorker]
    BY <1>4 DEF RequestDelete, Lock, Disconnect
  <2>3. /\ DOMAIN client' = Client
        /\ \A d \in Client \ {c} : client'[d] = client[d]
        /\ \/ client[c].pc = "open" /\ client'[c] = [client[c] EXCEPT !.pc = "delete"]
           \/ client'[c] = Out
           \/ client'[c] = [client[c] EXCEPT !.worker = NoWorker]
    BY <2>2 DEF RegistrationOK
  <2>4. DOMAIN client[c] = DOMAIN Out /\ (client[c].pc = "out" \/ client[c].n \in Numbers)
    BY DEF RegistrationOK
  <2>5. DOMAIN client'[c] = DOMAIN Out /\ (client'[c].pc = "out" \/ client'[c].n \in Numbers)
    BY <2>3, <2>4 DEF Out
  <2> QED
    BY <2>1, <2>3, <2>5 DEF RegistrationOK, WorkerShape, Numbers
<1>5. ASSUME Tick \/ UNCHANGED vars PROVE Goal
  <2>1. account' = account /\ worker' = worker /\ reg' = reg /\ client' = client
    BY <1>5 DEF Tick, vars, tableVars
  <2> QED
    BY <2>1 DEF RegistrationOK, WorkerShape, Numbers
<1>6. ASSUME NEW w \in Worker,
             \/ ConsumeForRegister(w) \/ StoreForRegister(w) \/ LoginStart(w)
             \/ StoreForLogin(w) \/ LoginFinish(w) \/ VerifyAssertion(w) \/ IssueSession(w)
             \/ Authenticate(w) \/ Read(w) \/ Fail(w)
      PROVE  Goal
  <2>1. account' = account
    BY <1>6 DEF ConsumeForRegister, StoreForRegister, LoginStart, StoreForLogin, LoginFinish,
                VerifyAssertion, IssueSession, Authenticate, Read, Fail, tableVars
  <2>2. \/ \E answer : End(w, answer)
        \/ worker[w].step # "none" /\ \E step, found : Goto(w, step, found)
    BY <1>6 DEF ConsumeForRegister, StoreForRegister, LoginStart, StoreForLogin, LoginFinish,
                VerifyAssertion, IssueSession, Authenticate, Read, Fail, Answer, At
  <2> QED
    BY <1>a, <1>b, <1>c, <2>1, <2>2
<1>7. ASSUME NEW w \in Worker, InsertAccount(w) PROVE Goal
  <2>1. worker[w].n \in Numbers
    BY <1>7 DEF InsertAccount, At, RegistrationOK
  <2>2. account' \subseteq Numbers /\ End(w, {worker[w].n})
    BY <1>7, <1>c, <2>1 DEF InsertAccount, RegisterAccount, Answer
  <2> QED
    BY <1>a, <2>2
<1>8. ASSUME NEW w \in Worker, Delete(w) PROVE Goal
  <2>1. account' \subseteq Numbers /\ End(w, {worker[w].found} \cap account)
    BY <1>8, <1>c DEF Delete, DeleteAccount, Answer
  <2> QED
    BY <1>a, <2>1
<1> HIDE DEF Goal
<1> QED
  BY <1>1, <1>2, <1>3, <1>4, <1>5, <1>6, <1>7, <1>8 DEF Next

----------------------------------------------------------------------------
(* One account for an e-mail *)

EmailInv == WorkerShape /\ RegistrationOK /\ OneAccountPerEmail

\* At first nothing is drawn or stored.
LEMMA EmailInit == Init => EmailInv
<1> SUFFICES ASSUME Init PROVE EmailInv
  OBVIOUS
<1>1. WorkerShape /\ OneAccountPerEmail
  BY DEF Init, WorkerShape, OneAccountPerEmail
<1>2. RegistrationOK
  BY DEF Init, RegistrationOK, Numbers, Out, Idle
<1> QED
  BY <1>1, <1>2 DEF EmailInv

\* The row of a registration is only stored when no row has its e-mail.
LEMMA EmailStep == EmailInv /\ [Next]_vars => EmailInv'
<1> SUFFICES ASSUME EmailInv, [Next]_vars PROVE EmailInv'
  OBVIOUS
<1>1. /\ WorkerShape' /\ RegistrationOK'
      /\ \A n \in Numbers : n \in Numbers' /\ reg'[n] = reg[n]
  BY RegistrationStep DEF EmailInv
<1>2. CASE account' \subseteq account
  BY <1>1, <1>2 DEF EmailInv, RegistrationOK, OneAccountPerEmail
<1>3. ASSUME NEW w \in Worker, InsertAccount(w) PROVE OneAccountPerEmail'
  <2> DEFINE n == worker[w].n
  <2>1. account' = account \/ (~Conflicts(n) /\ account' = account \cup {n})
    BY <1>3 DEF InsertAccount, RegisterAccount
  <2>2. reg' = reg
    BY <1>3 DEF InsertAccount, Answer, End
  <2>3. ~Conflicts(n) => \A m \in account : reg[m].email # reg[n].email
    BY DEF Conflicts, AccountsOf
  <2> HIDE DEF n
  <2> QED
    BY <2>1, <2>2, <2>3 DEF EmailInv, OneAccountPerEmail
<1>4. ASSUME NEW w \in Worker, Delete(w) PROVE account' \subseteq account
  BY <1>4 DEF Delete, DeleteAccount
<1>5. ASSUME NEW c \in Client,
             \/ \E e \in Email, p \in Password, b \in BOOLEAN : StartRegister(c, e, p, b)
             \/ \E n \in DOMAIN reg, b \in BOOLEAN : StartLogin(c, n, b)
             \/ \E w \in Worker : Call(c, w)
             \/ RequestDelete(c) \/ Lock(c) \/ Disconnect(c)
      PROVE  account' \subseteq account
  BY <1>5 DEF StartRegister, StartLogin, Call, RequestDelete, Lock, Disconnect, tableVars
<1>6. ASSUME NEW w \in Worker,
             \/ ConsumeForRegister(w) \/ StoreForRegister(w) \/ LoginStart(w)
             \/ StoreForLogin(w) \/ LoginFinish(w) \/ VerifyAssertion(w) \/ IssueSession(w)
             \/ Authenticate(w) \/ Read(w) \/ Fail(w)
      PROVE  account' \subseteq account
  BY <1>6 DEF ConsumeForRegister, StoreForRegister, LoginStart, StoreForLogin, LoginFinish,
              VerifyAssertion, IssueSession, Authenticate, Read, Fail, tableVars
<1>7. ASSUME Tick \/ UNCHANGED vars PROVE account' \subseteq account
  BY <1>7 DEF Tick, vars, tableVars
<1>8. OneAccountPerEmail' \/ account' \subseteq account
  BY <1>3, <1>4, <1>5, <1>6, <1>7 DEF Next
<1> QED
  BY <1>1, <1>2, <1>8 DEF EmailInv

\* Of any registrations under one e-mail, one account is stored, however many
\* run at once and whatever is deleted between them.
THEOREM OneAccountPerEmailCorrect == Spec => []OneAccountPerEmail
<1>1. EmailInv => OneAccountPerEmail
  BY DEF EmailInv
<1> QED
  BY <1>1, EmailInit, EmailStep, PTL DEF Spec

----------------------------------------------------------------------------
(* Sessions and what was presented for them *)

ProvenBy(proof, n) == proof \in {{Bundle(n).authVerifier}, {Credential(n)}}

\* Between the check of a request and its session the worker keeps what was
\* presented together with the account it was checked against.
WorkerProofOK(w) ==
    /\ worker[w].step = "consume" => worker[w].found \in {0} \cup Numbers
    /\ worker[w].step = "issue" =>
         worker[w].found \in Numbers /\ ProvenBy(worker[w].proof, worker[w].found)

ProofOK == \A w \in Worker : WorkerProofOK(w)

ProofInv == WorkerShape /\ RegistrationOK /\ ProofOK

\* At first no worker holds a proof.
LEMMA ProofInit == Init => ProofInv
<1> SUFFICES ASSUME Init PROVE ProofInv
  OBVIOUS
<1>1. EmailInv
  BY EmailInit
<1>2. ProofOK
  BY DEF Init, ProofOK, WorkerProofOK, Idle
<1> QED
  BY <1>1, <1>2 DEF EmailInv, ProofInv

\* login_material finds nothing or an account that is stored.
LEMMA FoundIsStored ==
    ASSUME NEW w \in Worker PROVE Found(w) = 0 \/ Found(w) \in account
<1> DEFINE found == AccountsOf(reg[worker[w].n].email)
<1>1. CASE found = {}
  BY <1>1 DEF Found
<1>2. CASE found # {}
  <2>1. (CHOOSE n \in found : TRUE) \in found
    BY <1>2
  <2>2. found \subseteq account
    BY DEF AccountsOf
  <2> QED
    BY <1>2, <2>1, <2>2 DEF Found
<1> QED
  BY <1>1, <1>2

\* What a registration stores does not depend on later ones, so a worker that
\* a step leaves alone keeps its proof.
LEMMA OthersKeepProof ==
    ASSUME ProofOK, \A n \in Numbers : n \in Numbers' /\ reg'[n] = reg[n],
           NEW v \in Worker, worker'[v] = worker[v]
    PROVE  WorkerProofOK(v)'
<1>1. WorkerProofOK(v)
  BY DEF ProofOK
<1>2. ASSUME worker[v].step = "issue" PROVE ProvenBy(worker[v].proof, worker[v].found)'
  <2>1. reg'[worker[v].found] = reg[worker[v].found]
    BY <1>1, <1>2 DEF WorkerProofOK
  <2>2. ProvenBy(worker[v].proof, worker[v].found)
    BY <1>1, <1>2 DEF WorkerProofOK
  <2>3. Bundle(worker[v].found)' = Bundle(worker[v].found)
    BY <2>1 DEF Bundle
  <2> QED
    BY <2>2, <2>3 DEF ProvenBy
<1> QED
  BY <1>1, <1>2 DEF WorkerProofOK

\* A worker issues only after the check of what was presented to it.
LEMMA ProofStep == ProofInv /\ [Next]_vars => ProofInv'
<1> SUFFICES ASSUME ProofInv, [Next]_vars PROVE ProofInv'
  OBVIOUS
<1>a. WorkerShape /\ RegistrationOK /\ ProofOK
  BY DEF ProofInv
<1>b. /\ WorkerShape' /\ RegistrationOK'
      /\ \A n \in Numbers : n \in Numbers' /\ reg'[n] = reg[n]
  BY <1>a, RegistrationStep
<1>c. \A v \in Worker : worker'[v] = worker[v] => WorkerProofOK(v)'
  BY <1>a, <1>b, OthersKeepProof
<1>d. ASSUME NEW w \in Worker, NEW answer, End(w, answer) PROVE ProofOK'
  <2>1. worker'[w] = Idle /\ \A v \in Worker \ {w} : worker'[v] = worker[v]
    BY <1>a, <1>d, EndFields
  <2>2. WorkerProofOK(w)'
    BY <2>1 DEF WorkerProofOK, Idle
  <2> QED
    BY <1>c, <2>1, <2>2 DEF ProofOK
<1>e. ASSUME NEW w \in Worker, NEW step, NEW found, Goto(w, step, found),
             step = "consume" => found \in {0} \cup Numbers,
             step = "issue" => found \in Numbers /\ ProvenBy(worker[w].proof, found)
      PROVE  ProofOK'
  <2>1. /\ worker'[w].step = step /\ worker'[w].found = found
        /\ worker'[w].proof = worker[w].proof
        /\ \A v \in Worker \ {w} : worker'[v] = worker[v]
    BY <1>a, <1>e, GotoFields
  <2>2. reg' = reg
    BY <1>e DEF Goto
  <2>3. step = "issue" => ProvenBy(worker'[w].proof, found)
    BY <1>e, <2>1
  <2>4. WorkerProofOK(w)'
    BY <1>e, <2>1, <2>2, <2>3 DEF WorkerProofOK, ProvenBy, Bundle, Numbers
  <2> QED
    BY <1>c, <2>1, <2>4 DEF ProofOK
<1>f. ASSUME NEW w \in Worker PROVE Found(w) \in {0} \cup Numbers
  BY <1>a, FoundIsStored DEF RegistrationOK
<1>1. ASSUME worker' = worker PROVE ProofOK'
  BY <1>1, <1>c DEF ProofOK
<1>2. ASSUME NEW c \in Client,
             \/ \E e \in Email, p \in Password, b \in BOOLEAN : StartRegister(c, e, p, b)
             \/ \E n \in DOMAIN reg, b \in BOOLEAN : StartLogin(c, n, b)
             \/ RequestDelete(c) \/ Lock(c) \/ Disconnect(c)
      PROVE  worker' = worker
  BY <1>2 DEF StartRegister, StartLogin, RequestDelete, Lock, Disconnect
<1>3. ASSUME Tick \/ UNCHANGED vars PROVE worker' = worker
  BY <1>3 DEF Tick, vars
<1>4. ASSUME NEW c \in Client, NEW w \in Worker, Call(c, w) PROVE ProofOK'
  <2>1. worker'[w].step # "issue" /\ \A v \in Worker \ {w} : worker'[v] = worker[v]
    BY <1>a, <1>4, CallFields
  <2>2. worker'[w].found = 0
    BY <1>a, <1>4 DEF Call, WorkerShape
  <2>3. WorkerProofOK(w)'
    BY <2>1, <2>2 DEF WorkerProofOK
  <2> QED
    BY <1>c, <2>1, <2>3 DEF ProofOK
<1>5. ASSUME NEW w \in Worker,
             \/ InsertAccount(w) \/ StoreForRegister(w) \/ StoreForLogin(w)
             \/ IssueSession(w) \/ Read(w) \/ Delete(w) \/ Fail(w)
      PROVE  \E answer : End(w, answer)
  BY <1>5 DEF InsertAccount, StoreForRegister, StoreForLogin, IssueSession, Read, Delete, Fail,
              Answer
<1>6. ASSUME NEW w \in Worker, ConsumeForRegister(w) \/ LoginStart(w) \/ Authenticate(w)
      PROVE  ProofOK'
  <2>1. \/ \E answer : End(w, answer)
        \/ \E step \in {"insert", "store", "work"} : \E found : Goto(w, step, found)
    BY <1>6 DEF ConsumeForRegister, LoginStart, Authenticate, Answer
  <2> QED
    BY <1>d, <1>e, <2>1
<1>7. ASSUME NEW w \in Worker, LoginFinish(w) PROVE ProofOK'
  <2>1. CASE Goto(w, "consume", Found(w))
    BY <1>e, <1>f, <2>1
  <2>2. CASE VerifierMatches(w, Found(w)) /\ Goto(w, "issue", Found(w))
    <3>1. Found(w) \in Numbers
      BY <1>f, <2>2 DEF VerifierMatches
    <3>2. ProvenBy(worker[w].proof, Found(w))
      BY <2>2 DEF VerifierMatches, ProvenBy
    <3> QED
      BY <1>e, <2>2, <3>1, <3>2
  <2>3. CASE End(w, {})
    BY <1>d, <2>3
  <2> QED
    BY <1>7, <2>1, <2>2, <2>3 DEF LoginFinish, Answer
<1>8. ASSUME NEW w \in Worker, VerifyAssertion(w) PROVE ProofOK'
  <2>1. CASE AssertionValid(w) /\ Goto(w, "issue", worker[w].found)
    <3>1. worker[w].found \in Numbers
      BY <1>a, <1>8, <2>1 DEF VerifyAssertion, AssertionValid, ProofOK, WorkerProofOK, At
    <3>2. ProvenBy(worker[w].proof, worker[w].found)
      BY <2>1 DEF AssertionValid, ProvenBy
    <3> QED
      BY <1>e, <2>1, <3>1, <3>2
  <2>2. CASE End(w, {})
    BY <1>d, <2>2
  <2> QED
    BY <1>8, <2>1, <2>2 DEF VerifyAssertion, Answer
<1>9. ProofOK'
  BY <1>d, <1>1, <1>2, <1>3, <1>4, <1>5, <1>6, <1>7, <1>8 DEF Next
<1> QED
  BY <1>b, <1>9 DEF ProofInv

\* A step that creates a session creates it for the account of the worker.
LEMMA ProvenStep ==
    ASSUME ProofInv, [Next]_vars, NEW s \in session' \ session
    PROVE  s.account \in Numbers /\ ProvenBy(s.proof, s.account)
<1>1. ASSUME NEW w \in Worker, IssueSession(w)
      PROVE  s.account \in Numbers /\ ProvenBy(s.proof, s.account)
  <2>1. s.account = worker[w].found /\ s.proof = worker[w].proof
    BY <1>1 DEF IssueSession, SessionOwner
  <2>2. worker[w].step = "issue"
    BY <1>1 DEF IssueSession, At
  <2> QED
    BY <2>1, <2>2 DEF ProofInv, ProofOK, WorkerProofOK
<1>2. ASSUME NEW c \in Client,
             \/ \E e \in Email, p \in Password, b \in BOOLEAN : StartRegister(c, e, p, b)
             \/ \E n \in DOMAIN reg, b \in BOOLEAN : StartLogin(c, n, b)
             \/ \E w \in Worker : Call(c, w)
             \/ RequestDelete(c) \/ Lock(c) \/ Disconnect(c)
      PROVE  session' = session
  BY <1>2 DEF StartRegister, StartLogin, Call, RequestDelete, Lock, Disconnect, tableVars
<1>3. ASSUME NEW w \in Worker,
             \/ ConsumeForRegister(w) \/ InsertAccount(w) \/ StoreForRegister(w)
             \/ LoginStart(w) \/ StoreForLogin(w) \/ LoginFinish(w) \/ VerifyAssertion(w)
             \/ Authenticate(w) \/ Read(w) \/ Delete(w) \/ Fail(w)
      PROVE  session' \subseteq session
  BY <1>3 DEF ConsumeForRegister, InsertAccount, StoreForRegister, LoginStart, StoreForLogin,
              LoginFinish, VerifyAssertion, Authenticate, Read, Delete, DeleteAccount, Fail,
              tableVars
<1>4. ASSUME Tick \/ UNCHANGED vars PROVE session' = session
  BY <1>4 DEF Tick, vars, tableVars
<1> QED
  BY <1>1, <1>2, <1>3, <1>4 DEF Next

\* A session is for the account whose verifier or credential was presented,
\* for any number of workers between whose transactions accounts under one
\* e-mail are deleted and registered again.
THEOREM SessionForProvenAccountCorrect == Spec => SessionForProvenAccount
<1>1. ProofInv /\ [Next]_vars =>
        [\A s \in session' \ session :
           s.proof \in {{Bundle(s.account).authVerifier}, {Credential(s.account)}}]_vars
  BY ProvenStep DEF ProvenBy
<1> QED
  BY <1>1, ProofInit, ProofStep, PTL DEF Spec, SessionForProvenAccount

----------------------------------------------------------------------------
(* What is stored opens for its owner *)

\* The costs of v1 lie within the window that the client accepts.
LEMMA DecodeV1 == ASSUME NEW salt PROVE DecodeKdf(KdfV1(salt)) = {KdfV1(salt)}
<1>1. KdfV1(salt)[2] = ArgonV1
  BY DEF KdfV1
<1>2. ArgonV1 \in ArgonV1 .. ArgonCeiling
  BY DEF ArgonV1, ArgonCeiling
<1> QED
  BY <1>1, <1>2 DEF DecodeKdf

\* What was sealed opens with its key and its authenticated data, and with
\* nothing else.
LEMMA DecryptEncrypt ==
    ASSUME NEW key, NEW aad, NEW other, NEW otherAad, NEW plaintext
    PROVE  Decrypt(other, otherAad, Encrypt(key, aad, plaintext)) =
             IF other = key /\ otherAad = aad THEN {plaintext} ELSE {}
BY DEF Decrypt, Encrypt

\* The same of an envelope of one type.
LEMMA UnwrapWrap ==
    ASSUME NEW key, NEW other, NEW vk, NEW account1, NEW account2, NEW type, NEW kdf
    PROVE  Unwrap(other, Wrap(key, vk, account1, type, kdf), account2, type, kdf) =
             IF other = key /\ account1 = account2 THEN {vk} ELSE {}
<1> DEFINE e == Wrap(key, vk, account1, type, kdf)
<1>1. e.type = type /\ e.body = Encrypt(key, EnvelopeAad(account1, type, kdf), vk)
  BY DEF Wrap
<1>2. EnvelopeAad(account1, type, kdf) = EnvelopeAad(account2, type, kdf) <=> account1 = account2
  BY DEF EnvelopeAad
<1> HIDE DEF e
<1> QED
  BY <1>1, <1>2, DecryptEncrypt DEF Unwrap, e

\* The fields of what register sends.
LEMMA BundleFields ==
    ASSUME NEW n
    PROVE  LET b == Bundle(n)
               root == Stretch(reg[n].password, <<"secret-key", n>>, KdfV1(<<"salt", n>>))
               vk == <<"vk", n>>
               empty == [vaultId |-> <<"vault", n>>, version |-> 1, items |-> {}]
           IN  /\ b.kdf = KdfV1(<<"salt", n>>) /\ b.vaultId = <<"vault", n>>
               /\ b.passwordEnvelope =
                    Wrap(PkFromStretched(root), vk, AccountId(n), "password", b.kdf)
               /\ b.recoveryEnvelope =
                    Wrap(RkWrapKey(<<"secret-key", n>>), vk, AccountId(n), "recovery", NoKdf)
               /\ b.recoveryPubkey = PublicKey(RkAuthSeed(<<"secret-key", n>>))
               /\ b.authVerifier = AvFromStretched(root, AccountId(n))
               /\ b.signingPubkey = PublicKey(<<"seed", n>>)
               /\ b.wrappedSigningKey = WrapSigningKey(vk, <<"seed", n>>, b.vaultId)
               /\ b.signedManifest = SignContent(<<"seed", n>>, empty)
BY DEF Bundle, RegisterWith, Random

\* What is signed with a seed verifies with its public key.
LEMMA SignedVerifies ==
    ASSUME NEW seed, NEW content, NEW min, content.version >= min
    PROVE  VerifyManifest(PublicKey(seed), SignContent(seed, content), content.vaultId, min)
             = {content}
<1> DEFINE signed == SignContent(seed, content)
<1>1. /\ signed.content = content
      /\ signed.signature = <<PublicKey(seed), <<"manifest", content>>>>
  BY DEF SignContent, Sign
<1> HIDE DEF signed
<1> QED
  BY <1>1 DEF VerifyManifest, Verifies, signed

\* Nothing that login/start gives out differs from what register derived with.
LEMMA OpensForEveryOwner ==
    ASSUME NEW n, n # 0
    PROVE  OpensForOwner(n)
<1> DEFINE a == LoginAnswer(reg[n].email, n)
           own == [n |-> n, passkey |-> FALSE, id |-> a.id, salt |-> a.salt]
           b == Bundle(n)
           kdf == KdfV1(<<"salt", n>>)
           root == Stretch(reg[n].password, <<"secret-key", n>>, kdf)
           vk == <<"vk", n>>
           next == [vaultId |-> b.vaultId, version |-> 2, items |-> {}]
           empty == [vaultId |-> <<"vault", n>>, version |-> 1, items |-> {}]
<1>1. /\ own.n = n /\ own.passkey = FALSE
      /\ own.id = AccountId(n) /\ own.salt = <<"salt", n>>
  BY DEF LoginAnswer, Random
<1>2. Random(n).secretKey = <<"secret-key", n>>
  BY DEF Random
<1>3. DecodeKdf(kdf) = {kdf}
  BY DecodeV1
<1>4. /\ b.kdf = kdf /\ b.vaultId = <<"vault", n>>
      /\ b.passwordEnvelope = Wrap(PkFromStretched(root), vk, AccountId(n), "password", kdf)
      /\ b.authVerifier = AvFromStretched(root, AccountId(n))
      /\ b.signingPubkey = PublicKey(<<"seed", n>>)
      /\ b.wrappedSigningKey = WrapSigningKey(vk, <<"seed", n>>, b.vaultId)
      /\ b.signedManifest = SignContent(<<"seed", n>>, empty)
  BY BundleFields
<1>5. empty.vaultId = b.vaultId /\ empty.version >= 0
  BY <1>4
<1>6. next.vaultId = b.vaultId /\ next.version >= 1
  OBVIOUS
<1> SUFFICES /\ Proof(own) = {b.authVerifier}
             /\ VaultVerified(b)
             /\ \E v \in VaultKey(own, b) :
                  \E signed \in SignManifest(v, b.wrappedSigningKey, b.vaultId, next) :
                    VerifyManifest(b.signingPubkey, signed, b.vaultId, 1) = {next}
  BY DEF OpensForOwner
<1> HIDE DEF a, own, b, kdf, next, empty
<1>7. Kdf(own) = kdf
  BY <1>1 DEF Kdf, kdf
<1>8. Proof(own) = {b.authVerifier}
  BY <1>1, <1>2, <1>3, <1>4, <1>7 DEF Proof, DeriveAuthVerifier
<1>9. VaultVerified(b)
  <2>1. VerifyManifest(b.signingPubkey, b.signedManifest, b.vaultId, 0) = {empty}
    <3>1. VerifyManifest(PublicKey(<<"seed", n>>), SignContent(<<"seed", n>>, empty),
                         empty.vaultId, 0) = {empty}
      BY <1>5, SignedVerifies
    <3> QED
      BY <1>4, <1>5, <3>1
  <2> QED
    BY <2>1 DEF VaultVerified
<1>10. VaultKey(own, b) = {vk}
  <2>1. VaultKey(own, b) =
          UNION {Unwrap(PkFromStretched(root), b.passwordEnvelope, AccountId(n), "password", k) :
                   k \in {kdf}}
    BY <1>1, <1>2, <1>3, <1>7 DEF VaultKey, UnlockWithPassword
  <2>2. Unwrap(PkFromStretched(root), b.passwordEnvelope, AccountId(n), "password", kdf) = {vk}
    BY <1>4, UnwrapWrap
  <2> QED
    BY <2>1, <2>2
<1>11. SignContent(<<"seed", n>>, next) \in SignManifest(vk, b.wrappedSigningKey, b.vaultId, next)
  <2>1. UnwrapSigningKey(vk, b.wrappedSigningKey, b.vaultId) = {<<"seed", n>>}
    BY <1>4, DecryptEncrypt DEF UnwrapSigningKey, WrapSigningKey
  <2> QED
    BY <2>1 DEF SignManifest
<1>12. VerifyManifest(b.signingPubkey, SignContent(<<"seed", n>>, next), b.vaultId, 1) = {next}
  <2>1. VerifyManifest(PublicKey(<<"seed", n>>), SignContent(<<"seed", n>>, next),
                       next.vaultId, 1) = {next}
    BY <1>6, SignedVerifies
  <2> QED
    BY <1>4, <1>6, <2>1
<1> QED
  BY <1>8, <1>9, <1>10, <1>11, <1>12

\* Every account that is stored opens for the user who registered it, for any
\* number of clients and whatever e-mails and passwords they have.
THEOREM OwnerCanLogInCorrect == Spec => OwnerCanLogIn
<1>1. EmailInv /\ [Next]_vars => [\A n \in account' \ account : OpensForOwner(n)]_vars
  <2> SUFFICES ASSUME EmailInv, [Next]_vars, NEW n \in account' PROVE OpensForOwner(n)
    OBVIOUS
  <2>1. n # 0
    <3>1. RegistrationOK'
      BY EmailStep DEF EmailInv
    <3> QED
      BY <3>1 DEF RegistrationOK, Numbers
  <2> QED
    BY <2>1, OpensForEveryOwner
<1> QED
  BY <1>1, EmailInit, EmailStep, PTL DEF Spec, OwnerCanLogIn

----------------------------------------------------------------------------
(* What is stored opens for nobody else *)

\* Keys that are derived from different secrets differ.
LEMMA KeysDiffer ==
    ASSUME NEW n, NEW m, n # m
    PROVE  /\ AccountId(n) # AccountId(m)
           /\ RkWrapKey(<<"secret-key", n>>) # RkWrapKey(<<"secret-key", m>>)
           /\ PublicKey(RkAuthSeed(<<"secret-key", n>>)) # PublicKey(RkAuthSeed(<<"secret-key", m>>))
           /\ PrfWrapKey(Prf(n)) # PrfWrapKey(Prf(m))
           /\ DkWrapKey(<<"device", n>>) # DkWrapKey(<<"device", m>>)
           /\ \A p, q, k, l : PkFromStretched(Stretch(p, <<"secret-key", n>>, k))
                              # PkFromStretched(Stretch(q, <<"secret-key", m>>, l))
<1>1. <<"secret-key", n>> # <<"secret-key", m>>
  OBVIOUS
<1>2. Prf(n) # Prf(m) /\ <<"device", n>> # <<"device", m>> /\ AccountId(n) # AccountId(m)
  BY DEF Prf, AccountId
<1> DEFINE skn == <<"secret-key", n>>
           skm == <<"secret-key", m>>
<1> HIDE DEF skn, skm
<1>3. skn # skm
  BY <1>1 DEF skn, skm
<1>4. RkWrapKey(skn) # RkWrapKey(skm) /\ RkAuthSeed(skn) # RkAuthSeed(skm)
  BY <1>3 DEF RkWrapKey, RkAuthSeed
<1>5. PublicKey(RkAuthSeed(skn)) # PublicKey(RkAuthSeed(skm))
  BY <1>4 DEF PublicKey
<1>6. \A p, q, k, l : Stretch(p, skn, k) # Stretch(q, skm, l)
  BY <1>3 DEF Stretch
<1>7. \A p, q, k, l : PkFromStretched(Stretch(p, skn, k)) # PkFromStretched(Stretch(q, skm, l))
  BY <1>6 DEF PkFromStretched
<1>8. PrfWrapKey(Prf(n)) # PrfWrapKey(Prf(m)) /\ DkWrapKey(<<"device", n>>) # DkWrapKey(<<"device", m>>)
  BY <1>2 DEF PrfWrapKey, DkWrapKey
<1> QED
  BY <1>2, <1>4, <1>5, <1>7, <1>8 DEF skn, skm

\* The same of an item, which has two ciphertexts.
LEMMA ItemOpens ==
    ASSUME NEW vk, NEW other, NEW vaultId, NEW i, NEW j, NEW content, NEW cek
    PROVE  DecryptItem(other, vaultId, j, EncryptItem(vk, vaultId, i, content, cek)) =
             IF other = vk /\ i = j THEN {content} ELSE {}
<1> DEFINE item == EncryptItem(vk, vaultId, i, content, cek)
<1>1. /\ item.ciphertext = Encrypt(cek, ItemAad("item", vaultId, i), content)
      /\ item.wrappedCek = Encrypt(vk, ItemAad("cek", vaultId, i), cek)
  BY DEF EncryptItem
<1>2. \A label : ItemAad(label, vaultId, i) = ItemAad(label, vaultId, j) <=> i = j
  BY DEF ItemAad
<1> HIDE DEF item
<1>3. Decrypt(other, ItemAad("cek", vaultId, j), item.wrappedCek) =
        IF other = vk /\ i = j THEN {cek} ELSE {}
  BY <1>1, <1>2, DecryptEncrypt
<1>4. Decrypt(cek, ItemAad("item", vaultId, j), item.ciphertext) = IF i = j THEN {content} ELSE {}
  BY <1>1, <1>2, DecryptEncrypt
<1>5. DecryptItem(other, vaultId, j, item) = IF other = vk /\ i = j THEN {content} ELSE {}
  BY <1>3, <1>4 DEF DecryptItem
<1> QED
  BY <1>5 DEF item

\* Every path to what m stores opens with the secrets of m only.
LEMMA OpensOnlyForOwner == ASSUME NEW n, NEW m PROVE OpensOnlyWithKeysOf(n, m)
<1> DEFINE b == Bundle(m)
           vk == <<"vk", m>>
           opened == IF n = m THEN {vk} ELSE {}
           root == Stretch(reg[m].password, <<"secret-key", m>>, KdfV1(<<"salt", m>>))
           added == EnablePasskeyUnlock(vk, Prf(m), AccountId(m))
           device == EnableBiometricUnlock(vk, <<"device", m>>, AccountId(m))
           item == EncryptItem(vk, b.vaultId, "i", "content", <<"cek", m>>)
           request == <<"request", n>>
<1>1. /\ b.kdf = KdfV1(<<"salt", m>>) /\ b.vaultId = <<"vault", m>>
      /\ b.passwordEnvelope =
           Wrap(PkFromStretched(root), vk, AccountId(m), "password", KdfV1(<<"salt", m>>))
      /\ b.recoveryEnvelope =
           Wrap(RkWrapKey(<<"secret-key", m>>), vk, AccountId(m), "recovery", NoKdf)
      /\ b.recoveryPubkey = PublicKey(RkAuthSeed(<<"secret-key", m>>))
      /\ b.wrappedSigningKey = WrapSigningKey(vk, <<"seed", m>>, b.vaultId)
  BY BundleFields
<1>2. \A k : /\ Random(k).secretKey = <<"secret-key", k>> /\ Random(k).vk = <<"vk", k>>
             /\ Random(k).signingSeed = <<"seed", k>>
  BY DEF Random
<1> HIDE DEF b, root
<1>3. UnlockWithPassword(reg[n].password, <<"secret-key", n>>, b.passwordEnvelope, b.kdf,
                         AccountId(m)) = opened
  <2> DEFINE kdf == KdfV1(<<"salt", m>>)
             key == PkFromStretched(Stretch(reg[n].password, <<"secret-key", n>>, kdf))
  <2>1. DecodeKdf(kdf) = {kdf}
    BY DecodeV1
  <2>2. key = PkFromStretched(root) <=> n = m
    BY KeysDiffer DEF root
  <2> HIDE DEF kdf
  <2>3. UnlockWithPassword(reg[n].password, <<"secret-key", n>>, b.passwordEnvelope, kdf,
                           AccountId(m))
          = Unwrap(key, b.passwordEnvelope, AccountId(m), "password", kdf)
    BY <2>1 DEF UnlockWithPassword
  <2> HIDE DEF key
  <2>4. Unwrap(key, b.passwordEnvelope, AccountId(m), "password", kdf) = opened
    BY <1>1, <2>2, UnwrapWrap DEF kdf
  <2> QED
    BY <1>1, <2>3, <2>4 DEF kdf
<1>4. RecoverUnlock(<<"secret-key", n>>, b.recoveryEnvelope, AccountId(m)) = opened
  <2>1. RkWrapKey(<<"secret-key", n>>) = RkWrapKey(<<"secret-key", m>>) <=> n = m
    BY KeysDiffer
  <2> QED
    BY <1>1, <2>1, UnwrapWrap DEF RecoverUnlock
<1>5. RecoverUnlock(<<"secret-key", m>>, b.recoveryEnvelope, AccountId(n)) = opened
  <2>1. AccountId(n) = AccountId(m) <=> n = m
    BY KeysDiffer
  <2> QED
    BY <1>1, <2>1, UnwrapWrap DEF RecoverUnlock
<1>6. UnlockWithPasskey(Prf(n), added, AccountId(m)) = opened
  <2>1. PrfWrapKey(Prf(n)) = PrfWrapKey(Prf(m)) <=> n = m
    BY KeysDiffer
  <2> QED
    BY <2>1, UnwrapWrap DEF UnlockWithPasskey, EnablePasskeyUnlock
<1>7. UnlockWithDeviceKey(<<"device", n>>, device, AccountId(m)) = opened
  <2>1. DkWrapKey(<<"device", n>>) = DkWrapKey(<<"device", m>>) <=> n = m
    BY KeysDiffer
  <2> QED
    BY <2>1, UnwrapWrap DEF UnlockWithDeviceKey, EnableBiometricUnlock
<1>8. UnlockWithPasskey(Prf(m), device, AccountId(m)) = {}
  <2>1. device.type = "biometric"
    BY DEF EnableBiometricUnlock, Wrap
  <2> QED
    BY <2>1 DEF UnlockWithPasskey, Unwrap
<1>9. UnwrapSigningKey(<<"vk", n>>, b.wrappedSigningKey, b.vaultId)
        = IF n = m THEN {<<"seed", m>>} ELSE {}
  <2>1. <<"vk", n>> = <<"vk", m>> <=> n = m
    OBVIOUS
  <2> QED
    <3> DEFINE aad == SigningKeyAad(b.vaultId)
    <3>1. UnwrapSigningKey(<<"vk", n>>, b.wrappedSigningKey, b.vaultId)
            = Decrypt(<<"vk", n>>, aad, Encrypt(<<"vk", m>>, aad, <<"seed", m>>))
      BY <1>1 DEF UnwrapSigningKey, WrapSigningKey
    <3> HIDE DEF aad
    <3>2. Decrypt(<<"vk", n>>, aad, Encrypt(<<"vk", m>>, aad, <<"seed", m>>))
            = IF <<"vk", n>> = <<"vk", m>> THEN {<<"seed", m>>} ELSE {}
      BY DecryptEncrypt
    <3> QED
      BY <2>1, <3>1, <3>2
<1>10. DecryptItem(<<"vk", n>>, b.vaultId, "i", item) = IF n = m THEN {"content"} ELSE {}
  BY ItemOpens
<1>11. DecryptItem(vk, b.vaultId, "j", item) = {}
  BY ItemOpens
<1>12. RecoveryVerifyRequest(b.recoveryPubkey, request,
           RecoverySignRequest(<<"secret-key", n>>, request)) = (n = m)
  <2>1. PublicKey(RkAuthSeed(<<"secret-key", n>>)) = PublicKey(RkAuthSeed(<<"secret-key", m>>))
          <=> n = m
    BY KeysDiffer
  <2> QED
    BY <1>1, <2>1 DEF RecoveryVerifyRequest, RecoverySignRequest, Verifies, Sign
<1> QED
  BY <1>2, <1>3, <1>4, <1>5, <1>6, <1>7, <1>8, <1>9, <1>10, <1>11, <1>12
     DEF OpensOnlyWithKeysOf, b

\* Neither another Secret Key nor another account's row opens what a
\* registration stores, for any number of registrations under any passwords.
THEOREM EnvelopesOpenOnlyForOwnerCorrect == Spec => EnvelopesOpenOnlyForOwner
<1>1. \A n, m \in DOMAIN reg : OpensOnlyWithKeysOf(n, m)
  BY OpensOnlyForOwner
<1>2. [reg' # reg => (\A n, m \in DOMAIN reg : OpensOnlyWithKeysOf(n, m))']_vars
  BY <1>1, PTL
<1> QED
  BY <1>2, PTL DEF Spec, EnvelopesOpenOnlyForOwner
=============================================================================
