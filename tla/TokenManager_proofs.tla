------------------------- MODULE TokenManager_proofs -------------------------
(***************************************************************************)
(* Theorems about TokenManager for every number of tasks, logins, retries, *)
(* lifetimes and serial numbers, with and without lost answers, logins     *)
(* during a refresh and cancelled tasks.                                   *)
(***************************************************************************)
EXTENDS TokenManager, TLAPS

-----------------------------------------------------------------------------
(* Types                                                                   *)

\* The record of an idle task is a well typed one.
LEMMA NoJobType == NoJob \in Jobs /\ NoAnswer \in Answers
  BY ManagerAssumption DEF NoJob, Jobs, NoAnswer, Answers, Results, NoToken, NoExpiry

\* NoToken is not a token: the logins are numbered from 1.
LEMMA NoTokenNone == NoToken \notin Tokens
  BY ManagerAssumption DEF NoToken, Tokens

\* TypeOK is not inductive by itself: a cancelled task orphans the family of the
\* token it sent, so an answered task has to have sent a real token.  Only Grant answers
\* with a token, and a task that has sent nothing yet has no answer.
Early == {"idle", "check", "wait", "locked", "discover"}
SentInv ==
    \A c \in Tasks : /\ job[c].answer.kind = "ok" => job[c].sent # NoToken
                     /\ pc[c] \in Early => job[c].answer.kind # "ok"

\* Every step of the manager, the provider and the clock keeps the types.
LEMMA TypeStep == TypeOK /\ SentInv /\ [Next]_vars => TypeOK'
  <1> SUFFICES ASSUME TypeOK, SentInv, [Next]_vars PROVE TypeOK'
    OBVIOUS
  <1> USE DEF TypeOK
  <1>j. ASSUME NEW c \in Tasks
        PROVE  /\ job[c] \in Jobs
               /\ job[c].sent \in Tokens \cup {NoToken}
               /\ job[c].answer \in Answers
               /\ \A r \in Results : [job EXCEPT ![c] = [@ EXCEPT !.result = r]] \in [Tasks -> Jobs]
               /\ \A a \in Answers : [job EXCEPT ![c] = [@ EXCEPT !.answer = a]] \in [Tasks -> Jobs]
    <2>1. job[c] \in Jobs
      OBVIOUS
    <2>2. \A r \in Results : [job[c] EXCEPT !.result = r] \in Jobs
      BY <2>1 DEF Jobs
    <2>3. \A a \in Answers : [job[c] EXCEPT !.answer = a] \in Jobs
      BY <2>1 DEF Jobs
    <2>4. job[c].sent \in Tokens \cup {NoToken} /\ job[c].answer \in Answers
      BY <2>1 DEF Jobs
    <2> QED BY <2>1, <2>2, <2>3, <2>4
  <1>e. ASSUME NEW c \in Tasks, NEW r \in Results, Ends(c, r)
        PROVE  job' \in [Tasks -> Jobs] /\ pc' \in [Tasks -> Labels]
    BY <1>e, <1>j DEF Ends, GoTo, Labels
  <1>1. ASSUME NEW life \in Lifetimes, Login(life) PROVE TypeOK'
    <2>1. Token(login + 1, 0) \in Tokens
      BY <1>1, ManagerAssumption DEF Login, Token, Tokens
    <2>2. expires' \in Nat \cup {NoExpiry}
      BY <1>1, ManagerAssumption DEF Login, set_tokens, NoExpiry
    <2> QED BY <1>1, <2>1, <2>2, ManagerAssumption DEF Login, set_tokens, provider
  <1>2. ASSUME NEW c \in Tasks, Begin(c) PROVE TypeOK'
    BY <1>2 DEF Begin, GoTo, Labels, manager, provider
  <1>3. ASSUME NEW c \in Tasks, Check(c) PROVE TypeOK'
    BY <1>3, <1>e DEF Check, GoTo, Labels, manager, provider, Results
  <1>4. ASSUME NEW c \in Tasks, Acquire(c) PROVE TypeOK'
    BY <1>4 DEF Acquire, GoTo, Labels, Locked, manager, provider
  <1>5. ASSUME NEW c \in Tasks, Recheck(c) PROVE TypeOK'
    BY <1>5, <1>e DEF Recheck, GoTo, Leave, Labels, Locked, manager, provider, Results
  <1>6. ASSUME NEW c \in Tasks, _resolve_token_endpoint(c) PROVE TypeOK'
    <2>1. CASE job' = [job EXCEPT ![c] = [@ EXCEPT !.sent = refresh]] /\ GoTo(c, "post")
               /\ UNCHANGED lock
      <3>1. [job[c] EXCEPT !.sent = refresh] \in Jobs
        BY <1>j DEF Jobs
      <3> QED BY <1>6, <2>1, <3>1 DEF _resolve_token_endpoint, GoTo, Labels, Locked, manager, provider
    <2>2. CASE Ends(c, "failed") /\ Leave
      BY <1>6, <1>e, <2>2 DEF _resolve_token_endpoint, Leave, manager, provider, Results
    <2> QED BY <1>6, <2>1, <2>2 DEF _resolve_token_endpoint
  <1>7. ASSUME NEW c \in Tasks, Post(c) PROVE TypeOK'
    <2>a. ASSUME NEW a \in Answers, Answered(c, a)
          PROVE  job' \in [Tasks -> Jobs] /\ pc' \in [Tasks -> Labels]
      BY <1>j, <2>a DEF Answered, GoTo, Labels, Locked
    <2>k. ASSUME NEW k \in {"retry", "refused"} PROVE [NoAnswer EXCEPT !.kind = k] \in Answers
      BY NoJobType DEF Answers
    <2>1. ASSUME NEW life \in Lifetimes, Grant(c, life) PROVE TypeOK'
      <3> DEFINE f == job[c].sent.family
                 n == issued[f] + 1
                 next == [kind |-> "ok", access |-> Token(f, n), life |-> life,
                          refresh |-> IF Rotation THEN Token(f, n) ELSE NoToken]
      <3>1. f \in Families /\ n <= MaxSerial /\ n \in 0..MaxSerial
        BY <2>1, ManagerAssumption DEF Grant
      <3>2. Token(f, n) \in Tokens
        BY <3>1 DEF Token, Tokens
      <3>3. next \in Answers
        BY <3>2 DEF Answers
      <3>4. job[c].sent \in Tokens
        BY <1>j, <3>1, ManagerAssumption DEF NoToken
      <3>5. /\ issued' = [issued EXCEPT ![f] = n] /\ used' = used \cup {job[c].sent}
            /\ UNCHANGED revoked
            /\ \/ Answered(c, next) /\ UNCHANGED orphaned
               \/ /\ Answered(c, [NoAnswer EXCEPT !.kind = "retry"])
                  /\ orphaned' = orphaned \cup {f}
        BY <2>1 DEF Grant
      <3>6. job' \in [Tasks -> Jobs] /\ pc' \in [Tasks -> Labels]
        BY <2>a, <2>k, <3>3, <3>5
      <3>7. UNCHANGED <<now, login, manager, lock>>
        BY <1>7 DEF Post
      <3> QED BY <3>1, <3>4, <3>5, <3>6, <3>7 DEF manager
    <2>2. ASSUME Refuse(c) PROVE TypeOK'
      <3>1. Answered(c, [NoAnswer EXCEPT !.kind = "refused"]) /\ UNCHANGED <<used, issued, orphaned>>
        BY <2>2 DEF Refuse
      <3>2. revoked' \subseteq Families
        <4>1. CASE Rotation /\ job[c].sent \in used
          <5>1. job[c].sent.family \in Families
            BY <4>1 DEF Tokens
          <5> QED BY <2>2, <4>1, <5>1 DEF Refuse
        <4>2. CASE ~(Rotation /\ job[c].sent \in used)
          BY <2>2, <4>2 DEF Refuse
        <4> QED BY <4>1, <4>2
      <3>3. UNCHANGED <<now, login, manager, lock>>
        BY <1>7 DEF Post
      <3> QED BY <2>a, <2>k, <3>1, <3>2, <3>3 DEF manager
    <2>3. ASSUME Answered(c, [NoAnswer EXCEPT !.kind = "retry"]) /\ UNCHANGED provider PROVE TypeOK'
      BY <1>7, <2>a, <2>k, <2>3 DEF Post, provider, manager
    <2> QED BY <1>7, <2>1, <2>2, <2>3 DEF Post
  <1>8. ASSUME NEW c \in Tasks, Retry(c) PROVE TypeOK'
    <2>1. job[c].attempt + 1 \in 0..Retries
      BY <1>8, <1>j, ManagerAssumption DEF Retry, ShouldRetry, Jobs
    <2>2. [job[c] EXCEPT !.attempt = job[c].attempt + 1, !.answer = NoAnswer] \in Jobs
      BY <1>j, <2>1, NoJobType DEF Jobs
    <2> QED BY <1>8, <2>2 DEF Retry, GoTo, Labels, Locked, manager, provider
  <1>9. ASSUME NEW c \in Tasks, Process(c) PROVE TypeOK'
    BY <1>9, <1>e DEF Process, GoTo, Leave, Labels, Locked, manager, provider, Results
  <1>10. ASSUME NEW c \in Tasks, Apply(c) PROVE TypeOK'
    <2>1. /\ job[c].answer.access \in Tokens \cup {NoToken}
          /\ job[c].answer.refresh \in Tokens \cup {NoToken}
          /\ job[c].answer.life \in Lifetimes \cup {NoExpiry}
      BY <1>j DEF Answers
    <2>2. expires' \in Nat \cup {NoExpiry}
      <3>1. expires' = IF job[c].answer.life = NoExpiry THEN NoExpiry ELSE now + job[c].answer.life
        BY <1>10 DEF Apply, set_tokens
      <3>2. job[c].answer.life = NoExpiry \/ job[c].answer.life \in Nat
        BY <2>1, ManagerAssumption
      <3>3. now \in Nat
        OBVIOUS
      <3> HIDE DEF TypeOK
      <3> QED BY <3>1, <3>2, <3>3
    <2>3. access' \in Tokens \cup {NoToken} /\ refresh' \in Tokens \cup {NoToken}
      <3>1. access' = job[c].answer.access /\ refresh' \in {job[c].answer.refresh, refresh}
        BY <1>10 DEF Apply, set_tokens
      <3> QED BY <2>1, <3>1
    <2>4. job' \in [Tasks -> Jobs] /\ pc' \in [Tasks -> Labels]
      BY <1>10, <1>e DEF Apply, Results
    <2> QED BY <1>10, <2>2, <2>3, <2>4 DEF Apply, Leave, provider
  <1>11. ASSUME NEW c \in Tasks, Cancel(c) PROVE TypeOK'
    <2>1. Ends(c, "cancelled") /\ UNCHANGED <<now, login, manager, used, issued, revoked>>
          /\ lock' = IF lock = c THEN Nobody ELSE lock
      BY <1>11 DEF Cancel
    <2>2. orphaned' \subseteq Families
      <3>1. job[c].answer.kind = "ok" => job[c].sent.family \in Families
        BY <1>j DEF SentInv, Tokens
      <3> QED BY <1>11, <3>1 DEF Cancel
    <2> QED BY <1>e, <2>1, <2>2 DEF manager, Results
  <1>12. ASSUME NEW c \in Tasks, Return(c) PROVE TypeOK'
    BY <1>12, NoJobType DEF Return, GoTo, Labels, manager, provider
  <1>13. ASSUME Tick PROVE TypeOK'
    BY <1>13 DEF Tick, manager, provider
  <1>14. ASSUME UNCHANGED vars PROVE TypeOK'
    BY <1>14 DEF vars, manager, provider
  <1> QED
    BY <1>1, <1>2, <1>3, <1>4, <1>5, <1>6, <1>7, <1>8, <1>9, <1>10, <1>11, <1>12, <1>13, <1>14
    DEF Next, Step

\* A jump changes the label of one task.
LEMMA GoToFields ==
    ASSUME TypeOK, NEW c \in Tasks, NEW l, GoTo(c, l)
    PROVE  pc'[c] = l /\ \A d \in Tasks \ {c} : pc'[d] = pc[d]
  BY DEF GoTo, TypeOK

\* The end of a call keeps what the task knows.
LEMMA EndsFields ==
    ASSUME TypeOK, NEW c \in Tasks, NEW r, Ends(c, r)
    PROVE  /\ pc'[c] = "returned"
           /\ job'[c].answer = job[c].answer /\ job'[c].sent = job[c].sent
           /\ \A d \in Tasks \ {c} : pc'[d] = pc[d] /\ job'[d] = job[d]
  <1>1. job[c] \in Jobs
    BY DEF TypeOK
  <1>2. [job[c] EXCEPT !.result = r].answer = job[c].answer
        /\ [job[c] EXCEPT !.result = r].sent = job[c].sent
    BY <1>1 DEF Jobs
  <1> QED BY <1>2 DEF Ends, GoTo, TypeOK

\* An answer changes nothing else of the task that receives it.
LEMMA AnsweredFields ==
    ASSUME TypeOK, NEW c \in Tasks, NEW a, Answered(c, a)
    PROVE  /\ pc'[c] = "answered" /\ job'[c].answer = a /\ job'[c].sent = job[c].sent
           /\ \A d \in Tasks \ {c} : pc'[d] = pc[d] /\ job'[d] = job[d]
  <1>1. job[c] \in Jobs
    BY DEF TypeOK
  <1>2. [job[c] EXCEPT !.answer = a].answer = a
        /\ [job[c] EXCEPT !.answer = a].sent = job[c].sent
    BY <1>1 DEF Jobs
  <1> QED BY <1>2, GoToFields DEF Answered, TypeOK

\* The refresh token of a task's request is a real one.
LEMMA SentStep == TypeOK /\ SentInv /\ [Next]_vars => SentInv'
  <1> SUFFICES ASSUME TypeOK, SentInv, [Next]_vars PROVE SentInv'
    OBVIOUS
  <1>j. \A c \in Tasks : job[c] \in Jobs
    BY DEF TypeOK
  <1>n. NoAnswer.kind = "none" /\ NoJob.answer.kind = "none"
    BY DEF NoAnswer, NoJob
  \* A step of task c: what has to be shown of c alone.
  <1>s. ASSUME NEW c \in Tasks,
               \A d \in Tasks \ {c} : pc'[d] = pc[d] /\ job'[d] = job[d],
               job'[c].answer.kind = "ok" => job'[c].sent # NoToken,
               pc'[c] \in Early => job'[c].answer.kind # "ok"
        PROVE  SentInv'
    BY <1>s DEF SentInv
  <1>p. ASSUME NEW c \in Tasks, NEW l, GoTo(c, l)
        PROVE  pc'[c] = l /\ \A d \in Tasks \ {c} : pc'[d] = pc[d]
    BY <1>p, GoToFields
  <1>e. ASSUME NEW c \in Tasks, NEW r, Ends(c, r)
        PROVE  /\ pc'[c] = "returned"
               /\ job'[c].answer = job[c].answer /\ job'[c].sent = job[c].sent
               /\ \A d \in Tasks \ {c} : pc'[d] = pc[d] /\ job'[d] = job[d]
    BY <1>e, EndsFields
  <1>1. ASSUME NEW life \in Lifetimes, Login(life) PROVE SentInv'
    BY <1>1 DEF Login, SentInv
  <1>2. ASSUME NEW c \in Tasks, Begin(c) \/ Acquire(c) PROVE SentInv'
    <2>1. PICK l \in {"check", "locked"} : GoTo(c, l)
      BY <1>2 DEF Begin, Acquire
    <2>2. pc[c] \in Early /\ UNCHANGED job
      BY <1>2 DEF Begin, Acquire, Early
    <2> QED BY <1>p, <1>s, <2>1, <2>2 DEF SentInv
  <1>3. ASSUME NEW c \in Tasks, Check(c) \/ Recheck(c) \/ Process(c) PROVE SentInv'
    <2>1. "returned" \notin Early /\ "apply" \notin Early
      BY DEF Early
    <2>2. CASE \E r \in Results : Ends(c, r)
      BY <1>e, <1>s, <2>1, <2>2 DEF SentInv
    <2>3. CASE UNCHANGED job /\ GoTo(c, "apply")
      BY <1>p, <1>s, <2>1, <2>3 DEF SentInv
    <2>4. CASE UNCHANGED job /\ pc[c] \in Early /\ \E l \in {"wait", "discover"} : GoTo(c, l)
      BY <1>p, <1>s, <2>4 DEF SentInv
    <2> QED BY <1>3, <2>2, <2>3, <2>4 DEF Check, Recheck, Process, Results, Early
  <1>4. ASSUME NEW c \in Tasks, _resolve_token_endpoint(c) PROVE SentInv'
    <2>1. job[c].answer.kind # "ok" /\ "returned" \notin Early /\ "post" \notin Early
      BY <1>4 DEF _resolve_token_endpoint, SentInv, Early
    <2>2. CASE Ends(c, "failed")
      BY <1>e, <1>s, <2>1, <2>2 DEF SentInv
    <2>3. CASE job' = [job EXCEPT ![c] = [@ EXCEPT !.sent = refresh]] /\ GoTo(c, "post")
      <3>1. job'[c].answer = job[c].answer /\ \A d \in Tasks \ {c} : job'[d] = job[d]
        BY <1>j, <2>3 DEF TypeOK, Jobs
      <3> QED BY <1>p, <1>s, <2>1, <2>3, <3>1
    <2> QED BY <1>4, <2>2, <2>3 DEF _resolve_token_endpoint
  <1>5. ASSUME NEW c \in Tasks, Post(c) PROVE SentInv'
    <2>1. "answered" \notin Early
      BY DEF Early
    <2>a. ASSUME NEW a, Answered(c, a)
          PROVE  /\ pc'[c] = "answered" /\ job'[c].answer = a /\ job'[c].sent = job[c].sent
                 /\ \A d \in Tasks \ {c} : pc'[d] = pc[d] /\ job'[d] = job[d]
      BY <2>a, AnsweredFields
    <2>2. CASE \E life \in Lifetimes : Grant(c, life)
      <3>1. job[c].sent # NoToken
        BY <2>2, ManagerAssumption DEF Grant, NoToken
      <3>2. PICK a : Answered(c, a)
        BY <2>2 DEF Grant
      <3> QED BY <1>s, <2>1, <2>a, <3>1, <3>2
    <2>3. CASE \E k \in {"retry", "refused"} : Answered(c, [NoAnswer EXCEPT !.kind = k])
      <3>1. PICK k \in {"retry", "refused"} : Answered(c, [NoAnswer EXCEPT !.kind = k])
        BY <2>3
      <3>2. [NoAnswer EXCEPT !.kind = k].kind # "ok"
        BY DEF NoAnswer
      <3> QED BY <1>s, <2>1, <2>a, <3>1, <3>2, ZenonT(30)
    <2> QED BY <1>5, <2>2, <2>3 DEF Post, Refuse
  <1>6. ASSUME NEW c \in Tasks, Retry(c) PROVE SentInv'
    <2>1. job'[c].answer = NoAnswer /\ \A d \in Tasks \ {c} : job'[d] = job[d]
      BY <1>6, <1>j DEF Retry, TypeOK, Jobs
    <2> QED BY <1>6, <1>n, <1>p, <1>s, <2>1 DEF Retry
  <1>7. ASSUME NEW c \in Tasks, Apply(c) \/ Cancel(c) PROVE SentInv'
    <2>1. PICK r : Ends(c, r)
      BY <1>7 DEF Apply, Cancel
    <2>2. "returned" \notin Early
      BY DEF Early
    <2> QED BY <1>e, <1>s, <2>1, <2>2 DEF SentInv
  <1>8. ASSUME NEW c \in Tasks, Return(c) PROVE SentInv'
    <2>1. job'[c] = NoJob /\ \A d \in Tasks \ {c} : job'[d] = job[d]
      BY <1>8 DEF Return, TypeOK
    <2> QED BY <1>8, <1>n, <1>p, <1>s, <2>1 DEF Return
  <1>9. ASSUME Tick \/ UNCHANGED vars PROVE SentInv'
    BY <1>9 DEF Tick, vars, SentInv
  <1> QED BY <1>1, <1>2, <1>3, <1>4, <1>5, <1>6, <1>7, <1>8, <1>9 DEF Next, Step

\* The manager, the provider and the tasks keep their types, and no grant makes more
\* than Retries + 1 attempts.
THEOREM TypeCorrect == Spec => []TypeOK
  <1>1. Init => TypeOK /\ SentInv
    BY NoJobType, ManagerAssumption DEF Init, TypeOK, Labels, SentInv, Early, NoJob, NoAnswer
  <1> QED BY <1>1, TypeStep, SentStep, PTL DEF Spec

-----------------------------------------------------------------------------
(* The family of a login survives.  The argument: the lock makes the token *)
(* that a task sends the newest one the provider has issued for its        *)
(* family, unless a rotated token was lost on its way to set_tokens.       *)

\* _refresh_lock: a task between acquire and release owns it.
LockInv == \A c \in Tasks : pc[c] \in Locked => lock = c

\* A token of a family that has been handed out, with a serial number that has been
\* issued.
Known(t) == t # NoToken => t.family <= login /\ t.n <= issued[t.family]

\* The answer of the latest grant is with task c, on its way to set_tokens.
Carries(c) == pc[c] \in {"answered", "apply"} /\ job[c].answer.kind = "ok"

\* A token that was exchanged and whose family has lost no token.
Spent(t) == t \in used /\ t.family \notin orphaned

\* A step of task c that takes the free lock, or keeps it, or leaves it, preserves
\* LockInv.
LEMMA LockInvStep == TypeOK /\ LockInv /\ [Next]_vars => LockInv'
  <1> SUFFICES ASSUME TypeOK, LockInv, [Next]_vars PROVE LockInv'
    OBVIOUS
  <1>s. ASSUME NEW c \in Tasks, \A d \in Tasks \ {c} : pc'[d] = pc[d],
               \/ lock' = lock /\ (pc'[c] \in Locked => pc[c] \in Locked)
               \/ lock = Nobody /\ lock' = c
               \/ (lock = c \/ pc[c] \in Locked) /\ lock' = Nobody /\ pc'[c] \notin Locked
        PROVE  LockInv'
    <2>1. SUFFICES ASSUME NEW d \in Tasks, pc'[d] \in Locked PROVE lock' = d
      BY DEF LockInv
    <2>2. c # Nobody /\ d # Nobody
      BY ManagerAssumption
    <2> QED BY <1>s, <2>1, <2>2 DEF LockInv
  <1>1. ASSUME NEW life \in Lifetimes, Login(life) PROVE LockInv'
    BY <1>1 DEF Login, LockInv
  <1>2. ASSUME NEW c \in Tasks, Begin(c) \/ Check(c) \/ Return(c) PROVE LockInv'
    <2>1. PICK l \in {"check", "wait", "returned", "idle"} : GoTo(c, l)
      BY <1>2 DEF Begin, Check, Return, Ends
    <2>2. l \notin Locked /\ lock' = lock
      BY <1>2 DEF Locked, Begin, Check, Return
    <2> QED BY <1>s, <2>1, <2>2, GoToFields
  <1>3. ASSUME NEW c \in Tasks, Acquire(c) PROVE LockInv'
    BY <1>3, <1>s, GoToFields DEF Acquire, LockFree
  <1>4. ASSUME NEW c \in Tasks,
               Recheck(c) \/ _resolve_token_endpoint(c) \/ Process(c) \/ Apply(c)
        PROVE  LockInv'
    <2>1. pc[c] \in Locked
      BY <1>4 DEF Recheck, _resolve_token_endpoint, Process, Apply, Locked
    <2>2. CASE \E r : Ends(c, r) /\ Leave
      <3>1. pc'[c] = "returned" /\ "returned" \notin Locked
        BY <2>2, EndsFields DEF Locked
      <3> QED BY <1>s, <2>1, <2>2, <3>1, EndsFields DEF Leave
    <2>3. CASE UNCHANGED lock /\ \E l : GoTo(c, l)
      BY <1>s, <2>1, <2>3, GoToFields
    <2> QED BY <1>4, <2>2, <2>3 DEF Recheck, _resolve_token_endpoint, Process, Apply
  <1>5. ASSUME NEW c \in Tasks, Post(c) \/ Retry(c) PROVE LockInv'
    <2>1. pc[c] \in Locked /\ lock' = lock
      BY <1>5 DEF Post, Retry, Locked
    <2>2. \E l : GoTo(c, l)
      BY <1>5 DEF Post, Grant, Refuse, Retry, Answered
    <2> QED BY <1>s, <2>1, <2>2, GoToFields
  <1>6. ASSUME NEW c \in Tasks, Cancel(c) PROVE LockInv'
    <2>1. pc'[c] = "returned" /\ "returned" \notin Locked
      BY <1>6, EndsFields DEF Cancel, Locked
    <2> QED BY <1>6, <1>s, <2>1, EndsFields DEF Cancel
  <1>7. ASSUME Tick \/ UNCHANGED vars PROVE LockInv'
    BY <1>7 DEF Tick, vars, LockInv
  <1> QED BY <1>1, <1>2, <1>3, <1>4, <1>5, <1>6, <1>7 DEF Next, Step

\* A task between the second check and the request still needs its grant: nobody else
\* can refresh, a login starts a family, and time does not make a token younger.
Needed(c) == pc[c] = "discover" /\ access.n > 0 => is_token_expired

\* Every step keeps the need of the grant that the owner of the lock is about to send.
LEMMA NeededStep ==
    TypeOK /\ LockInv /\ (\A c \in Tasks : Needed(c)) /\ [Next]_vars
        => (\A c \in Tasks : Needed(c))'
  <1> SUFFICES ASSUME TypeOK, LockInv, \A c \in Tasks : Needed(c), [Next]_vars,
                      NEW c \in Tasks
               PROVE  Needed(c)'
    OBVIOUS
  <1>l. ASSUME NEW d \in Tasks, NEW l, GoTo(d, l), l # "discover", UNCHANGED <<manager, now>>
        PROVE  Needed(c)'
    BY <1>l, GoToFields DEF Needed, manager, is_token_expired
  <1>1. ASSUME NEW life \in Lifetimes, Login(life) PROVE Needed(c)'
    BY <1>1 DEF Login, set_tokens, Token, Needed
  <1>2. ASSUME NEW d \in Tasks, Begin(d) \/ Check(d) \/ Acquire(d) \/ Process(d) \/ Return(d)
        PROVE  Needed(c)'
    <2>1. PICK l \in {"check", "wait", "locked", "returned", "apply", "idle"} : GoTo(d, l)
      BY <1>2 DEF Begin, Check, Acquire, Process, Return, Ends
    <2>2. UNCHANGED <<manager, now>>
      BY <1>2 DEF Begin, Check, Acquire, Process, Return
    <2> QED BY <1>l, <2>1, <2>2
  <1>3. ASSUME NEW d \in Tasks, _resolve_token_endpoint(d) \/ Post(d) \/ Retry(d) \/ Cancel(d)
        PROVE  Needed(c)'
    <2>1. PICK l \in {"post", "answered", "returned"} : GoTo(d, l)
      BY <1>3 DEF _resolve_token_endpoint, Post, Grant, Refuse, Answered, Retry, Cancel, Ends
    <2>2. UNCHANGED <<manager, now>>
      BY <1>3 DEF _resolve_token_endpoint, Post, Retry, Cancel
    <2> QED BY <1>l, <2>1, <2>2
  <1>4. ASSUME NEW d \in Tasks, Recheck(d) PROVE Needed(c)'
    <2>1. UNCHANGED <<manager, now>>
      BY <1>4 DEF Recheck
    <2>2. CASE GoTo(d, "discover") /\ ~HasFreshToken
      <3>1. NoToken.n = 0
        BY DEF NoToken
      <3>2. access.n > 0 => is_token_expired
        BY <2>2, <3>1 DEF HasFreshToken
      <3> QED BY <2>1, <2>2, <3>2, GoToFields DEF Needed, manager, is_token_expired
    <2>3. CASE GoTo(d, "returned")
      BY <1>l, <2>1, <2>3
    <2> QED BY <1>4, <2>2, <2>3 DEF Recheck, Ends
  <1>5. ASSUME NEW d \in Tasks, Apply(d) PROVE Needed(c)'
    <2>1. pc'[c] # "discover"
      <3>1. pc[d] = "apply" /\ GoTo(d, "returned")
        BY <1>5 DEF Apply, Ends
      <3>2. lock = d
        BY <3>1 DEF LockInv, Locked
      <3>3. pc[c] = "discover" => lock = c
        BY DEF LockInv, Locked
      <3> QED BY <3>1, <3>2, <3>3, GoToFields
    <2> QED BY <2>1 DEF Needed
  <1>6. ASSUME Tick PROVE Needed(c)'
    <2>1. now' = now + 1 /\ UNCHANGED <<manager, pc>>
      BY <1>6 DEF Tick
    <2>2. is_token_expired => is_token_expired'
      BY <2>1, ManagerAssumption DEF is_token_expired, manager, TypeOK, NoExpiry
    <2> QED BY <2>1, <2>2 DEF Needed, manager
  <1>7. ASSUME UNCHANGED vars PROVE Needed(c)'
    BY <1>7 DEF vars, manager, Needed, is_token_expired
  <1> QED BY <1>1, <1>2, <1>3, <1>4, <1>5, <1>6, <1>7 DEF Next, Step

\* A caller that waited while another one refreshed never sends a second grant for a
\* token that is still outside its refresh window.
THEOREM NoNeedlessGrantHolds == Spec => NoNeedlessGrant
  <1>1. Init => LockInv /\ \A c \in Tasks : Needed(c)
    BY DEF Init, LockInv, Needed, Locked
  <1>2. (\A c \in Tasks : Needed(c)) =>
            [\A c \in Tasks :
                pc[c] = "discover" /\ pc'[c] = "post" /\ access.n > 0 => is_token_expired]_vars
    BY DEF Needed
  <1> QED BY <1>1, <1>2, LockInvStep, NeededStep, TypeCorrect, PTL DEF Spec, NoNeedlessGrant

\* What ChainInv says of one task.
TaskInv(c) ==
    /\ pc[c] = "apply" => job[c].answer.kind = "ok"
    /\ pc[c] \in {"post", "answered", "apply"} => Known(job[c].sent)
    /\ pc[c] = "post" \/ (pc[c] = "answered" /\ job[c].answer.kind = "retry")
            => ~Spent(job[c].sent)
    /\ Carries(c) =>
            /\ job[c].answer.refresh # NoToken /\ job[c].answer.refresh \notin used
            /\ Known(job[c].answer.refresh)
            /\ job[c].answer.refresh.family = job[c].sent.family
            /\ job[c].answer.access.family = job[c].answer.refresh.family

\* What the provider has seen was handed out before, and the manager's refresh token
\* is spent only while its successor is carried by a task; a task never sends a spent
\* token; what a task carries is a fresh pair of the family it sent.
ChainInv ==
    /\ \A t \in used : Known(t)
    /\ Known(refresh)
    /\ Spent(refresh) => \E c \in Tasks : Carries(c) /\ job[c].sent.family = refresh.family
    /\ \A c \in Tasks : TaskInv(c)

\* A step of task c that leaves the manager and the provider's tokens alone: what has
\* to be shown of c alone.
LEMMA ChainFrame ==
    ASSUME ChainInv, NEW c \in Tasks,
           \A d \in Tasks \ {c} : pc'[d] = pc[d] /\ job'[d] = job[d],
           UNCHANGED <<used, issued, login, refresh>>,
           orphaned \subseteq orphaned',
           Carries(c) => \/ job[c].sent.family \in orphaned'
                         \/ Carries(c)' /\ job'[c].sent = job[c].sent,
           TaskInv(c)'
    PROVE  ChainInv'
  <1>1. (\A t \in used : Known(t))' /\ Known(refresh)'
    BY DEF ChainInv, Known
  <1>2. Spent(refresh)' => \E d \in Tasks : Carries(d)' /\ job'[d].sent.family = refresh'.family
    <2> SUFFICES ASSUME Spent(refresh)'
                 PROVE  \E d \in Tasks : Carries(d)' /\ job'[d].sent.family = refresh'.family
      OBVIOUS
    <2>1. Spent(refresh) /\ refresh'.family \notin orphaned' /\ refresh' = refresh
      BY DEF Spent
    <2>2. PICK d \in Tasks : Carries(d) /\ job[d].sent.family = refresh.family
      BY <2>1 DEF ChainInv
    <2>3. d # c => Carries(d)'
      BY <2>2 DEF Carries
    <2> QED BY <2>1, <2>2, <2>3
  <1>3. ASSUME NEW d \in Tasks, d # c PROVE TaskInv(d)'
    <2>1. TaskInv(d) /\ pc'[d] = pc[d] /\ job'[d] = job[d]
      BY <1>3 DEF ChainInv
    <2> QED BY <2>1 DEF TaskInv, Known, Spent, Carries
  <1> QED BY <1>1, <1>2, <1>3 DEF ChainInv

\* While task c is between acquire and release, no other task sends or carries anything.
LEMMA OnlyHolder ==
    ASSUME LockInv, NEW c \in Tasks, pc[c] \in Locked, NEW d \in Tasks, d # c
    PROVE  pc[d] \notin {"post", "answered", "apply"} /\ ~Carries(d)
  BY DEF LockInv, Locked, Carries

\* The provider exchanges the newest token of the family: its successor is unused and
\* is carried by the task, or the family counts as orphaned.
LEMMA GrantStep ==
    ASSUME TypeOK, LockInv, ChainInv, Rotation, NEW c \in Tasks, NEW life \in Lifetimes,
           pc[c] = "post", Grant(c, life), UNCHANGED <<login, manager>>
    PROVE  ChainInv'
  <1> DEFINE s == job[c].sent
             f == s.family
             n == issued[f] + 1
             new == [kind |-> "ok", access |-> Token(f, n), life |-> life,
                     refresh |-> IF Rotation THEN Token(f, n) ELSE NoToken]
             lost == [NoAnswer EXCEPT !.kind = "retry"]
  <1>1. /\ f \in Families /\ s \notin used
        /\ issued' = [issued EXCEPT ![f] = n] /\ used' = used \cup {s}
        /\ \/ Answered(c, new) /\ UNCHANGED orphaned
           \/ Answered(c, lost) /\ orphaned' = orphaned \cup {f}
    BY DEF Grant
  <1>2. /\ s \in Tokens /\ s # NoToken /\ Known(s) /\ f <= login /\ s.n <= issued[f] /\ f # 0
        /\ issued[f] \in Nat /\ login' = login /\ refresh' = refresh
    <2>1. s \in Tokens \cup {NoToken}
      BY DEF TypeOK, Jobs
    <2>2. f # 0 /\ s # NoToken
      BY <1>1, ManagerAssumption DEF NoToken
    <2>3. Known(s)
      BY DEF ChainInv, TaskInv
    <2> QED BY <1>1, <2>1, <2>2, <2>3, ManagerAssumption DEF Known, TypeOK, manager
  <1>3. \A g \in Families : issued'[g] \in Nat /\ issued[g] <= issued'[g]
    BY <1>1, <1>2, ManagerAssumption DEF TypeOK
  <1>4. \A t \in Tokens : t.family <= login /\ t.n <= issued[t.family]
                => t.family <= login' /\ t.n <= issued'[t.family]
    <2> TAKE t \in Tokens
    <2>1. t.family \in Families /\ t.n \in Nat
      BY ManagerAssumption DEF Tokens
    <2>2. issued[t.family] \in Nat /\ issued'[t.family] \in Nat /\ issued[t.family] <= issued'[t.family]
      <3>1. issued \in [Families -> 0..MaxSerial] /\ MaxSerial \in Nat
        BY ManagerAssumption DEF TypeOK
      <3>2. issued[t.family] \in Nat
        BY <2>1, <3>1
      <3> QED BY <1>3, <2>1, <3>2
    <2> QED BY <1>2, <2>1, <2>2
  <1>5. PICK a \in {new, lost} :
          /\ pc'[c] = "answered" /\ job'[c].answer = a /\ job'[c].sent = s
          /\ \A d \in Tasks \ {c} : pc'[d] = pc[d] /\ job'[d] = job[d]
          /\ a = new => UNCHANGED orphaned
          /\ a # new => a = lost /\ orphaned' = orphaned \cup {f}
    <2>1. new.kind = "ok" /\ lost.kind = "retry"
      BY DEF NoAnswer
    <2> QED BY <1>1, <2>1, AnsweredFields
  <1>6. \A d \in Tasks \ {c} : pc[d] \notin {"post", "answered", "apply"} /\ ~Carries(d)
    BY OnlyHolder DEF Locked
  <1>7. (\A t \in used : Known(t))'
    <2>1. \A t \in used : t \in Tokens /\ Known(t)
      BY DEF ChainInv, TypeOK
    <2> QED BY <1>1, <1>2, <1>4, <2>1 DEF Known
  <1>8. Known(refresh)'
    BY <1>2, <1>4 DEF ChainInv, TypeOK, Known
  <1>9. ~Spent(refresh)
    <2>1. ~Carries(c)
      BY DEF Carries
    <2> QED BY <1>6, <2>1 DEF ChainInv
  <1>10. CASE a = new
    <2>1. Carries(c)'
      BY <1>5, <1>10 DEF Carries
    <2>2. Spent(refresh)' => refresh = s
      BY <1>1, <1>2, <1>5, <1>9, <1>10 DEF Spent
    <2>3. a.refresh = Token(f, n) /\ a.access = Token(f, n) /\ a.kind = "ok"
      BY <1>10
    <2>4. Token(f, n).family = f /\ Token(f, n).n = n /\ Token(f, n) # NoToken
      BY <1>2 DEF Token, NoToken
    <2>5. Token(f, n) \notin used'
      <3>1. \A t \in used : t.family = f => t.n <= issued[f]
        <4>1. \A t \in used : Known(t) /\ t # NoToken
          BY NoTokenNone DEF ChainInv, TypeOK
        <4> QED BY <4>1 DEF Known
      <3>2. \A t \in used : t.family = f => t.n \in Nat
        BY ManagerAssumption DEF TypeOK, Tokens
      <3>3. s.n \in Nat
        BY <1>2, ManagerAssumption DEF Tokens
      <3> QED BY <1>1, <1>2, <2>4, <3>1, <3>2, <3>3
    <2>6. f <= login' /\ n <= issued'[f]
      BY <1>1, <1>2 DEF TypeOK
    <2>7. TaskInv(c)'
      <3>1. Known(job[c].answer.refresh)'
        BY <1>5, <2>3, <2>4, <2>6 DEF Known
      <3>2. Known(job[c].sent)'
        BY <1>2, <1>4, <1>5 DEF Known
      <3>3. /\ job'[c].answer.refresh # NoToken /\ job'[c].answer.refresh \notin used'
            /\ job'[c].answer.refresh.family = job'[c].sent.family
            /\ job'[c].answer.access.family = job'[c].answer.refresh.family
        BY <1>5, <2>3, <2>4, <2>5
      <3>4. pc'[c] = "answered" /\ job'[c].answer.kind = "ok"
        BY <1>5, <2>3
      <3> QED BY <3>1, <3>2, <3>3, <3>4 DEF TaskInv
    <2>8. \A d \in Tasks \ {c} : TaskInv(d)'
      BY <1>5, <1>6 DEF TaskInv, Carries
    <2>9. Spent(refresh)' => Carries(c)' /\ job'[c].sent.family = refresh'.family
      BY <1>2, <1>5, <2>1, <2>2
    <2> QED BY <1>7, <1>8, <2>7, <2>8, <2>9 DEF ChainInv
  <1>11. CASE a # new
    <2>1. a.kind = "retry" /\ orphaned' = orphaned \cup {f}
      BY <1>5, <1>11 DEF NoAnswer
    <2>2. ~Spent(refresh)'
      BY <1>1, <1>2, <1>9, <2>1 DEF Spent
    <2>3. TaskInv(c)'
      <3>1. Known(job[c].sent)'
        BY <1>2, <1>4, <1>5 DEF Known
      <3>2. ~Spent(job[c].sent)'
        BY <1>5, <2>1 DEF Spent
      <3>3. pc'[c] = "answered" /\ job'[c].answer.kind = "retry"
        BY <1>5, <2>1
      <3> QED BY <3>1, <3>2, <3>3 DEF TaskInv, Carries
    <2>4. \A d \in Tasks \ {c} : TaskInv(d)'
      BY <1>5, <1>6 DEF TaskInv, Carries
    <2> QED BY <1>7, <1>8, <2>2, <2>3, <2>4 DEF ChainInv
  <1> QED BY <1>10, <1>11

\* What PairConsistent says of a provider that rotates.
Paired == refresh # NoToken => access.family = refresh.family

\* Rotation keeps the chain of every family: with the provider rotating, every step
\* preserves ChainInv, the consistency of the pair and the survival of the families.
LEMMA ChainStep ==
    ASSUME TypeOK, SentInv, LockInv, ChainInv, Rotation,
           Paired, FamilyIntact, [Next]_vars
    PROVE  ChainInv' /\ Paired' /\ FamilyIntact'
  <1>c. \A c \in Tasks : TaskInv(c)
    BY DEF ChainInv
  \* Steps of a task that neither send, carry nor receive anything.
  <1>q. ASSUME NEW c \in Tasks, NEW l, GoTo(c, l), l \notin {"post", "answered", "apply"},
               \A d \in Tasks \ {c} : job'[d] = job[d],
               UNCHANGED <<login, manager, used, issued, revoked>>,
               \/ UNCHANGED orphaned /\ ~Carries(c)
               \/ /\ orphaned \subseteq orphaned'
                  /\ Carries(c) => job[c].sent.family \in orphaned'
        PROVE  ChainInv' /\ Paired' /\ FamilyIntact'
    <2>1. TaskInv(c)'
      BY <1>q, GoToFields DEF TaskInv, Carries
    <2>2. ChainInv'
      BY <1>q, <2>1, GoToFields, ChainFrame DEF manager
    <2> QED BY <1>q, <2>2 DEF manager, FamilyIntact, Paired
  <1>1. ASSUME NEW life \in Lifetimes, Login(life)
        PROVE  ChainInv' /\ Paired' /\ FamilyIntact'
    <2> DEFINE t1 == Token(login + 1, 0)
    <2>1. /\ access' = t1 /\ refresh' \in {t1, NoToken} /\ login' = login + 1 /\ login + 1 \in Families
          /\ UNCHANGED <<pc, job, used, issued, revoked, orphaned>>
      BY <1>1 DEF Login, set_tokens, provider
    <2>2. t1.family = login + 1 /\ t1.n = 0
      BY DEF Token
    <2>3. login \in Nat /\ issued[login + 1] \in Nat
      BY <2>1, ManagerAssumption DEF TypeOK
    <2>4. \A t \in Tokens \cup {NoToken} : t.family \in Nat
      <3>1. NoToken.family \in Nat
        BY DEF NoToken
      <3>2. \A t \in Tokens : t.family \in Nat
        BY ManagerAssumption DEF Tokens
      <3> QED BY <3>1, <3>2
    <2>5. \A t \in Tokens \cup {NoToken} : Known(t) => Known(t)'
      BY <2>1, <2>3, <2>4 DEF Known
    <2>6. Known(refresh)'
      BY <2>1, <2>2, <2>3 DEF Known
    <2>00. NoToken \notin used
      BY NoTokenNone DEF TypeOK
    <2>7. t1 \notin used
      <3>1. \A t \in used : Known(t) /\ t # NoToken /\ t \in Tokens
        BY NoTokenNone DEF ChainInv, TypeOK
      <3> QED BY <2>2, <2>3, <2>4, <3>1 DEF Known
    <2>8. (\A t \in used : Known(t))' /\ ~Spent(refresh)'
      BY <2>00, <2>1, <2>5, <2>7 DEF ChainInv, TypeOK, Spent
    <2>9. ASSUME NEW c \in Tasks PROVE TaskInv(c)'
      <3>1. job[c].sent \in Tokens \cup {NoToken} /\ job[c].answer.refresh \in Tokens \cup {NoToken}
        BY DEF TypeOK, Jobs, Answers
      <3>2. TaskInv(c)
        BY <1>c
      <3>3. /\ Known(job[c].sent) => Known(job[c].sent)'
            /\ Known(job[c].answer.refresh) => Known(job[c].answer.refresh)'
        BY <2>1, <2>3, <2>4, <3>1 DEF Known
      <3> QED BY <2>1, <3>2, <3>3 DEF TaskInv, Carries, Spent
    <2> QED BY <2>1, <2>6, <2>8, <2>9 DEF ChainInv, FamilyIntact, Paired
  <1>2. ASSUME NEW c \in Tasks, Begin(c) \/ Check(c) \/ Acquire(c) \/ Recheck(c) \/ Return(c)
        PROVE  ChainInv' /\ Paired' /\ FamilyIntact'
    <2>1. PICK l \in {"check", "returned", "wait", "locked", "discover", "idle"} : GoTo(c, l)
      BY <1>2 DEF Begin, Check, Acquire, Recheck, Return, Ends
    <2>2. UNCHANGED <<login, manager, used, issued, revoked, orphaned>> /\ ~Carries(c)
      BY <1>2 DEF Begin, Check, Acquire, Recheck, Return, provider, Carries
    <2>3. \A d \in Tasks \ {c} : job'[d] = job[d]
      BY <1>2, EndsFields DEF Begin, Check, Acquire, Recheck, Return, TypeOK
    <2> QED BY <1>q, <2>1, <2>2, <2>3
  <1>3. ASSUME NEW c \in Tasks, _resolve_token_endpoint(c)
        PROVE  ChainInv' /\ Paired' /\ FamilyIntact'
    <2>1. UNCHANGED <<login, manager, used, issued, revoked, orphaned>> /\ ~Carries(c)
          /\ pc[c] = "discover"
      BY <1>3 DEF _resolve_token_endpoint, provider, Carries
    <2>2. CASE Ends(c, "failed")
      BY <1>q, <2>1, <2>2, EndsFields DEF Ends
    <2>3. CASE job' = [job EXCEPT ![c] = [@ EXCEPT !.sent = refresh]] /\ GoTo(c, "post")
      <3>1. job'[c].sent = refresh /\ \A d \in Tasks \ {c} : job'[d] = job[d]
        BY <2>3 DEF TypeOK, Jobs
      <3>2. ~Spent(refresh)
        <4>1. \A d \in Tasks : ~Carries(d)
          BY <2>1, OnlyHolder DEF Locked
        <4> QED BY <4>1 DEF ChainInv
      <3>3. pc'[c] = "post" /\ \A d \in Tasks \ {c} : pc'[d] = pc[d]
        BY <2>3, GoToFields
      <3>4. TaskInv(c)'
        <4>1. Known(job[c].sent)' /\ ~Spent(job[c].sent)'
          BY <2>1, <3>1, <3>2 DEF Known, Spent, ChainInv
        <4> QED BY <3>3, <4>1 DEF TaskInv, Carries
      <3>5. ChainInv'
        BY <2>1, <3>1, <3>3, <3>4, ChainFrame DEF manager
      <3> QED BY <2>1, <3>5 DEF manager, FamilyIntact, Paired
    <2> QED BY <1>3, <2>2, <2>3 DEF _resolve_token_endpoint
  <1>4. ASSUME NEW c \in Tasks, Post(c)
        PROVE  ChainInv' /\ Paired' /\ FamilyIntact'
    <2>1. pc[c] = "post" /\ UNCHANGED <<now, login, manager, lock>> /\ ~Carries(c)
      BY <1>4 DEF Post, Carries
    <2>2. CASE \E life \in Lifetimes : Grant(c, life)
      <3>1. PICK life \in Lifetimes : Grant(c, life)
        BY <2>2
      <3>2. UNCHANGED revoked /\ orphaned \subseteq orphaned'
        BY <3>1 DEF Grant
      <3>3. ChainInv'
        BY <2>1, <3>1, GrantStep
      <3> QED BY <2>1, <3>2, <3>3 DEF manager, FamilyIntact, Paired
    \* Nothing is exchanged: the request is refused, or fails.
    <2>3. ASSUME NEW k \in {"retry", "refused"}, Answered(c, [NoAnswer EXCEPT !.kind = k]),
                 UNCHANGED <<used, issued, orphaned>>
          PROVE  ChainInv' /\ Paired'
      <3>1. [NoAnswer EXCEPT !.kind = k].kind = k
        BY DEF NoAnswer
      <3>2. /\ pc'[c] = "answered" /\ job'[c].answer.kind = k /\ job'[c].sent = job[c].sent
            /\ \A d \in Tasks \ {c} : pc'[d] = pc[d] /\ job'[d] = job[d]
        <4> DEFINE a == [NoAnswer EXCEPT !.kind = k]
        <4>1. Answered(c, a) /\ a.kind = k
          BY <2>3, <3>1
        <4> HIDE DEF a
        <4> QED BY <4>1, AnsweredFields
      <3>3. TaskInv(c)'
        <4>1. Known(job[c].sent) /\ ~Spent(job[c].sent)
          BY <1>c, <2>1 DEF TaskInv
        <4>2. Known(job[c].sent)' /\ ~Spent(job[c].sent)'
          BY <2>1, <2>3, <3>2, <4>1 DEF Known, Spent
        <4> QED BY <3>2, <4>2 DEF TaskInv, Carries
      <3>4. ChainInv'
        BY <2>1, <2>3, <3>2, <3>3, ChainFrame DEF manager
      <3> QED BY <2>1, <3>4 DEF manager, Paired
    <2>4. CASE Refuse(c)
      <3>1. revoked' \subseteq revoked \cup {job[c].sent.family} /\ UNCHANGED orphaned
            /\ (job[c].sent \notin used => revoked' = revoked)
        BY <2>4 DEF Refuse
      <3>2. ~Spent(job[c].sent)
        BY <1>c, <2>1 DEF TaskInv
      <3>3. FamilyIntact'
        BY <3>1, <3>2 DEF FamilyIntact, Spent
      <3> QED BY <2>3, <2>4, <3>3 DEF Refuse
    <2>5. CASE Answered(c, [NoAnswer EXCEPT !.kind = "retry"]) /\ UNCHANGED provider
      BY <2>3, <2>5 DEF provider, FamilyIntact
    <2> QED BY <1>4, <2>2, <2>4, <2>5 DEF Post
  <1>5. ASSUME NEW c \in Tasks, Retry(c)
        PROVE  ChainInv' /\ Paired' /\ FamilyIntact'
    <2>1. /\ UNCHANGED <<login, manager, used, issued, revoked, orphaned>>
          /\ pc[c] = "answered" /\ job[c].answer.kind = "retry" /\ ~Carries(c)
      BY <1>5 DEF Retry, ShouldRetry, provider, Carries
    <2>2. job'[c].sent = job[c].sent /\ \A d \in Tasks \ {c} : job'[d] = job[d]
      BY <1>5 DEF Retry, TypeOK, Jobs
    <2>3. pc'[c] = "post" /\ \A d \in Tasks \ {c} : pc'[d] = pc[d]
      BY <1>5, GoToFields DEF Retry
    <2>4. TaskInv(c)'
      <3>1. Known(job[c].sent) /\ ~Spent(job[c].sent)
        BY <1>c, <2>1 DEF TaskInv
      <3>2. Known(job[c].sent)' /\ ~Spent(job[c].sent)'
        BY <2>1, <2>2, <3>1 DEF Known, Spent
      <3> QED BY <2>3, <3>2 DEF TaskInv, Carries
    <2>5. ChainInv'
      BY <2>1, <2>2, <2>3, <2>4, ChainFrame DEF manager
    <2> QED BY <2>1, <2>5 DEF manager, FamilyIntact, Paired
  <1>6. ASSUME NEW c \in Tasks, Process(c)
        PROVE  ChainInv' /\ Paired' /\ FamilyIntact'
    <2>1. UNCHANGED <<login, manager, used, issued, revoked, orphaned>> /\ pc[c] = "answered"
      BY <1>6 DEF Process, provider
    <2>2. CASE job[c].answer.kind = "ok"
      <3>1. GoTo(c, "apply") /\ UNCHANGED job
        BY <1>6, <2>2 DEF Process
      <3>2. pc'[c] = "apply" /\ \A d \in Tasks \ {c} : pc'[d] = pc[d]
        BY <3>1, GoToFields
      <3>3. Carries(c) /\ Carries(c)'
        BY <2>1, <2>2, <3>1, <3>2 DEF Carries
      <3>4. TaskInv(c)'
        <4>1. TaskInv(c)
          BY <1>c
        <4>2. /\ Known(job[c].sent) /\ Known(job[c].answer.refresh)
              /\ job[c].answer.refresh # NoToken /\ job[c].answer.refresh \notin used
              /\ job[c].answer.refresh.family = job[c].sent.family
              /\ job[c].answer.access.family = job[c].answer.refresh.family
          BY <2>1, <3>3, <4>1 DEF TaskInv
        <4>3. Known(job[c].sent)' /\ Known(job[c].answer.refresh)'
          BY <2>1, <3>1, <4>2 DEF Known
        <4> QED BY <2>1, <2>2, <3>1, <3>2, <4>2, <4>3 DEF TaskInv
      <3>5. ChainInv'
        BY <2>1, <3>1, <3>2, <3>3, <3>4, ChainFrame DEF manager
      <3> QED BY <2>1, <3>5 DEF manager, FamilyIntact, Paired
    <2>3. CASE job[c].answer.kind # "ok"
      <3>1. Ends(c, "failed") /\ ~Carries(c)
        BY <1>6, <2>3 DEF Process, Carries
      <3> QED BY <1>q, <2>1, <3>1, EndsFields DEF Ends
    <2> QED BY <2>2, <2>3
  <1>7. ASSUME NEW c \in Tasks, Apply(c)
        PROVE  ChainInv' /\ Paired' /\ FamilyIntact'
    <2> DEFINE a == job[c].answer
    <2>1. /\ pc[c] = "apply" /\ Ends(c, "token")
          /\ UNCHANGED <<login, used, issued, revoked, orphaned>>
          /\ access' = a.access /\ (a.refresh # NoToken => refresh' = a.refresh)
      BY <1>7 DEF Apply, set_tokens, provider
    <2>2. /\ a.refresh # NoToken /\ a.refresh \notin used /\ Known(a.refresh)
          /\ a.access.family = a.refresh.family
      BY <1>c, <2>1 DEF TaskInv, Carries
    <2>3. refresh' = a.refresh
      BY <2>1, <2>2
    <2>4. (\A t \in used : Known(t))' /\ Known(refresh)' /\ ~Spent(refresh)'
      BY <2>1, <2>2, <2>3 DEF ChainInv, Known, Spent
    <2>5. \A d \in Tasks : TaskInv(d)'
      <3>1. pc'[c] = "returned" /\ \A d \in Tasks \ {c} : pc'[d] = pc[d] /\ job'[d] = job[d]
        BY <2>1, EndsFields
      <3>2. \A d \in Tasks \ {c} : pc[d] \notin {"post", "answered", "apply"}
        BY <2>1, OnlyHolder DEF Locked
      <3> QED BY <3>1, <3>2 DEF TaskInv, Carries
    <2> QED BY <2>1, <2>2, <2>3, <2>4, <2>5 DEF ChainInv, FamilyIntact, Paired
  <1>8. ASSUME NEW c \in Tasks, Cancel(c)
        PROVE  ChainInv' /\ Paired' /\ FamilyIntact'
    <2>1. /\ Ends(c, "cancelled") /\ UNCHANGED <<login, manager, used, issued, revoked>>
          /\ orphaned \subseteq orphaned'
          /\ job[c].answer.kind = "ok" => job[c].sent.family \in orphaned'
      BY <1>8 DEF Cancel
    <2> QED BY <1>q, <2>1, EndsFields DEF Ends, Carries
  <1>9. ASSUME Tick \/ UNCHANGED vars
        PROVE  ChainInv' /\ Paired' /\ FamilyIntact'
    <2>1. UNCHANGED <<login, access, refresh, used, issued, revoked, orphaned, pc, job>>
      BY <1>9 DEF Tick, vars, manager, provider
    <2> QED BY <2>1 DEF ChainInv, TaskInv, Known, Spent, Carries, FamilyIntact, Paired
  <1> QED BY <1>1, <1>2, <1>3, <1>4, <1>5, <1>6, <1>7, <1>8, <1>9 DEF Next, Step

\* What rotation preserves, and that a provider without rotation revokes nothing.
RotationInv ==
    /\ ~Rotation => revoked = {}
    /\ Rotation => ChainInv /\ Paired /\ FamilyIntact

\* Every step keeps the chain of rotated tokens, or the absence of rotation.
LEMMA RotationStep ==
    TypeOK /\ SentInv /\ LockInv /\ RotationInv /\ [Next]_vars => RotationInv'
  <1> SUFFICES ASSUME TypeOK, SentInv, LockInv, RotationInv, [Next]_vars PROVE RotationInv'
    OBVIOUS
  <1>1. CASE Rotation
    BY <1>1, ChainStep DEF RotationInv
  <1>2. CASE ~Rotation
    <2>1. ASSUME NEW c \in Tasks, Post(c) PROVE revoked' = revoked
      BY <1>2, <2>1 DEF Post, Grant, Refuse, provider
    <2>2. revoked' = revoked
      BY <2>1 DEF Next, Step, Login, Begin, Check, Acquire, Recheck, _resolve_token_endpoint,
         Retry, Process, Apply, Cancel, Return, Tick, vars, provider
    <2> QED BY <1>2, <2>2 DEF RotationInv
  <1> QED BY <1>1, <1>2

\* The chain of rotated tokens holds throughout.
LEMMA RotationInvariant == Spec => []RotationInv
  <1>1. Init => TypeOK /\ SentInv /\ LockInv
    BY NoJobType, ManagerAssumption
    DEF Init, TypeOK, Labels, SentInv, Early, NoJob, NoAnswer, LockInv, Locked
  <1>2. Init => RotationInv
    BY DEF Init, RotationInv, ChainInv, TaskInv, Carries, Known, Spent, FamilyIntact, Paired, NoToken
  <1> QED BY <1>1, <1>2, TypeStep, SentStep, LockInvStep, RotationStep, PTL DEF Spec

\* With any number of concurrent callers, retries and logins during a refresh, the
\* provider revokes a family only after the rotated token of one of its grants was
\* lost, with the answer or with the task that waited for it.
THEOREM FamilyIntactHolds == Spec => []FamilyIntact
  <1>1. RotationInv => FamilyIntact
    BY DEF RotationInv, FamilyIntact
  <1> QED BY <1>1, RotationInvariant, PTL

\* With a provider that rotates, the refresh token that the manager holds, if any, is
\* always of the same login as its access token.
THEOREM PairConsistentHolds == Spec => []PairConsistent
  <1>1. RotationInv => PairConsistent
    BY DEF RotationInv, PairConsistent, Paired
  <1> QED BY <1>1, RotationInvariant, PTL
=============================================================================
