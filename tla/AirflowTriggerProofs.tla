------------------------- MODULE AirflowTriggerProofs -------------------------
(***************************************************************************)
(* Proofs about the calls of AirflowTrigger: what they leave in Airflow    *)
(* and what they make of a token that has expired.                         *)
(***************************************************************************)
EXTENDS AirflowTrigger, TLAPS

USE DEF vars, bucketVars, callVars, runVars

Stage == {"none", "token", "post"} \cup Ended

LEMMA EndType ==
    ASSUME TypeOK, NEW c \in Call, NEW how \in Stage, End(c, how)
    PROVE  at' \in [Call -> Stage]
  BY DEF TypeOK, End, Stage

LEMMA TypeStep == TypeOK /\ [Next]_vars => TypeOK'
  <1> SUFFICES ASSUME TypeOK, [Next]_vars PROVE TypeOK'
    OBVIOUS
  <1> USE TriggerAssumption
  <1>0. {NoToken, epoch} \subseteq 0 .. MaxEpoch + 1 /\ 1 \in 1 .. TokenAttempts
    BY DEF TypeOK, NoToken
  <1>1. ASSUME NEW objects \in SUBSET Object, Land(objects) PROVE TypeOK'
    BY <1>1 DEF Land, TypeOK
  <1>2. ASSUME NEW n \in notified, DropNotification(n) PROVE TypeOK'
    BY <1>2 DEF DropNotification, TypeOK
  <1>3. ASSUME NEW n \in notified, NEW c \in Call, HandleEvent(c, n) PROVE TypeOK'
    BY <1>3 DEF HandleEvent, TypeOK, Ended
  <1>4. ASSUME NEW c \in Call, PressButton(c) PROVE TypeOK'
    BY <1>4 DEF PressButton, TypeOK, Ended
  <1>5. ASSUME NEW c \in Call, FetchToken(c) PROVE TypeOK'
    <2>1. at' \in [Call -> Stage]
      BY <1>5, EndType DEF FetchToken, TypeOK, Stage, Ended
    <2>2. token' \in [Call -> 0 .. MaxEpoch + 1]
      BY <1>0, <1>5 DEF FetchToken, TypeOK
    <2>3. attempt' \in [Call -> 1 .. TokenAttempts]
      <3>1. attempt[c] < TokenAttempts => attempt[c] + 1 \in 1 .. TokenAttempts
        BY DEF TypeOK
      <3> QED BY <1>5, <3>1 DEF FetchToken, TypeOK
    <2> QED BY <1>5, <2>1, <2>2, <2>3 DEF FetchToken, TypeOK, Stage
  <1>6. ASSUME NEW c \in Call, Post(c), Accepted(c) PROVE TypeOK'
    <2>1. at' \in [Call -> Stage]
      BY <1>6, EndType DEF Accepted, Stage, Ended
    <2>2. created' \in [Call -> Nat] /\ queue' \in Seq(Call)
      BY <1>6 DEF Accepted, TypeOK
    <2> QED BY <1>6, <2>1, <2>2 DEF Post, Accepted, TypeOK, Stage
  <1>7. ASSUME NEW c \in Call, Post(c), Rejected(c) PROVE TypeOK'
    <2>1. at' \in [Call -> Stage]
      BY <1>7, EndType DEF Rejected, Stage, Ended
    <2>2. token' \in [Call -> 0 .. MaxEpoch + 1] /\ attempt' \in [Call -> 1 .. TokenAttempts]
      BY <1>0, <1>7 DEF Rejected, TypeOK
    <2>3. retried' \in [Call -> BOOLEAN]
      BY <1>7 DEF Rejected, TypeOK
    <2> QED BY <1>7, <2>1, <2>2, <2>3 DEF Post, Rejected, TypeOK, Stage
  <1>8. ASSUME NEW c \in Call, Post(c), Refused(c) PROVE TypeOK'
    BY <1>8 DEF Post, Refused, End, TypeOK, Ended
  <1>9. CASE RotateSecret
    BY <1>9 DEF RotateSecret, TypeOK
  <1>10. CASE StartRun
    BY <1>10 DEF StartRun, TypeOK
  <1>11. ASSUME NEW value \in BOOLEAN, SetPaused(value) PROVE TypeOK'
    BY <1>11 DEF SetPaused, TypeOK
  <1>12. CASE UNCHANGED vars
    BY <1>12 DEF TypeOK
  <1> QED BY <1>1, <1>2, <1>3, <1>4, <1>5, <1>6, <1>7, <1>8, <1>9, <1>10, <1>11, <1>12
          DEF Next, CallStep, Post

LEMMA TypeInit == Init => TypeOK
  <1> SUFFICES ASSUME Init PROVE TypeOK
    OBVIOUS
  <1>1. at \in [Call -> {"none", "token", "post"} \cup Ended]
    BY DEF Init
  <1>2. permitted \in BOOLEAN
    BY DEF Init
  <1>3. /\ epoch \in 1 .. MaxEpoch + 1
        /\ token \in [Call -> 0 .. MaxEpoch + 1]
        /\ attempt \in [Call -> 1 .. TokenAttempts]
        /\ since \in [Call -> 0 .. MaxEpoch + 1]
        /\ created \in [Call -> Nat]
    BY TriggerAssumption DEF Init, NoToken
  <1>4. queue \in Seq(Call)
    BY DEF Init
  <1>5. paused \in BOOLEAN /\ retried \in [Call -> BOOLEAN]
    BY DEF Init
  <1> QED BY <1>1, <1>2, <1>3, <1>4, <1>5 DEF Init, TypeOK

\* Type correctness, for any objects, calls and numbers of attempts: the attempts
\* at a token never exceed TOKEN_RETRY_ATTEMPTS.
THEOREM TypeCorrect == Spec => []TypeOK
  <1> QED BY TypeInit, TypeStep, PTL DEF Spec

-----------------------------------------------------------------------------
\* A call that has not been answered has created nothing.
Unanswered ==
    \A c \in Call :
        /\ created[c] <= 1
        /\ at[c] = "triggered" => created[c] = 1
        /\ at[c] \in {"none", "token", "post", "unauthorised"} => created[c] = 0

\* The secret has changed once when the request is repeated, and the token in hand
\* is at least as young as that.
Expiry ==
    \A c \in Call :
        /\ since[c] <= epoch
        /\ at[c] = "none" => ~retried[c]
        /\ permitted /\ retried[c] => since[c] + 1 <= epoch
        /\ at[c] = "post" => since[c] <= token[c] /\ token[c] <= epoch
        /\ at[c] = "post" /\ permitted /\ retried[c] => since[c] + 1 <= token[c]
        /\ at[c] = "unauthorised" /\ permitted => since[c] + 2 <= epoch

CallInv == TypeOK /\ Unanswered /\ Expiry

\* The steps of one call leave the others alone.
LEMMA UnansweredStep == CallInv /\ [Next]_vars => Unanswered'
  <1> SUFFICES ASSUME CallInv, [Next]_vars PROVE Unanswered'
    OBVIOUS
  <1>0. UNCHANGED <<at, created>> => Unanswered'
    BY DEF CallInv, Unanswered
  <1>1. ASSUME NEW objects \in SUBSET Object, Land(objects) PROVE Unanswered'
    BY <1>1, <1>0 DEF Land
  <1>2. ASSUME NEW n \in notified, DropNotification(n) PROVE Unanswered'
    BY <1>2, <1>0 DEF DropNotification
  <1>3. ASSUME NEW n \in notified, NEW c \in Call, HandleEvent(c, n) PROVE Unanswered'
    BY <1>3 DEF HandleEvent, CallInv, Unanswered, TypeOK
  <1>4. ASSUME NEW c \in Call, PressButton(c) PROVE Unanswered'
    BY <1>4 DEF PressButton, CallInv, Unanswered, TypeOK
  <1>5. ASSUME NEW c \in Call, FetchToken(c) PROVE Unanswered'
    BY <1>5 DEF FetchToken, End, CallInv, Unanswered, TypeOK
  <1>6. ASSUME NEW c \in Call, Post(c), Accepted(c) PROVE Unanswered'
    BY <1>6 DEF Post, Accepted, End, CallInv, Unanswered, TypeOK
  <1>7. ASSUME NEW c \in Call, Post(c), Rejected(c) PROVE Unanswered'
    BY <1>7 DEF Post, Rejected, End, CallInv, Unanswered, TypeOK
  <1>8. ASSUME NEW c \in Call, Post(c), Refused(c) PROVE Unanswered'
    BY <1>8 DEF Post, Refused, End, CallInv, Unanswered, TypeOK
  <1>9. CASE RotateSecret \/ StartRun \/ UNCHANGED vars
    BY <1>9, <1>0 DEF RotateSecret, StartRun
  <1>10. ASSUME NEW value \in BOOLEAN, SetPaused(value) PROVE Unanswered'
    BY <1>10, <1>0 DEF SetPaused
  <1> QED BY <1>1, <1>2, <1>3, <1>4, <1>5, <1>6, <1>7, <1>8, <1>9, <1>10
          DEF Next, CallStep, Post

LEMMA ExpiryStep == CallInv /\ [Next]_vars => Expiry'
  <1> SUFFICES ASSUME CallInv, [Next]_vars PROVE Expiry'
    OBVIOUS
  <1>0. UNCHANGED <<epoch, at, token, retried, since, permitted>> => Expiry'
    BY DEF CallInv, Expiry
  <1>1. ASSUME NEW objects \in SUBSET Object, Land(objects) PROVE Expiry'
    BY <1>1, <1>0 DEF Land
  <1>2. ASSUME NEW n \in notified, DropNotification(n) PROVE Expiry'
    BY <1>2, <1>0 DEF DropNotification
  <1>3. ASSUME NEW n \in notified, NEW c \in Call, HandleEvent(c, n) PROVE Expiry'
    BY <1>3 DEF HandleEvent, CallInv, Expiry, TypeOK
  <1>4. ASSUME NEW c \in Call, PressButton(c) PROVE Expiry'
    BY <1>4 DEF PressButton, CallInv, Expiry, TypeOK
  <1>5. ASSUME NEW c \in Call, FetchToken(c) PROVE Expiry'
    BY <1>5 DEF FetchToken, End, CallInv, Expiry, TypeOK
  <1>6. ASSUME NEW c \in Call, Post(c), Accepted(c) PROVE Expiry'
    BY <1>6 DEF Post, Accepted, End, CallInv, Expiry, TypeOK
  <1>7. ASSUME NEW c \in Call, Post(c), Rejected(c) PROVE Expiry'
    BY <1>7, TriggerAssumption DEF Post, Rejected, Rejects, End, CallInv, Expiry, TypeOK
  <1>8. ASSUME NEW c \in Call, Post(c), Refused(c) PROVE Expiry'
    BY <1>8 DEF Post, Refused, End, CallInv, Expiry, TypeOK
  <1>9. CASE RotateSecret
    BY <1>9, TriggerAssumption DEF RotateSecret, CallInv, Expiry, TypeOK
  <1>10. CASE StartRun \/ UNCHANGED vars
    BY <1>10, <1>0 DEF StartRun
  <1>11. ASSUME NEW value \in BOOLEAN, SetPaused(value) PROVE Expiry'
    BY <1>11, <1>0 DEF SetPaused
  <1> QED BY <1>1, <1>2, <1>3, <1>4, <1>5, <1>6, <1>7, <1>8, <1>9, <1>10, <1>11
          DEF Next, CallStep, Post

LEMMA CallInductive == Spec => []CallInv
  <1>1. Init => CallInv
    <2>1. Init => Unanswered
      BY DEF Init, Unanswered
    <2>2. Init => Expiry
      BY DEF Init, Expiry
    <2> QED BY <2>1, <2>2, TypeInit DEF CallInv
  <1>2. CallInv /\ [Next]_vars => CallInv'
    BY TypeStep, UnansweredStep, ExpiryStep DEF CallInv
  <1> QED BY <1>1, <1>2, PTL DEF Spec

\* A call leaves at most one run behind, one if it reports it, none if it was
\* refused: a request whose answer is lost is never repeated.
THEOREM OneRun == Spec => []OneRunPerCall
  <1>1. CallInv => OneRunPerCall
    BY DEF CallInv, Unanswered, OneRunPerCall
  <1> QED BY <1>1, CallInductive, PTL

\* With an account that may trigger the DAG, a call ends as unauthorised only if
\* Airflow's secret has changed twice since it began (_request's one retry).
THEOREM ExpiryStaysHidden == Spec => []ExpiryIsHidden
  <1>1. CallInv => ExpiryIsHidden
    BY DEF CallInv, Expiry, ExpiryIsHidden, TypeOK
  <1> QED BY <1>1, CallInductive, PTL
-----------------------------------------------------------------------------
(***************************************************************************)
(* How long a call can take.                                               *)
(***************************************************************************)

\* The requests a call may yet make: the attempts it has left at a token, the
\* request itself, and both once more if it has not been repeated; its beginning counts
\* for one more.
RequestsLeft(c) ==
    LET again == IF retried[c] THEN 0 ELSE TokenAttempts + 1
    IN  CASE at[c] = "none"  -> 2 * (TokenAttempts + 1) + 1
          [] at[c] = "token" -> TokenAttempts - attempt[c] + 2 + again
          [] at[c] = "post"  -> 1 + again
          [] OTHER           -> 0

\* Every step of a call leaves it fewer requests, and no other step leaves it more.
CallsDescend ==
    [][\A c \in Call :
        /\ CallStep(c) => RequestsLeft(c)' < RequestsLeft(c)
        /\ RequestsLeft(c)' <= RequestsLeft(c)]_vars

RequestsBounded ==
    \A c \in Call : RequestsLeft(c) \in Nat /\ RequestsLeft(c) <= 2 * (TokenAttempts + 1) + 1

LEMMA RequestsType == TypeOK => RequestsBounded
  <1> SUFFICES ASSUME TypeOK, NEW c \in Call
               PROVE  /\ RequestsLeft(c) \in Nat
                      /\ RequestsLeft(c) <= 2 * (TokenAttempts + 1) + 1
    BY DEF RequestsBounded
  <1>1. TokenAttempts \in Nat \ {0} /\ attempt[c] \in 1 .. TokenAttempts
    BY TriggerAssumption DEF TypeOK
  <1> QED BY <1>1 DEF RequestsLeft

\* What one call does to its requests; the others keep theirs.
LEMMA StepDescends ==
    ASSUME TypeOK, NEW c \in Call, CallStep(c)
    PROVE  /\ RequestsLeft(c)' < RequestsLeft(c)
           /\ \A d \in Call \ {c} : RequestsLeft(d)' = RequestsLeft(d)
  <1> DEFINE again == IF retried[c] THEN 0 ELSE TokenAttempts + 1
  <1>1. TokenAttempts \in Nat \ {0} /\ attempt[c] \in 1 .. TokenAttempts /\ again \in Nat
    BY TriggerAssumption DEF TypeOK
  <1>2. ASSUME NEW d \in Call \ {c}, at'[d] = at[d], attempt'[d] = attempt[d],
               retried'[d] = retried[d]
        PROVE  RequestsLeft(d)' = RequestsLeft(d)
    BY <1>2 DEF RequestsLeft
  <1>3. \A d \in Call \ {c} :
          at'[d] = at[d] /\ attempt'[d] = attempt[d] /\ retried'[d] = retried[d]
    BY DEF CallStep, FetchToken, Post, Accepted, Rejected, Refused, End, TypeOK
  <1> SUFFICES RequestsLeft(c)' < RequestsLeft(c)
    BY <1>2, <1>3
  <1>4. CASE at[c] = "token"
    <2>1. retried'[c] = retried[c]
      BY <1>4 DEF CallStep, FetchToken, Post
    <2>2. RequestsLeft(c) = TokenAttempts - attempt[c] + 2 + again
      BY <1>4 DEF RequestsLeft
    <2>3. CASE at'[c] = "post"
      <3>1. RequestsLeft(c)' = 1 + again
        BY <2>1, <2>3 DEF RequestsLeft
      <3> HIDE DEF again
      <3> QED BY <1>1, <2>2, <3>1
    <2>4. CASE at'[c] = "token" /\ attempt'[c] = attempt[c] + 1 /\ attempt[c] < TokenAttempts
      <3>1. RequestsLeft(c)' = TokenAttempts - (attempt[c] + 1) + 2 + again
        BY <2>1, <2>4 DEF RequestsLeft
      <3> HIDE DEF again
      <3> QED BY <1>1, <2>2, <2>4, <3>1
    <2>5. CASE at'[c] = "failed"
      <3>1. RequestsLeft(c)' = 0
        BY <2>5 DEF RequestsLeft
      <3> HIDE DEF again
      <3> QED BY <1>1, <2>2, <3>1
    <2> QED BY <1>4, <2>3, <2>4, <2>5 DEF CallStep, FetchToken, Post, End, TypeOK
  <1>5. CASE at[c] = "post"
    <2>1. RequestsLeft(c) = 1 + again
      BY <1>5 DEF RequestsLeft
    <2>2. CASE at'[c] \in Ended
      <3>1. RequestsLeft(c)' = 0
        BY <2>2 DEF RequestsLeft, Ended
      <3> HIDE DEF again
      <3> QED BY <1>1, <2>1, <3>1
    <2>3. CASE at'[c] = "token" /\ attempt'[c] = 1 /\ ~retried[c] /\ retried'[c]
      <3>1. RequestsLeft(c)' = TokenAttempts - 1 + 2 + 0 /\ again = TokenAttempts + 1
        BY <2>3 DEF RequestsLeft
      <3> HIDE DEF again
      <3> QED BY <1>1, <2>1, <3>1
    <2> QED BY <1>5, <2>2, <2>3
            DEF CallStep, FetchToken, Post, Accepted, Rejected, Refused, End, Ended, TypeOK
  <1>6. at[c] \in {"token", "post"}
    BY DEF CallStep, FetchToken, Post
  <1> QED BY <1>4, <1>5, <1>6

\* No sequence of rejections and server errors keeps a call going (CallsEnd, without
\* the fairness that makes its requests time out): _fetch_token and _request make it
\* 2 * (TOKEN_RETRY_ATTEMPTS + 1) requests at most, whatever Airflow answers.
THEOREM CallsComeCloser == Spec => CallsDescend
  <1>1. ASSUME TypeOK, RequestsBounded, RequestsBounded', [Next]_vars, NEW c \in Call
        PROVE  /\ CallStep(c) => RequestsLeft(c)' < RequestsLeft(c)
               /\ RequestsLeft(c)' <= RequestsLeft(c)
    <2>0. RequestsLeft(c) \in Nat /\ (CallStep(c) => RequestsLeft(c)' < RequestsLeft(c))
      BY <1>1, StepDescends DEF RequestsBounded
    <2>1. RequestsLeft(c)' \in Nat /\ RequestsLeft(c)' <= 2 * (TokenAttempts + 1) + 1
      BY <1>1 DEF RequestsBounded
    <2>2. CASE \E d \in Call : CallStep(d)
      <3>1. PICK d \in Call : CallStep(d)
        BY <2>2
      <3>2. CASE d = c
        BY <2>0, <2>1, <3>1, <3>2
      <3>3. CASE d # c
        BY <1>1, <2>0, <3>1, <3>3, StepDescends
      <3> QED BY <3>2, <3>3
    <2>3. ASSUME NEW d \in Call, PressButton(d) \/ \E n \in notified : HandleEvent(d, n)
          PROVE  RequestsLeft(c)' <= RequestsLeft(c)
      <3>1. CASE d = c
        <4>1. at[c] = "none"
          BY <2>3, <3>1 DEF PressButton, HandleEvent
        <4>2. RequestsLeft(c) = 2 * (TokenAttempts + 1) + 1
          BY <4>1 DEF RequestsLeft
        <4> QED BY <2>1, <4>2
      <3>2. CASE d # c
        <4>1. at'[c] = at[c] /\ attempt'[c] = attempt[c] /\ retried'[c] = retried[c]
          BY <1>1, <2>3, <3>2 DEF PressButton, HandleEvent, TypeOK
        <4> QED BY <2>0, <4>1 DEF RequestsLeft
      <3> QED BY <3>1, <3>2
    <2>4. CASE UNCHANGED <<at, attempt, retried>>
      BY <2>0, <2>4 DEF RequestsLeft
    <2> QED BY <1>1, <2>0, <2>2, <2>3, <2>4
            DEF Next, Land, DropNotification, RotateSecret, StartRun, SetPaused
  <1>2. TypeOK /\ RequestsBounded /\ RequestsBounded' /\ [Next]_vars =>
          [\A c \in Call :
              /\ CallStep(c) => RequestsLeft(c)' < RequestsLeft(c)
              /\ RequestsLeft(c)' <= RequestsLeft(c)]_vars
    BY <1>1
  <1> QED BY <1>2, TypeCorrect, RequestsType, PTL DEF Spec, CallsDescend
=============================================================================
