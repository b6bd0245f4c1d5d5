---------------------------- MODULE AirflowTrigger ----------------------------
(***************************************************************************)
(* Two of the three ways to start the DAG: a bucket event, through the     *)
(* listener, and the button of Job Management.  Both make one call of      *)
(* AirflowClient.trigger_dag_run, which fetches a token, posts, and may    *)
(* have to do both once more.  Airflow and MinIO are modelled by what they *)
(* may answer.                                                             *)
(***************************************************************************)
EXTENDS Naturals, Sequences, FiniteSets

CONSTANTS
    Object,          \* keys under the landing-zone prefix
    EventCall,       \* calls the listener makes
    ButtonCall,      \* calls Job Management makes
    TokenAttempts,   \* TOKEN_RETRY_ATTEMPTS
    MaxEpoch         \* bound on the changes of Airflow's signing secret

Call == EventCall \cup ButtonCall

ASSUME TriggerAssumption ==
    /\ EventCall \cap ButtonCall = {}
    /\ TokenAttempts \in Nat \ {0}
    /\ MaxEpoch \in Nat

VARIABLES
    landed,     \* the objects in the bucket
    notified,   \* notifications under way: each the objects it reports
    epoch,      \* the secret Airflow signs and checks tokens with
    at,         \* per call: what it does next, or how it ended
    token,      \* per call: the epoch of the client's JWT
    attempt,    \* per call: the attempt at a token, from 1
    retried,    \* per call: whether the request was repeated already
    since,      \* per call: the epoch it began in
    reports,    \* per call: the objects of the notification it answers
    created,    \* per call: the DAG runs Airflow created for it
    queue,      \* the calls whose runs are queued
    seen,       \* objects that were in the bucket when some run started
    paused,     \* whether the DAG is paused
    permitted   \* whether the app's Airflow account may trigger the DAG

bucketVars == <<landed, notified>>
runVars    == <<queue, seen, paused, permitted>>
callVars   == <<token, attempt, retried, since, reports>>
vars == <<landed, notified, epoch, at, token, attempt, retried, since, reports,
          created, queue, seen, paused, permitted>>

Ended == {"triggered", "failed", "unauthorised"}

NoToken == 0

TypeOK ==
    /\ landed \subseteq Object
    /\ notified \subseteq SUBSET Object
    /\ epoch \in 1 .. MaxEpoch + 1
    /\ at \in [Call -> {"none", "token", "post"} \cup Ended]
    /\ token \in [Call -> 0 .. MaxEpoch + 1]
    /\ attempt \in [Call -> 1 .. TokenAttempts]
    /\ retried \in [Call -> BOOLEAN]
    /\ since \in [Call -> 0 .. MaxEpoch + 1]
    /\ reports \in [Call -> SUBSET Object]
    /\ created \in [Call -> Nat]
    /\ queue \in Seq(Call)
    /\ seen \subseteq Object
    /\ paused \in BOOLEAN
    /\ permitted \in BOOLEAN

Init ==
    /\ landed = {} /\ notified = {}
    /\ epoch = 1
    /\ at = [c \in Call |-> "none"]
    /\ token = [c \in Call |-> NoToken]
    /\ attempt = [c \in Call |-> 1]
    /\ retried = [c \in Call |-> FALSE]
    /\ since = [c \in Call |-> 0]
    /\ reports = [c \in Call |-> {}]
    /\ created = [c \in Call |-> 0]
    /\ queue = << >> /\ seen = {} /\ paused = FALSE
    /\ permitted \in BOOLEAN

-----------------------------------------------------------------------------
\* The bucket, and MinIO, which sends a notification once: no queue directory
\* is configured for the webhook.

Land(objects) ==
    /\ objects # {} /\ objects \cap landed = {}
    /\ landed' = landed \cup objects
    /\ notified' = notified \cup {objects}
    /\ UNCHANGED <<epoch, at, callVars, created, runVars>>

\* Sent while the listener is down, or not of a creation under the prefix.
DropNotification(n) ==
    /\ n \in notified
    /\ notified' = notified \ {n}
    /\ UNCHANGED <<landed, epoch, at, callVars, created, runVars>>

-----------------------------------------------------------------------------
\* The two callers

\* A client of its own per request, without a token yet.  One run is asked for,
\* however many objects the notification reports.
HandleEvent(c, n) ==
    /\ c \in EventCall /\ at[c] = "none"
    /\ n \in notified
    /\ notified' = notified \ {n}
    /\ reports' = [reports EXCEPT ![c] = n]
    /\ since' = [since EXCEPT ![c] = epoch]
    /\ at' = [at EXCEPT ![c] = "token"]
    /\ UNCHANGED <<landed, epoch, token, attempt, retried, created, runVars>>

\* The page has used its client for the health check and the DAG's metadata, so
\* it has a token by the time the button's call is made.
PressButton(c) ==
    /\ c \in ButtonCall /\ at[c] = "none"
    /\ since' = [since EXCEPT ![c] = epoch]
    /\ token' = [token EXCEPT ![c] = epoch]
    /\ at' = [at EXCEPT ![c] = "post"]
    /\ UNCHANGED <<bucketVars, epoch, attempt, retried, reports, created, runVars>>

-----------------------------------------------------------------------------
\* AirflowClient

End(c, how) == at' = [at EXCEPT ![c] = how]

\* A server error is tried again, up to TokenAttempts times; credentials that are
\* refused, an answer without a token and no answer at all are not.
FetchToken(c) ==
    /\ at[c] = "token"
    /\ \/ /\ token' = [token EXCEPT ![c] = epoch]
          /\ End(c, "post")
          /\ UNCHANGED attempt
       \/ /\ attempt[c] < TokenAttempts
          /\ attempt' = [attempt EXCEPT ![c] = @ + 1]
          /\ UNCHANGED <<at, token>>
       \/ /\ End(c, "failed")
          /\ UNCHANGED <<token, attempt>>
    /\ UNCHANGED <<bucketVars, epoch, retried, since, reports, created, runVars>>

\* 401 for a token it did not sign with this secret, 403 without the permission.
Rejects(c) == token[c] # epoch \/ ~permitted

\* Faulty: a lost answer is a reason to send the request once more.
AcceptedOrRepeated(c) ==
    /\ ~Rejects(c)
    /\ created' = [created EXCEPT ![c] = @ + 1]
    /\ queue' = Append(queue, c)
    /\ \/ End(c, "triggered") /\ UNCHANGED retried
       \/ /\ ~retried[c]
          /\ retried' = [retried EXCEPT ![c] = TRUE]
          /\ UNCHANGED at
    /\ UNCHANGED <<token, attempt, since, reports, seen, paused, permitted>>

\* Airflow creates the run; the answer may not arrive within the timeout.
Accepted(c) ==
    /\ ~Rejects(c)
    /\ created' = [created EXCEPT ![c] = @ + 1]
    /\ queue' = Append(queue, c)
    /\ \E how \in {"triggered", "failed"} : End(c, how)
    /\ UNCHANGED <<callVars, seen, paused, permitted>>

\* Faulty: the request is repeated without saying that it is a repetition.
RejectedAgain(c) ==
    /\ Rejects(c)
    /\ token' = [token EXCEPT ![c] = NoToken]
    /\ attempt' = [attempt EXCEPT ![c] = 1]
    /\ End(c, "token")
    /\ UNCHANGED <<retried, since, reports, created, runVars>>

\* Faulty: the repetition goes out with the token that was rejected.
RejectedStale(c) ==
    /\ Rejects(c)
    /\ \/ ~retried[c] /\ retried' = [retried EXCEPT ![c] = TRUE] /\ UNCHANGED at
       \/ retried[c] /\ End(c, "unauthorised") /\ UNCHANGED retried
    /\ UNCHANGED <<token, attempt, since, reports, created, runVars>>

\* 401 or 403: the token is thrown away and the request repeated, once.
Rejected(c) ==
    /\ Rejects(c)
    /\ \/ /\ ~retried[c]
          /\ retried' = [retried EXCEPT ![c] = TRUE]
          /\ token' = [token EXCEPT ![c] = NoToken]
          /\ attempt' = [attempt EXCEPT ![c] = 1]
          /\ End(c, "token")
       \/ /\ retried[c]
          /\ End(c, "unauthorised")
          /\ UNCHANGED <<retried, token, attempt>>
    /\ UNCHANGED <<since, reports, created, runVars>>

\* Any other error, or Airflow out of reach.
Refused(c) == End(c, "failed") /\ UNCHANGED <<callVars, created, runVars>>

Post(c) ==
    /\ at[c] = "post"
    /\ Accepted(c) \/ Rejected(c) \/ Refused(c)
    /\ UNCHANGED <<bucketVars, epoch>>

-----------------------------------------------------------------------------
\* Airflow

\* A restart with another secret: every token issued before is rejected.
RotateSecret ==
    /\ epoch <= MaxEpoch
    /\ epoch' = epoch + 1
    /\ UNCHANGED <<bucketVars, at, callVars, created, runVars>>

\* Faulty: a run works from the source_object of its conf.
StartRunOnSourceObject ==
    /\ queue # << >> /\ ~paused
    /\ queue' = Tail(queue)
    /\ \/ \E o \in reports[Head(queue)] : seen' = seen \cup {o}
       \/ reports[Head(queue)] = {} /\ UNCHANGED seen
    /\ UNCHANGED <<bucketVars, epoch, at, callVars, created, paused, permitted>>

\* A run scans the bucket, whatever its conf says of an object.
StartRun ==
    /\ queue # << >> /\ ~paused
    /\ queue' = Tail(queue)
    /\ seen' = seen \cup landed
    /\ UNCHANGED <<bucketVars, epoch, at, callVars, created, paused, permitted>>

SetPaused(value) ==
    /\ paused # value
    /\ paused' = value
    /\ UNCHANGED <<bucketVars, epoch, at, callVars, created, queue, seen, permitted>>

CallStep(c) == FetchToken(c) \/ Post(c)

Next ==
    \/ \E objects \in SUBSET Object : Land(objects)
    \/ \E n \in notified : DropNotification(n) \/ \E c \in Call : HandleEvent(c, n)
    \/ \E c \in Call : PressButton(c) \/ CallStep(c)
    \/ RotateSecret \/ StartRun
    \/ \E value \in BOOLEAN : SetPaused(value)

Spec == Init /\ [][Next]_vars

\* A call is straight-line code whose requests time out; the scheduler starts
\* what is queued.
FairSpec == Spec /\ WF_vars(StartRun) /\ \A c \in Call : WF_vars(CallStep(c))

-----------------------------------------------------------------------------
\* A call leaves at most one run behind, exactly one when it reports it, and none
\* when it reports that it was refused: only a rejection is a reason to repeat it.
OneRunPerCall ==
    \A c \in Call :
        /\ created[c] <= 1
        /\ at[c] = "triggered" => created[c] = 1
        /\ at[c] \in {"none", "token", "unauthorised"} => created[c] = 0

\* "An expired JWT must not surface to the user as a failure"
\* (test_airflow_client.py): with an account that may trigger the DAG, a call ends as
\* unauthorised only if the secret has changed twice since it began.
ExpiryIsHidden ==
    \A c \in Call : permitted /\ at[c] = "unauthorised" => epoch >= since[c] + 2

\* No sequence of rejections and server errors keeps a call going.
CallsEnd == \A c \in Call : at[c] \in {"token", "post"} ~> at[c] \in Ended

\* A notification the listener answers with "triggered" leads to a run that starts
\* when all the objects it reports are in the bucket, unless the DAG stays paused.
ReportedIsSeen ==
    <>[]~paused =>
        \A c \in EventCall : at[c] = "triggered" ~> reports[c] \subseteq seen
=============================================================================
