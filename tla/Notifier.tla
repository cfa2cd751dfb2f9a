------------------------------- MODULE Notifier -------------------------------
(***************************************************************************)
(* The Telegram notifier (internal/notifications/telegram.go): one loop     *)
(* takes events from the subscription and, once a minute, looks whether the *)
(* daily digest is due.  A send blocks the loop and may take until its      *)
(* timeout; the message may arrive although the answer is lost.  What the   *)
(* notifier knows is in memory, and a restart of the process forgets it.    *)
(***************************************************************************)
EXTENDS Throttle, Sequences, FiniteSets, FiniteSetsExt

CONSTANTS
    Messages,   \* messages on the subscribed channels: [channel, action]
    InboxCap,   \* capacity of the subscription
    DayLength,  \* units in a day
    DigestHour, \* the unit of the day the digest is due from
    MaxDay,     \* bound: last day
    MaxRestarts, \* bound: restarts of the process
    None

ASSUME DayAssumption ==
    MaxDay \in Nat /\ DayLength \in Nat /\ DigestHour \in 0 .. DayLength - 1

VARIABLES
    time,       \* unit of the day
    day,        \* the UTC date
    running,    \* does Run's loop still run?
    inbox,      \* messages the subscription holds
    job,        \* what the loop is sending, or None
    looked,     \* has the digest ticker been served in this unit?
    lastDigest, \* lastDigestDate, or None
    copies,     \* history: day -> digests of that date that reached the chat
    lost,       \* history: day -> answers lost to digests of that date
    restarts,   \* history: day -> restarts on that date
    excused     \* history: days whose digest was refused, failed or came too late

notifierVars ==
    <<time, day, running, inbox, job, looked, lastDigest, copies, lost, restarts, excused>>

Days == 0 .. MaxDay
Jobs == [kind : {"event", "digest"}, date : Days]

ASSUME NoneAssumption == None \notin Days /\ None \notin Jobs

NotifierInit ==
    /\ ThrottleInit
    /\ time = 0 /\ day = 0 /\ running = TRUE
    /\ inbox = <<>> /\ job = None /\ looked = FALSE /\ lastDigest = None
    /\ copies = [d \in Days |-> 0] /\ lost = [d \in Days |-> 0]
    /\ restarts = [d \in Days |-> 0]
    /\ excused = {}

\* channelToEventType: a lifecycle event that does not say killed is a spawn.
EventType(m) ==
    IF m.channel = "lifecycle" THEN IF m.action = "killed" THEN "agent_killed" ELSE "agent_spawned"
    ELSE m.channel

\* A message of the bus; what does not fit in the subscription is lost.
Arrive(m) ==
    /\ running /\ Len(inbox) < InboxCap
    /\ inbox' = Append(inbox, m)
    /\ UNCHANGED <<throttleVars, time, day, running, job, looked, lastDigest, copies, lost, restarts, excused>>

\* handleEvent: an event that is not admitted is dropped.
HandleEvent ==
    /\ running /\ job = None /\ inbox # <<>>
    /\ LET e == EventType(Head(inbox))
       IN  \/ Refuse(e) /\ UNCHANGED job
           \/ Admit(e) /\ job' = [kind |-> "event", date |-> day]
    /\ inbox' = Tail(inbox)
    /\ UNCHANGED <<time, day, running, looked, lastDigest, copies, lost, restarts, excused>>

\* The subscription is closed, and once it is drained Run returns: the process
\* goes on without notifications.
SubscriptionEnds ==
    /\ running /\ job = None /\ inbox = <<>>
    /\ running' = FALSE
    /\ UNCHANGED <<throttleVars, time, day, inbox, job, looked, lastDigest, copies, lost,
                   restarts, excused>>

DigestDue == lastDigest # day /\ time >= DigestHour

\* maybeFireDigest up to the send: the provider may fail (a notifier without a
\* provider is one whose provider always fails), and the throttle may refuse;
\* the next tick tries again.
LookForDigest ==
    /\ running /\ job = None /\ ~looked
    /\ looked' = TRUE
    /\ \/ /\ ~DigestDue
          /\ UNCHANGED <<throttleVars, job, excused>>
       \/ /\ DigestDue
          /\ \/ UNCHANGED <<throttleVars, job>> /\ excused' = excused \cup {day}
             \/ Refuse("daily_digest") /\ UNCHANGED job /\ excused' = excused \cup {day}
             \/ /\ Admit("daily_digest")
                /\ job' = [kind |-> "digest", date |-> day]
                /\ UNCHANGED excused
    /\ UNCHANGED <<time, day, running, inbox, lastDigest, copies, lost, restarts>>

\* Variant: the date is the one on which the answer comes.
DigestSentLate(date) == lastDigest' = day

\* The digest was sent: its date is remembered.
DigestSent(date) == lastDigest' = date

\* SendMessage succeeds.
SendOK ==
    /\ job # None
    /\ \/ job.kind = "event" /\ UNCHANGED <<lastDigest, copies>>
       \/ /\ job.kind = "digest"
          /\ DigestSent(job.date)
          /\ copies' = [copies EXCEPT ![job.date] = @ + 1]
    /\ job' = None
    /\ UNCHANGED <<throttleVars, time, day, running, inbox, looked, lost, restarts, excused>>

\* SendMessage fails, and the message did not arrive or only its answer is lost.
SendFails ==
    /\ job # None
    /\ \/ job.kind = "event" /\ UNCHANGED <<copies, lost, excused>>
       \/ /\ job.kind = "digest"
          /\ excused' = excused \cup {job.date}
          /\ \/ UNCHANGED <<copies, lost>>
             \/ /\ copies' = [copies EXCEPT ![job.date] = @ + 1]
                /\ lost' = [lost EXCEPT ![job.date] = @ + 1]
    /\ job' = None
    /\ UNCHANGED <<throttleVars, time, day, running, inbox, looked, lastDigest, restarts>>

\* The process starts again, with a full bucket and no memory of the digest.
Restart ==
    /\ MapThenSumSet(LAMBDA d : restarts[d], Days) < MaxRestarts
    /\ level' = Full /\ idle' = 0
    /\ sentAge' = [e \in EventTypes |-> Cooldown]
    /\ admitted' = [a \in 0 .. Hour - 1 |-> 0]
    /\ running' = TRUE
    /\ inbox' = <<>> /\ job' = None /\ looked' = FALSE /\ lastDigest' = None
    /\ \E arrived \in 0 .. 1 :
         IF job # None /\ job.kind = "digest"
         THEN copies' = [copies EXCEPT ![job.date] = @ + arrived]
         ELSE arrived = 0 /\ UNCHANGED copies
    /\ restarts' = [restarts EXCEPT ![day] = @ + 1]
    /\ excused' = excused \cup {day} \cup {d \in Days : job = [kind |-> "digest", date |-> d]}
    /\ UNCHANGED <<time, day, lost>>

\* Time passes.  A loop at its select serves the minute ticker at once; one
\* that is sending is late, and one that has ended looks no more.
NotifierClock ==
    /\ running /\ job = None => looked
    /\ ThrottleClock
    /\ looked' = FALSE
    /\ excused' = IF ~looked /\ DigestDue THEN excused \cup {day} ELSE excused
    /\ \/ time < DayLength - 1 /\ time' = time + 1 /\ UNCHANGED day
       \/ time = DayLength - 1 /\ day < MaxDay /\ time' = 0 /\ day' = day + 1
    /\ UNCHANGED <<running, inbox, job, lastDigest, copies, lost, restarts>>

NotifierNext ==
    \/ \E m \in Messages : Arrive(m)
    \/ HandleEvent \/ SubscriptionEnds \/ LookForDigest \/ SendOK \/ SendFails \/ Restart \/ NotifierClock

-----------------------------------------------------------------------------

\* Whatever the mix of events, digests and failed sends, a process never sends
\* twice the hourly cap within an hour: a full bucket and the refill of less
\* than an hour admit at most 2 * HourlyCap - 1 messages (throttle.go:79-122).
HourlyBound == admitted[Hour - 1] < 2 * HourlyCap

\* The digest of a date reaches the chat once, except for one more copy per
\* answer that was lost and per restart; and a date has no digest only if the
\* provider, the throttle or Telegram refused it, the process was restarted, a
\* send held up the loop or the subscription had ended, and never because the digest of another date was
\* taken for it (telegram.go:202-235).
DigestOncePerDay ==
    /\ \A d \in Days : copies[d] <= 1 + lost[d] + restarts[d]
    /\ \A d \in Days : d < day /\ d \notin excused =>
           copies[d] = 1 \/ (job # None /\ job.kind = "digest" /\ job.date = d)

=============================================================================
