------------------------------ MODULE MailJobs ------------------------------
(***************************************************************************)
(* The administrator's mail to many users (handler/http/                   *)
(* admin_bulk_email.go).  A job is kept in memory and worked off by a      *)
(* goroutine of its own: either on a list of recipients made when the job  *)
(* is created, or on all users who match a search, read page by page while *)
(* users come and go.                                                      *)
(***************************************************************************)
EXTENDS Integers, FiniteSets, Sequences, SequencesExt

CONSTANTS
    LastUser,     \* users have the ids 1..LastUser
    Unmailable,   \* users whose address is not one
    PageSize,     \* users read at a time
    BatchSize,    \* mails sent between two pauses
    MaxTries,     \* times a mail is tried
    MaxMoves      \* bound on how often users come and go

ASSUME MailAssumption ==
    /\ {LastUser, PageSize, BatchSize, MaxTries} \subseteq Nat \ {0}
    /\ MaxMoves \in Nat
    /\ Unmailable \subseteq 1..LastUser

VARIABLES
    matching,  \* the users who match the search
    mailJob,   \* the job
    mailed,    \* history: user |-> how often the job's mail reached him
    faithful,  \* history: no mail was delivered and reported as failed
    audience,  \* history: the users who matched when the job was created
    shrunk,    \* history: a user stopped to match during the job
    moves      \* how often users came or went

mailVars == <<matching, mailJob, mailed, faithful, audience, shrunk, moves>>

MailUsers == 1..LastUser

(* A job: what it reports (state to failures) and what its goroutine keeps *)
(* on its stack.  step: what the goroutine does next.                      *)
MailJob ==
    [state: {"queued", "running", "finished", "failed"},
     total: Nat, sent: Nat, failures: Seq(MailUsers),
     step: {"start", "list", "collect", "send", "end", "over"},
     all: BOOLEAN, listing: BOOLEAN, offset: Nat, page: SUBSET MailUsers, seen: SUBSET MailUsers,
     queue: Seq(MailUsers), attempt: 1..MaxTries]

NoMailJob == [state |-> "none"]

NewMailJob(all, recipients) ==
    [state |-> "queued", total |-> Len(recipients), sent |-> 0, failures |-> <<>>,
     step |-> "start", all |-> all, listing |-> all, offset |-> 0, page |-> {},
     seen |-> ToSet(recipients), queue |-> recipients, attempt |-> 1]

MailTypeOK ==
    /\ matching \subseteq MailUsers
    /\ mailJob \in MailJob \cup {NoMailJob}
    /\ mailed \in [MailUsers -> Nat]
    /\ faithful \in BOOLEAN
    /\ audience \subseteq MailUsers
    /\ shrunk \in BOOLEAN
    /\ moves \in 0..MaxMoves

MailInit ==
    /\ matching \in SUBSET MailUsers
    /\ mailJob = NoMailJob
    /\ mailed = [u \in MailUsers |-> 0]
    /\ faithful = TRUE
    /\ audience = {}
    /\ shrunk = FALSE
    /\ moves = 0

-----------------------------------------------------------------------------
CreateMailJob(all, recipients) ==
    /\ mailJob = NoMailJob
    /\ mailJob' = NewMailJob(all, recipients)
    /\ mailed' = [u \in MailUsers |-> 0]
    /\ faithful' = TRUE
    /\ audience' = matching
    /\ shrunk' = FALSE
    /\ UNCHANGED <<matching, moves>>

(* Each address once, in the order of its first mention; users without one *)
(* are left out.                                                           *)
NormalizeEmails(given) ==
    LET Add(list, u) == IF u \in Unmailable \cup ToSet(list) THEN list ELSE Append(list, u)
    IN  FoldLeft(Add, <<>>, given)

(* A list with an address that is none is refused. *)
CreateLegacyJob(given) ==
    /\ given # <<>>
    /\ ToSet(given) \cap Unmailable = {}
    /\ CreateMailJob(FALSE, NormalizeEmails(given))

(* A list with a user who is not there, or without any address, is refused. *)
CreateJobForUsers(given) ==
    /\ NormalizeEmails(given) # <<>>
    /\ CreateMailJob(FALSE, NormalizeEmails(given))

CreateJobForAll == CreateMailJob(TRUE, <<>>)

-----------------------------------------------------------------------------
MailUnchanged == UNCHANGED <<matching, mailed, faithful, audience, shrunk, moves>>

Continue(step, job) == mailJob' = [job EXCEPT !.step = step]

StartMailJob ==
    /\ mailJob # NoMailJob
    /\ mailJob.step = "start"
    /\ Continue(IF mailJob.all THEN "list" ELSE "send", [mailJob EXCEPT !.state = "running"])
    /\ MailUnchanged

(* The place of a user among those who match, in the order of their ids. *)
Place(u) == Cardinality({v \in matching : v <= u})

PageAt(offset) == {u \in matching : Place(u) \in offset + 1 .. offset + PageSize}

(* The next page, counted from the offset.  An error ends the listing, and *)
(* what is queued is still sent.                                           *)
ListUsers ==
    /\ mailJob # NoMailJob
    /\ mailJob.step = "list"
    /\ \/ LET page == PageAt(mailJob.offset)
          IN  Continue(IF page = {} THEN "send" ELSE "collect",
                       [mailJob EXCEPT !.page = page, !.offset = @ + PageSize,
                                       !.listing = page # {}])
       \/ Continue("send", [mailJob EXCEPT !.state = "failed", !.listing = FALSE])
    /\ MailUnchanged

(* Mutant: a user on two pages is taken twice. *)
CollectAgain ==
    /\ mailJob # NoMailJob
    /\ mailJob.step = "collect"
    /\ LET u == Min(mailJob.page)
           rest == mailJob.page \ {u}
           queue == IF u \in Unmailable THEN mailJob.queue ELSE Append(mailJob.queue, u)
       IN  Continue(IF Len(queue) >= BatchSize THEN "send"
                    ELSE IF rest = {} THEN "list" ELSE "collect",
                    [mailJob EXCEPT !.page = rest, !.queue = queue, !.seen = @ \cup {u},
                                    !.total = @ + Len(queue) - Len(mailJob.queue)])
    /\ MailUnchanged

(* The next user of the page is queued, if he was not seen on another one. *)
CollectUser ==
    /\ mailJob # NoMailJob
    /\ mailJob.step = "collect"
    /\ LET u == Min(mailJob.page)
           rest == mailJob.page \ {u}
           new == IF u \in Unmailable \cup mailJob.seen THEN <<>> ELSE <<u>>
           queue == mailJob.queue \o new
       IN  Continue(IF Len(queue) >= BatchSize THEN "send"
                    ELSE IF rest = {} THEN "list" ELSE "collect",
                    [mailJob EXCEPT !.page = rest, !.queue = queue,
                                    !.seen = @ \cup ToSet(new), !.total = @ + Len(new)])
    /\ MailUnchanged

(* The job after the first mail of its queue was sent or given up. *)
Handled(job) == [job EXCEPT !.queue = Tail(@), !.attempt = 1]

(* Once more after a complaint about the rate, up to MaxTries times;    *)
(* any other error is final.  The server may report an error of a mail it  *)
(* delivered.                                                              *)
SendWithRetry ==
    /\ mailJob # NoMailJob
    /\ mailJob.step = "send"
    /\ mailJob.queue # <<>>
    /\ LET to == Head(mailJob.queue)
       IN  \E answer \in {"sent", "rate", "error"}, delivered \in BOOLEAN :
             /\ answer = "sent" => delivered
             /\ mailJob' =
                  IF answer = "sent" THEN [Handled(mailJob) EXCEPT !.sent = @ + 1]
                  ELSE IF answer = "rate" /\ mailJob.attempt < MaxTries
                  THEN [mailJob EXCEPT !.attempt = @ + 1]
                  ELSE [Handled(mailJob) EXCEPT !.failures = Append(@, to)]
             /\ mailed' = IF delivered THEN [mailed EXCEPT ![to] = @ + 1] ELSE mailed
             /\ faithful' = (faithful /\ (delivered => answer = "sent"))
    /\ UNCHANGED <<matching, audience, shrunk, moves>>

(* The queue is empty: the rest of the page, the next page, or the end. *)
BatchSent ==
    /\ mailJob # NoMailJob
    /\ mailJob.step = "send"
    /\ mailJob.queue = <<>>
    /\ Continue(IF mailJob.page # {} THEN "collect"
                ELSE IF mailJob.listing THEN "list" ELSE "end", mailJob)
    /\ MailUnchanged

EndMailJob ==
    /\ mailJob # NoMailJob
    /\ mailJob.step = "end"
    /\ Continue("over",
                [mailJob EXCEPT !.state =
                   IF @ = "failed" \/ (mailJob.failures # <<>> /\ mailJob.sent = 0)
                   THEN "failed" ELSE "finished"])
    /\ MailUnchanged

-----------------------------------------------------------------------------
(* Users sign up and are deleted, start to match the search and stop. *)
UserComes(u) ==
    /\ moves < MaxMoves
    /\ u \notin matching
    /\ matching' = matching \cup {u}
    /\ moves' = moves + 1
    /\ UNCHANGED <<mailJob, mailed, faithful, audience, shrunk>>

UserGoes(u) ==
    /\ moves < MaxMoves
    /\ u \in matching
    /\ matching' = matching \ {u}
    /\ shrunk' = TRUE
    /\ moves' = moves + 1
    /\ UNCHANGED <<mailJob, mailed, faithful, audience>>

(* Jobs live in memory only. *)
RestartMail ==
    /\ mailJob' = NoMailJob
    /\ MailUnchanged

MailWork ==
    StartMailJob \/ ListUsers \/ CollectUser \/ SendWithRetry \/ BatchSent \/ EndMailJob

MailNext ==
    \/ \E given \in BoundedSeq(MailUsers, 2) : CreateLegacyJob(given) \/ CreateJobForUsers(given)
    \/ CreateJobForAll
    \/ MailWork
    \/ \E u \in MailUsers : UserComes(u) \/ UserGoes(u)
    \/ RestartMail

(* The goroutine of a job runs while the server does. *)
MailFairness == WF_mailVars(MailWork)

MailSpec == MailInit /\ [][MailNext]_mailVars /\ MailFairness

-----------------------------------------------------------------------------
Reached == {u \in MailUsers : mailed[u] > 0}

(* A job reports every recipient once, as sent, as failed or as still to   *)
(* come, and when no delivery was mistaken for a failure, it reached those *)
(* it reports as sent, each once, though users who begin to match shift    *)
(* others to the next page (admin_bulk_email.go:539).                      *)
MailedOnce ==
    mailJob # NoMailJob =>
        /\ mailJob.total = mailJob.sent + Len(mailJob.failures) + Len(mailJob.queue)
        /\ faithful => /\ \A u \in MailUsers : mailed[u] <= 1
                       /\ Cardinality(Reached) = mailJob.sent
                       /\ Reached \cap ToSet(mailJob.failures) = {}

(* A finished job to all users looked at everyone who matched when it was  *)
(* created, unless a user stopped to match meanwhile: the pages are        *)
(* counted from the first user, so those behind him move up, and one can   *)
(* be passed over (admin_bulk_email.go:515).                               *)
NobodySkipped ==
    mailJob # NoMailJob =>
        (mailJob.all /\ mailJob.state = "finished" /\ ~shrunk
         => audience \ Unmailable \subseteq mailJob.seen)

(* A job that was created ends, unless the server restarts. *)
MailJobEnds ==
    mailJob # NoMailJob ~> (mailJob = NoMailJob \/ mailJob.step = "over")
=============================================================================
