---------------------------- MODULE Announcements ----------------------------
(***************************************************************************)
(* One platform announcement: composed, queued, and fanned out by a worker *)
(* that resolves the recipients afresh and, for each, inserts a delivery   *)
(* row under a unique index, writes the notification, and links the two.   *)
(* The queue hands the job out again when a worker dies or loses its lock, *)
(* so two workers may fan out at once.  A job that throws is gone.         *)
(***************************************************************************)
EXTENDS Naturals, FiniteSets

CONSTANTS
    Tenants,        \* companies
    Admins,         \* their administrators
    TenantOf,       \* administrator -> company
    FanWorkers,     \* workers of the queue
    MaxChanges,     \* suspensions, deactivations and reinstatements
    MaxDeaths,      \* workers that die
    MaxHandouts     \* times the queue hands the job out

ASSUME AnnounceAssumption ==
    /\ TenantOf \in [Admins -> Tenants] /\ Admins \cap Tenants = {}
    /\ MaxChanges \in Nat /\ MaxDeaths \in Nat /\ MaxHandouts \in Nat

VARIABLES
    trading,    \* companies whose status is ACTIVE
    enabled,    \* administrators with isActive
    changes,
    ann,        \* the Announcement document
    rows,       \* AnnouncementDelivery rows: linked to a notification, bare, or a named miss
    notes,      \* PLATFORM_ANNOUNCEMENT notifications by recipient
    fanJob,     \* the queue's job: waiting, active or gone
    handouts, deaths, threw,
    fan         \* what each worker is doing

announceVars == <<trading, enabled, changes, ann, rows, notes, fanJob, handouts, deaths, threw, fan>>

FailureReason == {"COMPANY_SUSPENDED", "ADMIN_DEACTIVATED", "NO_ACTIVE_ADMIN"}
Reached == "none"
Candidate == [to : Admins \cup Tenants, reason : FailureReason \cup {Reached}]
Idle == [pc |-> "idle"]
Nobody == "nobody"

Announcement == [state : {"none", "QUEUED", "COMPLETED"}, intended : Nat, delivered : Nat, failed : Nat]
AnnouncementDelivery == {"none", "bare", "linked"} \cup FailureReason

AnnounceTypeOK ==
    /\ trading \subseteq Tenants /\ enabled \subseteq Admins /\ changes \in 0..MaxChanges
    /\ ann \in Announcement
    /\ rows \in [Admins \cup Tenants -> AnnouncementDelivery]
    /\ notes \in [Admins -> 0..MaxHandouts]
    /\ fanJob \in {"none", "waiting", "active"}
    /\ handouts \in 0..MaxHandouts /\ deaths \in 0..MaxDeaths /\ threw \in BOOLEAN
    /\ \A w \in FanWorkers : fan[w] = Idle \/ fan[w] \in
          [pc : {"next", "notify", "link"}, left : SUBSET Candidate,
           at : Admins \cup Tenants \cup {Nobody}, delivered : Nat, failed : Nat]

AnnounceInit ==
    /\ trading = Tenants /\ enabled = Admins /\ changes = 0
    /\ ann = [state |-> "none", intended |-> 0, delivered |-> 0, failed |-> 0]
    /\ rows = [r \in Admins \cup Tenants |-> "none"] /\ notes = [a \in Admins |-> 0]
    /\ fanJob = "none" /\ handouts = 0 /\ deaths = 0 /\ threw = FALSE
    /\ fan = [w \in FanWorkers |-> Idle]

-----------------------------------------------------------------------------

AdminsOf(t) == {a \in Admins : TenantOf[a] = t}

\* resolveCandidates: everyone addressed, the unreachable with a reason; a company with no
\* administrator to reach has a candidate of its own.
Candidates ==
    {[to |-> a, reason |-> CASE TenantOf[a] \notin trading -> "COMPANY_SUSPENDED"
                             [] TenantOf[a] \in trading /\ a \notin enabled -> "ADMIN_DEACTIVATED"
                             [] OTHER -> Reached] : a \in Admins}
    \cup {[to |-> t, reason |-> "NO_ACTIVE_ADMIN"] :
            t \in {u \in Tenants : IF u \in trading THEN AdminsOf(u) \cap enabled = {} ELSE AdminsOf(u) = {}}}

\* create: the recipients are counted, the announcement is stored and the job queued.
Compose ==
    /\ ann.state = "none"
    /\ ann' = [ann EXCEPT !.state = "QUEUED", !.intended = Cardinality({c \in Candidates : c.reason = Reached})]
    /\ fanJob' = "waiting"
    /\ UNCHANGED <<trading, enabled, changes, rows, notes, handouts, deaths, threw, fan>>

\* A company is suspended or reinstated, an administrator deactivated or reinstated.
Change ==
    /\ changes < MaxChanges /\ changes' = changes + 1
    /\ \/ /\ \E t \in Tenants : trading' = IF t \in trading THEN trading \ {t} ELSE trading \cup {t}
          /\ UNCHANGED enabled
       \/ /\ \E a \in Admins : enabled' = IF a \in enabled THEN enabled \ {a} ELSE enabled \cup {a}
          /\ UNCHANGED trading
    /\ UNCHANGED <<ann, rows, notes, fanJob, handouts, deaths, threw, fan>>

\* fanOut begins: the announcement is loaded and its candidates are resolved again.
FanOut(w) ==
    /\ fan[w] = Idle /\ fanJob = "waiting" /\ handouts < MaxHandouts
    /\ fanJob' = "active" /\ handouts' = handouts + 1
    /\ fan' = [fan EXCEPT ![w] = [pc |-> "next", left |-> Candidates, at |-> Nobody,
                                  delivered |-> 0, failed |-> 0]]
    /\ UNCHANGED <<trading, enabled, changes, ann, rows, notes, deaths, threw>>

\* The notification is written before the row that guards it.
BugDeliverTo(w, c) ==
    /\ fan[w] # Idle /\ fan[w].pc = "next" /\ c \in fan[w].left
    /\ fan' = [fan EXCEPT ![w].left = @ \ {c}, ![w].at = c.to,
                          ![w].pc = IF c.reason = Reached THEN "notify" ELSE "next",
                          ![w].failed = IF c.reason # Reached THEN @ + 1 ELSE @]
    /\ rows' = [rows EXCEPT ![c.to] = IF c.reason = Reached THEN "bare" ELSE c.reason]
    /\ UNCHANGED <<trading, enabled, changes, ann, notes, fanJob, handouts, deaths, threw>>

\* A candidate whose row is already there is counted again.
BugCountSkipped(w, c) ==
    /\ fan[w] # Idle /\ fan[w].pc = "next" /\ c \in fan[w].left
    /\ IF rows[c.to] # "none"
       THEN fan' = [fan EXCEPT ![w].left = @ \ {c}, ![w].delivered = @ + 1] /\ UNCHANGED rows
       ELSE /\ rows' = [rows EXCEPT ![c.to] = IF c.reason = Reached THEN "bare" ELSE c.reason]
            /\ fan' = [fan EXCEPT ![w].left = @ \ {c}, ![w].at = c.to,
                                  ![w].pc = IF c.reason = Reached THEN "notify" ELSE "next",
                                  ![w].failed = IF c.reason # Reached THEN @ + 1 ELSE @]
    /\ UNCHANGED <<trading, enabled, changes, ann, notes, fanJob, handouts, deaths, threw>>

\* deliverTo's insert: a duplicate key means another delivery of the job did this one.
DeliverTo(w, c) ==
    /\ fan[w] # Idle /\ fan[w].pc = "next" /\ c \in fan[w].left
    /\ IF rows[c.to] # "none"
       THEN fan' = [fan EXCEPT ![w].left = @ \ {c}] /\ UNCHANGED rows
       ELSE /\ rows' = [rows EXCEPT ![c.to] = IF c.reason = Reached THEN "bare" ELSE c.reason]
            /\ fan' = [fan EXCEPT ![w].left = @ \ {c}, ![w].at = c.to,
                                  ![w].pc = IF c.reason = Reached THEN "notify" ELSE "next",
                                  ![w].failed = IF c.reason # Reached THEN @ + 1 ELSE @]
    /\ UNCHANGED <<trading, enabled, changes, ann, notes, fanJob, handouts, deaths, threw>>

Notify(w) ==
    /\ fan[w] # Idle /\ fan[w].pc = "notify"
    /\ notes' = [notes EXCEPT ![fan[w].at] = @ + 1]
    /\ fan' = [fan EXCEPT ![w].pc = "link"]
    /\ UNCHANGED <<trading, enabled, changes, ann, rows, fanJob, handouts, deaths, threw>>

\* The notification cannot be written: the row is removed, or cannot be either, and the job
\* throws, which removes it.
NotifyFails(w) ==
    /\ fan[w] # Idle /\ fan[w].pc = "notify"
    /\ rows' \in {rows, [rows EXCEPT ![fan[w].at] = "none"]}
    /\ threw' = TRUE /\ fanJob' = "none"
    /\ fan' = [fan EXCEPT ![w] = Idle]
    /\ UNCHANGED <<trading, enabled, changes, ann, notes, handouts, deaths>>

Link(w) ==
    /\ fan[w] # Idle /\ fan[w].pc = "link"
    /\ rows' = [rows EXCEPT ![fan[w].at] = "linked"]
    /\ fan' = [fan EXCEPT ![w].pc = "next", ![w].delivered = @ + 1]
    /\ UNCHANGED <<trading, enabled, changes, ann, notes, fanJob, handouts, deaths, threw>>

\* The tallies of this delivery are added and the announcement is COMPLETED; the job is done.
Complete(w) ==
    /\ fan[w] # Idle /\ fan[w].pc = "next" /\ fan[w].left = {}
    /\ ann' = [ann EXCEPT !.state = "COMPLETED", !.delivered = @ + fan[w].delivered, !.failed = @ + fan[w].failed]
    /\ fanJob' = "none"
    /\ fan' = [fan EXCEPT ![w] = Idle]
    /\ UNCHANGED <<trading, enabled, changes, rows, notes, handouts, deaths, threw>>

\* A worker dies with its job.
WorkerDies(w) ==
    /\ fan[w] # Idle /\ deaths < MaxDeaths
    /\ fan' = [fan EXCEPT ![w] = Idle] /\ deaths' = deaths + 1
    /\ UNCHANGED <<trading, enabled, changes, ann, rows, notes, fanJob, handouts, threw>>

\* The lock of an active job lapses, its worker dead or merely slow.
HandOutAgain ==
    /\ fanJob = "active" /\ handouts < MaxHandouts
    /\ fanJob' = "waiting"
    /\ UNCHANGED <<trading, enabled, changes, ann, rows, notes, handouts, deaths, threw, fan>>

AnnounceNext ==
    \/ Compose \/ Change \/ HandOutAgain
    \/ \E w \in FanWorkers :
          \/ FanOut(w) \/ Notify(w) \/ NotifyFails(w) \/ Link(w) \/ Complete(w) \/ WorkerDies(w)
          \/ \E c \in Candidate : DeliverTo(w, c)

AnnounceSpec == AnnounceInit /\ [][AnnounceNext]_announceVars
-----------------------------------------------------------------------------

\* However often the job is handed out, nobody gets the announcement twice, and a recipient
\* recorded as missed got none.
AnnouncedOnce ==
    \A a \in Admins : notes[a] <= IF rows[a] \in FailureReason THEN 0 ELSE 1

Notified == {a \in Admins : notes[a] > 0}
Missed == {r \in Admins \cup Tenants : rows[r] \in FailureReason}

\* The tallies the operator reads never claim a delivery or a miss that did not happen, and
\* are exact once every delivery of the job has run to its end.
TallyIsExact ==
    /\ ann.delivered <= Cardinality(Notified) /\ ann.failed <= Cardinality(Missed)
    /\ ann.state = "COMPLETED" /\ deaths = 0 /\ ~threw /\ (\A w \in FanWorkers : fan[w] = Idle)
         => ann.delivered = Cardinality(Notified) /\ ann.failed = Cardinality(Missed)
=============================================================================
