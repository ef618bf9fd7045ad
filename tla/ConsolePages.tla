---------------------------- MODULE ConsolePages ----------------------------
(***************************************************************************)
(* The pages of the web console.  A page is a record of                    *)
(*   asks    the queries it watches while it is on the screen              *)
(*   leads   the routes its links and rows go to                           *)
(*   orders  what its buttons ask of the API, once confirmed               *)
(* and depends on what the screen has: see[k], the answer to query k as a  *)
(* set, empty while there is none; failed[k], whether its last fetch       *)
(* failed, which only the pages of one thing look at; and may, whether the *)
(* session holds the write permissions.  Layout, formatting, charts and    *)
(* the state of tables and dialogs (see Tables) are left out.  The API has *)
(* one queue, and its jobs are pending, processing, delayed or dlq.        *)
(***************************************************************************)
EXTENDS FiniteSets

CONSTANT Job

NoJob == "none"

(* keys *)
Key(query) == [query |-> query, job |-> NoJob]
JobKey(j)  == [query |-> "job", job |-> j]
NoKey      == Key("none")
Query      == {Key(q) : q \in {"stats", "metrics", "queues", "queue", "queueJobs",
                               "workers", "worker", "dlq", "delayed"}}
              \cup {JobKey(j) : j \in Job}

(* The routes, and the order of an operator: op of the API for every id.   *)
Route(page)     == [page |-> page, job |-> NoJob]
JobRoute(j)     == [page |-> "job", job |-> j]
Order(op, ids)  == [op |-> op, ids |-> ids]
TheQueue        == {"queue"}
OnQueue(op)     == Order(op, TheQueue)
Each(op, jobs)  == {Order(op, {j}) : j \in jobs}
Bulk(op)        == {Order(op, ids) : ids \in (SUBSET Job) \ {{}}}

Orders ==
  {OnQueue(op) : op \in {"pauseQueue", "resumeQueue", "purgeQueue", "purgeDlq"}}
  \cup UNION {Bulk(op) : op \in {"retryJob", "requeueJob", "deleteJob", "retryDlq",
                                 "deleteDlq", "promoteDelayed", "cancelDelayed"}}

(* The state the queue's pause button is for. *)
Toggle(rows) ==
  {OnQueue(IF r.status = "paused" THEN "resumeQueue" ELSE "pauseQueue") : r \in rows}
-----------------------------------------------------------------------------
(* The shell around every page: navigation, command palette. *)

NAV == {"overview", "queues", "workers", "delayed", "dlq", "metrics"}
SYS == {"settings", "connection"}

(* Every role holds the read permissions that visibleNav asks for. *)
visibleNav == NAV

(* The pages of the shell: those, and what their tables and links lead to. *)
PageNames == NAV \cup SYS \cup {"queue", "job", "worker", "notFound"}

Sidebar == {Route(p) : p \in visibleNav \cup SYS}

CommandPalette(see) ==
  [asks   |-> {Key("queues"), Key("workers"), Key("dlq"), Key("delayed")},
   leads  |-> Sidebar \cup {Route("queue"), Route("worker")}
              \cup {JobRoute(j) : j \in see[Key("dlq")] \cup see[Key("delayed")]},
   orders |-> {}]
-----------------------------------------------------------------------------
(* The tables of jobs that several pages show.  The selection outlives the *)
(* rows it was made on, so that a bulk order may name any job.             *)

(* A row offers a retry in statuses the API never reports. *)
JobsTable(rows, may) ==
  [leads  |-> {JobRoute(r.job) : r \in rows} \cup {Route("worker")},
   orders |-> IF ~may THEN {}
              ELSE Bulk("retryJob") \cup Bulk("deleteJob")
                   \cup Each("retryJob",
                             {r.job : r \in {x \in rows :
                                x.status \in {"failed", "retrying", "cancelled"}}})]

DelayedTable(jobs, may) ==
  [leads  |-> {JobRoute(j) : j \in jobs},
   orders |-> IF ~may THEN {}
              ELSE Each("promoteDelayed", jobs) \cup Each("cancelDelayed", jobs)]
-----------------------------------------------------------------------------
(* The counters at the top lead to the pages of what they count.           *)
StatCards(pages) == {Route(p) : p \in pages}

(* Pausing and resuming is offered to every session. *)
OverviewOrders(see) == Toggle(see[Key("queues")])

RecentFailures(see) == {Route("dlq")} \cup {JobRoute(j) : j \in see[Key("dlq")]}

Overview(see) ==
  [asks   |-> {Key("stats"), Key("metrics"), Key("queues"), Key("workers"), Key("dlq")},
   leads  |-> StatCards({"queues", "delayed", "dlq", "workers"})
              \cup {Route("worker"), Route("queue")} \cup RecentFailures(see),
   orders |-> OverviewOrders(see)]

QueuesList(see) ==
  [asks   |-> {Key("queues")},
   leads  |-> {Route("queue")},
   orders |-> Toggle(see[Key("queues")])]

(* Of the four tabs, two are tables of jobs: all of them, and those that   *)
(* failed, which the API never reports; the third the delayed ones.        *)
QueueTabs(see, may) ==
  LET jobs == JobsTable(see[Key("queueJobs")], may)
      late == DelayedTable(see[Key("delayed")], may)
  IN  [leads |-> jobs.leads \cup late.leads, orders |-> jobs.orders \cup late.orders]

QueueDetail(see, failed, may) ==
  LET shown == ~failed[Key("queue")]
  IN  [asks   |-> {Key("queue"), Key("queueJobs"), Key("delayed"), Key("metrics")},
       leads  |-> IF shown THEN {Route("queues")} \cup QueueTabs(see, may).leads ELSE {},
       orders |-> IF ~shown THEN {}
                  ELSE QueueTabs(see, may).orders
                       \cup IF may /\ see[Key("queue")] # {}
                            THEN Toggle(see[Key("queue")]) \cup {OnQueue("purgeQueue")} ELSE {}]

(* The buttons act on the job on the screen, which for a moment may be the *)
(* one the page showed before.                                             *)
JobOrders(rows) ==
  UNION {Each(op, {r.job : r \in rows}) : op \in {"retryJob", "requeueJob", "deleteJob"}}

(* Of the sections below the buttons only the worker leads anywhere.       *)
JobSections == {Route("worker")}

JobDetail(j, see, failed, may) ==
  LET rows == IF failed[JobKey(j)] THEN {} ELSE see[JobKey(j)]
  IN  [asks   |-> {JobKey(j)},
       leads  |-> IF rows = {} THEN {} ELSE {Route("queues"), Route("queue")} \cup JobSections,
       orders |-> IF may THEN JobOrders(rows) ELSE {}]

(* "Re-enqueue" is a second button for retryDlq. *)
DlqOrders(jobs) ==
  Each("retryDlq", jobs) \cup Each("deleteDlq", jobs)
  \cup Bulk("retryDlq") \cup Bulk("deleteDlq")
  \cup IF jobs # {} THEN {OnQueue("purgeDlq")} ELSE {}

DlqPage(see, may) ==
  [asks   |-> {Key("dlq")},
   leads  |-> {JobRoute(j) : j \in see[Key("dlq")]},
   orders |-> IF may THEN DlqOrders(see[Key("dlq")]) ELSE {}]

DelayedPage(see, may) ==
  LET table == DelayedTable(see[Key("delayed")], may)
  IN  [asks |-> {Key("delayed")}, leads |-> table.leads, orders |-> table.orders]

WorkersList  == [asks |-> {Key("workers")}, leads |-> {Route("worker")}, orders |-> {}]
WorkerDetail(failed) ==
  [asks   |-> {Key("worker")},
   leads  |-> IF failed[Key("worker")] THEN {} ELSE {Route("workers")},
   orders |-> {}]
Metrics      == [asks |-> {Key("metrics")}, leads |-> {}, orders |-> {}]
SettingsPage   == [asks |-> {}, leads |-> {}, orders |-> {}]
ConnectionPage == [asks |-> {}, leads |-> {}, orders |-> {}]

(* Any other address.                                                      *)
NotFoundComponent == [asks |-> {}, leads |-> {Route("overview")}, orders |-> {}]

PageAt(route, see, failed, may) ==
  CASE route.page = "overview"   -> Overview(see)
    [] route.page = "queues"     -> QueuesList(see)
    [] route.page = "queue"      -> QueueDetail(see, failed, may)
    [] route.page = "job"        -> JobDetail(route.job, see, failed, may)
    [] route.page = "dlq"        -> DlqPage(see, may)
    [] route.page = "delayed"    -> DelayedPage(see, may)
    [] route.page = "workers"    -> WorkersList
    [] route.page = "worker"     -> WorkerDetail(failed)
    [] route.page = "metrics"    -> Metrics
    [] route.page = "settings"   -> SettingsPage
    [] route.page = "connection" -> ConnectionPage
    [] route.page = "notFound"   -> NotFoundComponent
=============================================================================
