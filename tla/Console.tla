------------------------------ MODULE Console -------------------------------
(***************************************************************************)
(* The web console in one browser tab: the session store, the HTTP client, *)
(* the query cache, the root guard and the pages, against an API server    *)
(* whose jobs move by themselves.  A request is answered by the server     *)
(* (Serve) and its answer handled by the tab (Deliver) some time later,    *)
(* out of order with others, or it fails for want of an answer (Drop: no   *)
(* connection, or ten seconds without an answer).                          *)
(***************************************************************************)
EXTENDS ConsolePages, QueryCache, Naturals

CONSTANTS
  Keys,         \* the queries whose cache entries are followed; the screen
                \* is taken to have an up to date answer to any other
  Pages, Ops,   \* the pages visited, and the operations asked for on them
  MaxTokens,    \* bound: how many sessions the server issues
  Writers,      \* the tokens issued to operators; the others are viewers'
  PasswordLogin, SingleSignOn, \* the ways to sign in the server is set up for
  Lapsing,      \* whether tokens lapse
  MaxPresses,   \* bound: orders, reloads and refreshes the user asks for
  MaxFaults     \* bound: requests that get no answer

Token   == 1..MaxTokens
NoToken == 0

ASSUME ConsoleAssumption ==
  /\ MaxTokens \in Nat /\ MaxPresses \in Nat /\ MaxFaults \in Nat
  /\ Writers \subseteq Token
  /\ Lapsing \in BOOLEAN /\ PasswordLogin \in BOOLEAN /\ SingleSignOn \in BOOLEAN
  /\ "overview" \in Pages /\ Pages \subseteq PageNames
  /\ "job" \in Pages => "queue" \in Pages
  /\ Keys \subseteq Query

VARIABLES
  session,      \* the session store of the tab: the token, or NoToken
  storage,      \* the session in localStorage, shared with other tabs
  standing,     \* the server's (and the clock's) verdict on each token
  mounted,      \* whether RootComponent's effect has run since the last load
  route,        \* the location
  code,         \* the one-time code in the URL of the login page
  config,       \* what LoginPage knows of the ways to sign in
  auto,         \* whether auto-refresh is on
  place,        \* where the server has each job
  paused,       \* whether the queue is paused
  cache,        \* the entry of each followed query
  held,         \* the job the job page showed last
  requests,     \* the requests for queries and sessions that are under way
  mutations,    \* the orders whose requests are not all settled
  presses,      \* number of orders, reloads and refreshes so far
  faults,       \* number of requests that got no answer so far
  forgotten     \* history: tokens of sessions the user signed out of

authVars    == <<session, storage>>
loginVars   == <<code, config>>
serverVars  == <<place, paused>>
cacheVars   == <<cache, requests, held, mutations>>
countVars   == <<presses, faults>>
consoleVars == <<authVars, standing, loginVars, serverVars, cacheVars, countVars,
                 mounted, route, auto, forgotten>>

Place == {"pending", "processing", "delayed", "dlq", "gone"}
Rows  == [job : Job, status : Place] \cup [job : TheQueue, status : {"paused", "healthy"}]
Data  == (SUBSET Job) \cup (SUBSET Rows)

Entry ==
  [known : BOOLEAN, data : Data, error : BOOLEAN, invalid : BOOLEAN,
   fetch : {"idle", "first", "wait", "second"}, by : 0..MaxTokens, owed : BOOLEAN]

Reply == {"none", "ok", "refused", "denied", "missing"}

Request ==
  [for : {"query", "login", "exchange", "version"}, key : Keys \cup {NoKey},
   token : 0..MaxTokens, live : BOOLEAN, reply : Reply, data : Data,
   grant : 0..MaxTokens, fresh : BOOLEAN]

(* An order under way: the state of its request for each id ("late" when   *)
(* the tab has given up on it but the server may still get it, "void" when *)
(* it is over without success), whether none has failed so far, and        *)
(* whether the job page that gave the order is still there.                *)
Mutations ==
  [op : {o.op : o \in Orders}, token : 0..MaxTokens, live : BOOLEAN, here : BOOLEAN,
   calls : UNION {[o.ids -> {"sent", "late", "void", "settled"} \cup Reply] : o \in Orders}]

ConsoleTypeOK ==
  /\ session \in 0..MaxTokens /\ storage \in 0..MaxTokens
  /\ standing \in [Token -> {"unissued", "good", "expired", "refused"}]
  /\ mounted \in BOOLEAN /\ auto \in BOOLEAN /\ paused \in BOOLEAN
  /\ route.page \in Pages \cup {"login"} /\ route.job \in Job \cup {NoJob}
  /\ code \in {"none", "new", "used"} /\ config \in {"unknown", "known", "failed"}
  /\ place \in [Job -> Place]
  /\ cache \in [Keys -> Entry] /\ held \in Job \cup {NoJob}
  /\ requests \subseteq Request /\ mutations \subseteq Mutations
  /\ presses \in 0..MaxPresses /\ faults \in 0..MaxFaults
  /\ forgotten \subseteq Token
-----------------------------------------------------------------------------
(* What is on the screen *)

(* RootComponent: the shell, and in it the page, only with a session.      *)
Shell == mounted /\ route.page # "login" /\ session # NoToken

may == session \in Writers

QueueRow  == {[job |-> "queue", status |-> IF paused THEN "paused" ELSE "healthy"]}
JobRows(js) == {[job |-> j, status |-> place[j]] : j \in {x \in js : place[x] # "gone"}}

(* The server's answer to a query; a job that is gone is not found.        *)
Answer(k) ==
  CASE k.query \in {"queues", "queue"} -> QueueRow
    [] k.query \in {"dlq", "delayed"}  -> {j \in Job : place[j] = k.query}
    [] k.query = "queueJobs" -> JobRows(Job)
    [] k.query = "job" -> JobRows({k.job})
    [] OTHER -> {}

(* keepPreviousData: while a job has no answer yet, the page shows the one *)
(* before.                                                                 *)
seen ==
  [k \in Query |->
     IF k \notin Keys THEN Answer(k)
     ELSE IF cache[k].known \/ k.query # "job" \/ held = NoJob THEN cache[k].data
     ELSE cache[JobKey(held)].data]

failed == [k \in Query |-> k \in Keys /\ cache[k].error]

Page    == PageAt(route, seen, failed, may)
Palette == CommandPalette(seen)

Locations ==
  {Route(p) : p \in (Pages \ {"job"}) \cup {"login"}}
  \cup {JobRoute(j) : j \in IF "job" \in Pages THEN Job ELSE {}}

(* The queries of the shell and of each page; they depend on nothing that  *)
(* is seen.                                                                *)
Unseen    == [k \in Query |-> {}]
Unfailed  == [k \in Query |-> FALSE]
ShellAsks == CommandPalette(Unseen).asks \cap Keys
PageAsks  ==
  [l \in Locations \ {Route("login")} |-> PageAt(l, Unseen, Unfailed, FALSE).asks \cap Keys]
Watching  == IF Shell THEN ShellAsks \cup PageAsks[route] ELSE {}

(* The hooks that mount in a step: those of a new page, and all when the   *)
(* shell appears.                                                          *)
Appearing ==
  (Watching' \ Watching)
  \cup IF Shell' /\ route' # route THEN PageAsks[route'] ELSE {}

(* Requests of a page itself outlive it, but nothing on the screen waits   *)
(* for them any more.                                                      *)
Orphaned(rs) ==
  {IF r.for # "query" /\ route' # route THEN [r EXCEPT !.live = FALSE] ELSE r : r \in rs}

(* The rest of a step that leaves the cache at c, the requests at rs and   *)
(* the orders at ms: the hooks that mount fetch, the job page remembers    *)
(* what it shows, and orders lose the page that gave them.                 *)
Render(c, rs, ms) ==
  \E aged \in SUBSET {k \in Appearing : c[k].known /\ ~c[k].invalid} :
    LET asked == {k \in Appearing : Fetches(c[k], k \in aged)}
    IN  /\ cache' = [k \in Keys |->
             IF k \in asked THEN Fetching(c[k], "first") ELSE c[k]]
        /\ requests' = Orphaned(rs) \cup {Ask("query", k, session') : k \in asked}
        /\ held' = IF ~(Shell' /\ route'.page = "job") THEN NoJob
                   ELSE IF JobKey(route'.job) \in Keys /\ c[JobKey(route'.job)].known
                   THEN route'.job ELSE held
        /\ mutations' = {[m EXCEPT !.here = @ /\ Shell' /\ route'.page = "job"] :
             m \in {x \in ms : \E i \in DOMAIN x.calls : x.calls[i] \notin {"void", "settled"}}}
-----------------------------------------------------------------------------
ConsoleInit ==
  /\ session = NoToken /\ storage = NoToken
  /\ standing = [t \in Token |-> "unissued"]
  /\ mounted = FALSE /\ route = Route("overview")
  /\ code = "none" /\ config = "unknown"
  /\ auto = TRUE
  /\ place \in [Job -> {"pending", "delayed", "dlq"}] /\ paused = FALSE
  /\ cache = [k \in Keys |-> Blank] /\ held = NoJob
  /\ requests = {} /\ mutations = {}
  /\ presses = 0 /\ faults = 0
  /\ forgotten = {}

(* The session store: state and localStorage change together.              *)
setSession(t) == session' = t /\ storage' = t
clearSession  == setSession(NoToken)

isExpired(t) == standing[t] = "expired"

(* What a page that is loaded finds in localStorage.                       *)
load == IF storage # NoToken /\ ~isExpired(storage) THEN storage ELSE NoToken

Press == presses < MaxPresses /\ presses' = presses + 1 /\ UNCHANGED faults
Fault == faults < MaxFaults /\ faults' = faults + 1 /\ UNCHANGED presses
-----------------------------------------------------------------------------
(* The root guard *)

OnLogin == mounted /\ route.page = "login"

(* Until hydration is over useSession has the server's snapshot, null.     *)
useSession == IF mounted THEN session ELSE NoToken

(* What LoginPage asks for when it is loaded with a one-time code.         *)
Exchange ==
  IF route.page = "login" /\ code # "none"
  THEN {[Ask("exchange", NoKey, session) EXCEPT !.fresh = code = "new"]} ELSE {}

(* The effects of LoginPage and RootComponent's setMounted(true).          *)
Mount ==
  /\ ~mounted
  /\ mounted' = TRUE
  /\ UNCHANGED <<authVars, standing, route, loginVars, auto, serverVars, countVars, forgotten>>
  /\ Render(cache, requests \cup Exchange, mutations)

(* Mutant: without waiting for the mount. *)
RedirectToLoginEarly ==
  /\ route.page # "login" /\ useSession = NoToken
  /\ route' = Route("login") /\ config' = "unknown"
  /\ UNCHANGED <<authVars, standing, mounted, code, auto, serverVars, countVars, forgotten>>
  /\ Render(cache, requests, mutations)

RedirectToLogin ==
  /\ mounted /\ route.page # "login" /\ useSession = NoToken
  /\ route' = Route("login") /\ config' = "unknown"
  /\ UNCHANGED <<authVars, standing, mounted, code, auto, serverVars, countVars, forgotten>>
  /\ Render(cache, requests, mutations)

LeaveLogin ==
  /\ OnLogin /\ useSession # NoToken
  /\ route' = Route("overview") /\ code' = "none" /\ config' = "unknown"
  /\ UNCHANGED <<authVars, standing, mounted, auto, serverVars, countVars, forgotten>>
  /\ Render(cache, requests, mutations)

Navigate(to) ==
  /\ to \in Locations
  /\ route' = to
  /\ UNCHANGED <<authVars, standing, mounted, loginVars, auto, serverVars, countVars, forgotten>>
  /\ Render(cache, requests, mutations)

(* Every module state of the tab goes; load() drops an expired session.    *)
(* Requests are aborted, and the server may get them all the same.         *)
Loaded ==
  /\ setSession(load)
  /\ mounted' = FALSE /\ config' = "unknown"
  /\ Render([k \in Keys |-> Blank], {},
            {[m EXCEPT !.live = FALSE,
                       !.calls = [i \in DOMAIN @ |->
                         IF @[i] \in {"sent", "late"} THEN "late" ELSE "void"]] : m \in mutations})

(* The page is loaded again, or another by its address.                    *)
Reload(to) ==
  /\ Press
  /\ route' = to
  /\ code' \in IF to = route /\ code # "none" THEN {code, "used"} ELSE {"none"}
  /\ Loaded
  /\ UNCHANGED <<standing, auto, serverVars, forgotten>>
-----------------------------------------------------------------------------
(* Sessions *)

(* A token expires, or the server no longer accepts it.                    *)
Lapse(t, how) ==
  /\ Lapsing /\ standing[t] = "good"
  /\ standing' = [standing EXCEPT ![t] = how]
  /\ UNCHANGED <<authVars, loginVars, serverVars, cacheVars, countVars, mounted, route, auto,
                 forgotten>>

Issued(t) == standing[t] = "unissued" /\ standing' = [standing EXCEPT ![t] = "good"]

(* Another tab signs in or out: this one does not listen to the storage.   *)
OtherTab(t) ==
  /\ IF t = NoToken THEN UNCHANGED standing ELSE Issued(t)
  /\ Press
  /\ storage' = t
  /\ UNCHANGED <<session, loginVars, serverVars, cacheVars, mounted, route, auto, forgotten>>

(* LoginPage; an authConfig that fails counts as password only.            *)
AuthConfig(c) ==
  /\ OnLogin /\ config = "unknown"
  /\ config' = c
  /\ IF c = "failed" THEN Fault ELSE UNCHANGED countVars
  /\ UNCHANGED <<authVars, standing, code, serverVars, cacheVars, mounted, route, auto,
                 forgotten>>

passwordEnabled == IF config = "known" THEN PasswordLogin ELSE TRUE
showOIDC        == config = "known" /\ SingleSignOn
busy == \E r \in requests : r.for \in {"login", "exchange"} /\ r.live

(* The effect that leaves the page of a signed-in user is quicker than any *)
(* user.                                                                   *)
onSubmit ==
  /\ OnLogin /\ useSession = NoToken /\ passwordEnabled /\ ~busy
  /\ requests' = requests \cup {Ask("login", NoKey, session)}
  /\ UNCHANGED <<authVars, standing, loginVars, serverVars, cache, held, mutations, countVars,
                 mounted, route, auto, forgotten>>

(* The browser goes to the identity provider and comes back with a code,   *)
(* or with an error, which is cleaned from the address.                    *)
startSSO ==
  /\ OnLogin /\ useSession = NoToken /\ showOIDC /\ ~busy
  /\ Press
  /\ route' = route /\ code' \in {"new", "none"}
  /\ Loaded
  /\ UNCHANGED <<standing, auto, serverVars, forgotten>>

(* Mutant: the fetches under way still store their answers.                *)
logoutHalf ==
  /\ Shell
  /\ clearSession
  /\ forgotten' = forgotten \cup {session}
  /\ UNCHANGED <<standing, loginVars, serverVars, countVars, mounted, route, auto>>
  /\ Render([k \in Keys |-> Blank], requests, mutations)

(* qc.clear() drops every entry and ignores every fetch under way.         *)
logout ==
  /\ Shell
  /\ clearSession
  /\ forgotten' = forgotten \cup {session}
  /\ UNCHANGED <<standing, loginVars, serverVars, countVars, mounted, route, auto>>
  /\ Render([k \in Keys |-> Blank], Forget(requests), mutations)
-----------------------------------------------------------------------------
(* request *)

Accepted(t) == t # NoToken /\ standing[t] = "good"

ServeQuery(r) ==
  /\ r.for \in {"query", "version"} /\ r.reply = "none"
  /\ LET data == IF r.for = "query" THEN Answer(r.key) ELSE {}
     IN  requests' = (requests \ {r}) \cup
           {[r EXCEPT !.fresh = TRUE,
                      !.reply = CASE ~Accepted(r.token) -> "refused"
                                  [] r.key \in {JobKey(j) : j \in Job} /\ data = {} -> "missing"
                                  [] OTHER -> "ok",
                      !.data  = IF Accepted(r.token) THEN data ELSE {}]}
  /\ UNCHANGED <<authVars, standing, loginVars, serverVars, cache, held, mutations, countVars,
                 mounted, route, auto, forgotten>>

(* Login and OIDCExchange: a wrong password or a code used before is       *)
(* answered with 401, too many attempts with another error.                *)
ServeSignIn(r, t, no) ==
  /\ r.for \in {"login", "exchange"} /\ r.reply = "none"
  /\ IF t = NoToken THEN UNCHANGED standing
     ELSE Issued(t) /\ (IF r.for = "login" THEN PasswordLogin ELSE r.fresh)
  /\ requests' = (requests \ {r}) \cup
       {[r EXCEPT !.reply = IF t = NoToken THEN no ELSE "ok", !.grant = t]}
  /\ code' = IF r.for = "exchange" /\ code = "new" THEN "used" ELSE code
  /\ UNCHANGED <<authVars, config, serverVars, cache, held, mutations, countVars,
                 mounted, route, auto, forgotten>>

(* Mutant: a 403 clears the session in its place.                          *)
SessionDenied(reply) ==
  IF reply = "denied" THEN clearSession ELSE UNCHANGED authVars

(* A 401 clears the session, whatever the request was.                     *)
Session(reply) ==
  IF reply = "refused" THEN clearSession ELSE UNCHANGED authVars

(* What the hook of r's query makes of it; r is ignored when replaced.     *)
Heard(r) ==
  IF r.for # "query" \/ ~r.live THEN cache
  ELSE [cache EXCEPT ![r.key] =
          IF r.reply = "ok" THEN Stored(@, r) ELSE Failing(@, r.key \in Watching)]

DeliverQuery(r) ==
  /\ r.for \in {"query", "version"} /\ r.reply # "none"
  /\ Session(r.reply)
  /\ UNCHANGED <<standing, loginVars, serverVars, countVars, mounted, route, auto, forgotten>>
  /\ Render(Heard(r), requests \ {r}, mutations)

(* setSession, clean() and navigate to the overview, even from a LoginPage *)
(* that has been left.                                                     *)
DeliverSignIn(r) ==
  /\ r.for \in {"login", "exchange"} /\ r.reply # "none"
  /\ IF r.reply = "ok"
     THEN /\ setSession(r.grant)
          /\ route' = Route("overview") /\ code' = "none" /\ config' = "unknown"
     ELSE /\ Session(r.reply)
          /\ code' = IF r.for = "exchange" THEN "none" ELSE code
          /\ UNCHANGED <<route, config>>
  /\ UNCHANGED <<standing, serverVars, countVars, mounted, auto, forgotten>>
  /\ Render(cache, requests \ {r}, mutations)

(* No connection, or the ten seconds are over.                             *)
Drop(r) ==
  /\ Fault
  /\ code' = IF r.for = "exchange" THEN "none" ELSE code
  /\ UNCHANGED <<authVars, standing, config, serverVars, mounted, route, auto, forgotten>>
  /\ Render(Heard([r EXCEPT !.reply = "none"]), requests \ {r}, mutations)
-----------------------------------------------------------------------------
(* useQ *)

Still(k, try) ==
  /\ cache' = [cache EXCEPT ![k] = Fetching(@, try)]
  /\ requests' = requests \cup {Ask("query", k, session)}
  /\ UNCHANGED <<authVars, standing, loginVars, serverVars, held, mutations, countVars,
                 mounted, route, auto, forgotten>>

(* Mutant: an answer that has not been invalidated is left alone.          *)
RefetchInvalid(k) ==
  /\ k \in Watching /\ cache[k].fetch = "idle" /\ (cache[k].invalid \/ ~cache[k].known)
  /\ Still(k, "first")

(* refetchInterval, when auto-refresh is on; and the tab gets the focus or *)
(* the network back.                                                       *)
Refetch(k) == k \in Watching /\ cache[k].fetch = "idle" /\ Still(k, "first")

Poll(k) == auto /\ Refetch(k)

Retry(k) == k \in Watching /\ cache[k].fetch = "wait" /\ Still(k, "second")

(* Nobody watches the query: its retry is called off, and after gcTime the *)
(* entry goes.                                                             *)
Unwatched(k) ==
  /\ k \in Keys \ Watching
  /\ k # JobKey(held)
  /\ cache[k] # Blank /\ cache[k].fetch \in {"idle", "wait"}
  /\ cache' = [cache EXCEPT ![k] =
       IF @.fetch = "wait" THEN Failing(@, FALSE) ELSE Blank]
  /\ UNCHANGED <<authVars, standing, loginVars, serverVars, requests, held, mutations, countVars,
                 mounted, route, auto, forgotten>>

(* qc.invalidateQueries() *)
Restarted == {k \in Watching : Restarts(cache[k], TRUE)}

InvalidCache == [k \in Keys |-> Invalidated(cache[k], k \in Watching)]

Replaced(rs) ==
  {IF r.for = "query" /\ r.key \in Restarted THEN [r EXCEPT !.live = FALSE] ELSE r : r \in rs}
  \cup {Ask("query", k, session) : k \in Restarted}

(* "Refresh now" in the Topbar; the connection page saves the same base.   *)
RefreshNow ==
  /\ Shell
  /\ Press
  /\ UNCHANGED <<authVars, standing, loginVars, serverVars, mounted, route, auto, forgotten>>
  /\ Render(InvalidCache, Replaced(requests), mutations)

(* "Test" of the connection page. *)
TestConnection ==
  /\ Shell /\ route.page = "connection"
  /\ ~ \E r \in requests : r.for = "version" /\ r.live
  /\ Press
  /\ requests' = requests \cup {Ask("version", NoKey, session)}
  /\ UNCHANGED <<authVars, standing, loginVars, serverVars, cache, held, mutations,
                 mounted, route, auto, forgotten>>

(* The preferences outlive the page.                                       *)
setPrefs(on) == auto' = on

(* The choice of the Topbar and of the settings page.                      *)
SetAutoRefresh ==
  /\ Shell
  /\ Press
  /\ setPrefs(~auto)
  /\ UNCHANGED <<authVars, standing, loginVars, serverVars, cacheVars, mounted, route, forgotten>>
-----------------------------------------------------------------------------
(* useAction, useBulk *)

(* mutate: its own callbacks are those of the last call on the page.       *)
Mutate(o) ==
  /\ o.op \in Ops
  /\ Press
  /\ LET m == [op |-> o.op, token |-> session, live |-> TRUE, here |-> route.page = "job",
               calls |-> [i \in o.ids |-> "sent"]]
     IN  /\ m \notin mutations
         /\ mutations' = {[x EXCEPT !.here = @ /\ x.op # o.op] : x \in mutations} \cup {m}
  /\ UNCHANGED <<authVars, standing, loginVars, serverVars, cache, requests, held, mounted, route,
                 auto, forgotten>>

(* Where the API leaves the jobs; what it cannot find it answers with 404. *)
Missing(op, i) ==
  \/ op \in {"retryJob", "requeueJob", "retryDlq"} /\ place[i] = "gone"
  \/ op = "promoteDelayed" /\ place[i] # "delayed"

Purged(from) == [j \in Job |-> IF place[j] = from THEN "gone" ELSE place[j]]

Placed(op, i) ==
  CASE op = "purgeQueue" -> Purged("pending")
    [] op = "purgeDlq"   -> Purged("dlq")
    [] op \in {"deleteJob", "deleteDlq", "cancelDelayed"} -> [place EXCEPT ![i] = "gone"]
    [] op \in {"retryJob", "requeueJob", "retryDlq", "promoteDelayed"} ->
         [place EXCEPT ![i] = "pending"]
    [] OTHER -> place

(* One request of order m gets to state s; live is whether the order still *)
(* can succeed.                                                            *)
Becomes(m, i, s, live) ==
  (mutations \ {m}) \cup {[m EXCEPT !.calls[i] = s, !.live = @ /\ live]}

(* A request that the tab has given up on may still reach the server.      *)
ServeCall(m, i) ==
  LET reply == CASE ~Accepted(m.token)      -> "refused"
                 [] m.token \notin Writers  -> "denied"
                 [] Missing(m.op, i)        -> "missing"
                 [] OTHER                   -> "ok"
  IN  /\ m.calls[i] \in {"sent", "late"}
      /\ place'  = IF reply = "ok" THEN Placed(m.op, i) ELSE place
      /\ paused' = IF reply = "ok" /\ m.op \in {"pauseQueue", "resumeQueue"}
                   THEN m.op = "pauseQueue" ELSE paused
      /\ UNCHANGED <<authVars, standing, loginVars, countVars, mounted, route, auto, forgotten>>
      /\ Render(cache, requests,
                Becomes(m, i, IF m.calls[i] = "late" THEN "void" ELSE reply, TRUE))

(* The last of an order's requests has succeeded, and none has failed.     *)
Success(m, i) ==
  /\ m.live /\ m.calls[i] = "ok"
  /\ \A x \in DOMAIN m.calls \ {i} : m.calls[x] = "settled"

(* The answers the server has given up to now do not show the order.       *)
Outdated(rs) ==
  {IF r.for = "query" THEN [r EXCEPT !.fresh = FALSE] ELSE r : r \in rs}

(* The queries that owe an answer from after the order: those in view that *)
(* have one from before.  A query in view that is still fetching its first *)
(* answer is not among them: its fetch is not restarted, and may bring one *)
(* from before the order.  Neither is a query out of view.                 *)
Owing(c) == [k \in Keys |-> [c[k] EXCEPT !.owed = c[k].known /\ k \in Watching]]

(* onSuccess invalidates every query; the job page of a deleted job goes   *)
(* to the queue.                                                           *)
DeliverCall(m, i) ==
  /\ m.calls[i] \in Reply \ {"none"}
  /\ Session(m.calls[i])
  /\ route' = IF Success(m, i) /\ m.op = "deleteJob" /\ m.here THEN Route("queue") ELSE route
  /\ UNCHANGED <<standing, loginVars, serverVars, countVars, mounted, auto, forgotten>>
  /\ IF Success(m, i)
     THEN Render(Owing(InvalidCache), Replaced(Outdated(requests)), mutations \ {m})
     ELSE Render(cache, requests,
                 IF m.calls[i] = "ok" THEN Becomes(m, i, "settled", TRUE)
                                      ELSE Becomes(m, i, "void", FALSE))

DropCall(m, i) ==
  /\ m.calls[i] \in {"sent"} \cup (Reply \ {"none"})
  /\ Fault
  /\ UNCHANGED <<authVars, standing, loginVars, serverVars, mounted, route, auto, forgotten>>
  /\ Render(cache, requests,
            Becomes(m, i, IF m.calls[i] = "sent" THEN "late" ELSE "void", FALSE))
-----------------------------------------------------------------------------
(* Workers, schedulers and other operators move the jobs.                  *)
JobMoves(j, to) ==
  /\ <<place[j], to>> \in
       {<<"pending", "processing">>, <<"processing", "gone">>, <<"processing", "delayed">>,
        <<"processing", "dlq">>, <<"delayed", "pending">>, <<"dlq", "pending">>}
  /\ place' = [place EXCEPT ![j] = to]
  /\ UNCHANGED <<authVars, standing, loginVars, paused, cacheVars, countVars, mounted, route, auto,
                 forgotten>>
-----------------------------------------------------------------------------
TabStep ==
  \/ Mount \/ RedirectToLogin \/ LeaveLogin
  \/ Shell /\ \E to \in Palette.leads \cup Page.leads : Navigate(to)
  \/ \E to \in Locations : Reload(to)
  \/ \E t \in Token, how \in {"expired", "refused"} : Lapse(t, how)
  \/ \E t \in Token \cup {NoToken} : OtherTab(t)
  \/ \E c \in {"known", "failed"} : AuthConfig(c)
  \/ onSubmit \/ startSSO \/ logout
  \/ RefreshNow \/ TestConnection \/ SetAutoRefresh

RequestStep ==
  \/ \E r \in requests : ServeQuery(r) \/ DeliverQuery(r) \/ DeliverSignIn(r) \/ Drop(r)
  \/ \E r \in requests, t \in Token \cup {NoToken}, no \in {"refused", "denied"} :
       ServeSignIn(r, t, no)
  \/ \E k \in Keys : Refetch(k) \/ Retry(k) \/ Unwatched(k)

OrderStep ==
  \/ Shell /\ \E o \in Page.orders : Mutate(o)
  \/ \E m \in mutations : \E i \in DOMAIN m.calls :
       ServeCall(m, i) \/ DeliverCall(m, i) \/ DropCall(m, i)
  \/ \E j \in Job, to \in Place : JobMoves(j, to)

ConsoleNext == TabStep \/ RequestStep \/ OrderStep

ConsoleSpec == ConsoleInit /\ [][ConsoleNext]_consoleVars

(* React runs effects and the browser timers; a request is answered or     *)
(* times out.  The user and the other tabs owe nothing.                    *)
ConsoleFairness ==
  /\ WF_consoleVars(Mount) /\ WF_consoleVars(RedirectToLogin) /\ WF_consoleVars(LeaveLogin)
  /\ \A k \in Keys :
       /\ WF_consoleVars(\E r \in requests : r.key = k /\ r.live /\ ServeQuery(r))
       /\ WF_consoleVars(\E r \in requests : r.key = k /\ r.live /\ DeliverQuery(r))
       /\ WF_consoleVars(Poll(k))
       /\ WF_consoleVars(Retry(k))

ConsoleFairSpec == ConsoleSpec /\ ConsoleFairness
-----------------------------------------------------------------------------
(* Properties *)

(* After signing out, nothing that was fetched with the session is in the  *)
(* cache, not even the answers that were under way at the time (logout in  *)
(* app-shell.tsx, qc.clear()).                                             *)
LogoutForgets == \A k \in Keys : cache[k].by \notin forgotten

(* The guard never sends a signed-in user to the login page: not during    *)
(* hydration, when the session looks missing (RootComponent).              *)
StaysSignedIn ==
  [][route.page # "login" /\ route'.page = "login" /\ presses' = presses
       => session = NoToken]_consoleVars

(* A session the server no longer accepts does not stay on the screen      *)
(* while auto-refresh is on: some query is refused and request drops it.   *)
RejectedSessionEnds ==
  \A t \in Token :
    (session = t /\ standing[t] # "good") ~> (session # t \/ ~auto)

(* With auto-refresh on, a query in view that the server keeps answering   *)
(* alike ends up with that answer, whatever fetches failed, were replaced  *)
(* or came late (useQ).                                                    *)
ShownCatchesUp ==
  \A k \in Keys :
    (/\ <>[](k \in Watching /\ auto /\ Accepted(session) /\ Answer(k) # {})
     /\ <>[][UNCHANGED serverVars]_consoleVars)
      => []<>(cache[k].known /\ ~cache[k].error /\ cache[k].data = Answer(k))

(* A query that had an answer and was in view when the last order          *)
(* succeeded never settles on an answer the server gave before it: until   *)
(* it gets one from after the order, or its entry is dropped, it is being  *)
(* fetched or its last fetch has failed, and it stays invalid, so that a   *)
(* page that is left and opened again fetches it (onSuccess in useAction). *)
(* Nothing is said of a query that was still in its first fetch.           *)
OrdersShow ==
  \A k \in Keys :
    cache[k].owed => cache[k].invalid /\ (cache[k].fetch # "idle" \/ cache[k].error)

(* A session is dropped only after the server has rejected its token       *)
(* (request in client.ts).                                                 *)
DropsOnlyRejected ==
  [][(mounted /\ mounted' /\ session # NoToken /\ session' = NoToken /\ forgotten' = forgotten)
       => standing[session] # "good"]_consoleVars
=============================================================================
