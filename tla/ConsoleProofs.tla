--------------------------- MODULE ConsoleProofs ----------------------------
(***************************************************************************)
(* What a sign-out leaves behind, what the screen shows after an order has *)
(* succeeded, and where the console may send its user: for any queries,    *)
(* pages, jobs, orders and number of sessions.                             *)
(***************************************************************************)
EXTENDS Console, TLAPS

RequestFields == {"for", "key", "token", "live", "reply", "data", "grant", "fresh"}
EntryFields   == {"known", "data", "error", "invalid", "fetch", "by", "owed"}

(* The tokens the server has issued. *)
Out == {t \in Token : standing[t] # "unissued"}

(* No request under way can bring back a session that was signed out of:   *)
(* a query that still matters was not sent with one, and a sign-in is      *)
(* granted a token that nothing else holds.                                *)
Sound(rs, s, st, out, fg) ==
  \A r \in rs :
    /\ RequestFields \subseteq DOMAIN r
    /\ r.for = "query" /\ r.live => r.token \notin fg
    /\ r.grant = NoToken \/ r.grant \in out \ (fg \cup {s, st})

Distinct(rs) == \A r, q \in rs : r.grant = q.grant /\ r.grant # NoToken => r = q

Clean(c, fg) == \A k \in Keys : EntryFields \subseteq DOMAIN c[k] /\ c[k].by \notin fg

StoreInv(s, st, out, fg) ==
  /\ fg \subseteq out
  /\ s \in {NoToken} \cup out /\ s \notin fg
  /\ st \in {NoToken} \cup out /\ st \notin fg

SignOutInv ==
  /\ DOMAIN standing = Token /\ DOMAIN cache = Keys
  /\ StoreInv(session, storage, Out, forgotten)
  /\ Sound(requests, session, storage, Out, forgotten)
  /\ Distinct(requests)
  /\ Clean(cache, forgotten)
-----------------------------------------------------------------------------
(* Requests and entries *)

(* No token is NoToken.                                                    *)
LEMMA OutTokens == NoToken \notin Out
BY ConsoleAssumption DEF Out, Token, NoToken

(* The fields of a new request.                                            *)
LEMMA AskFields ==
  ASSUME NEW for, NEW key, NEW token
  PROVE  /\ RequestFields \subseteq DOMAIN Ask(for, key, token)
         /\ Ask(for, key, token).for = for
         /\ Ask(for, key, token).token = token
         /\ Ask(for, key, token).grant = NoToken
BY DEF Ask, RequestFields, NoToken

(* A new request is a request.                                             *)
LEMMA AskTypes ==
  ASSUME NEW for \in {"query", "login", "exchange", "version"},
         NEW key \in Keys \cup {NoKey}, NEW token \in 0..MaxTokens
  PROVE  /\ Ask(for, key, token) \in Request /\ Ask(for, key, token).key = key
         /\ Ask(for, key, token).data = {}
<1>1. 0 \in 0..MaxTokens /\ {} \in Data
  BY ConsoleAssumption DEF Data
<1>2. QED
  BY <1>1 DEF Ask, Request, Reply

(* The fields of a location.                                               *)
LEMMA LocationFields ==
  ASSUME NEW to \in Locations
  PROVE  to.page \in Pages \cup {"login"} /\ to.job \in Job \cup {NoJob}
BY DEF Locations, Route, JobRoute

(* An entry without an answer is nobody's.                                 *)
LEMMA BlankFields == EntryFields \subseteq DOMAIN Blank /\ Blank.by = NoToken
BY DEF Blank, EntryFields, NoToken

(* The fields of an entry that holds an answer.                            *)
LEMMA StoredFields ==
  ASSUME NEW e, NEW r
  PROVE  /\ EntryFields \subseteq DOMAIN Stored(e, r)
         /\ Stored(e, r).owed = (e.owed /\ ~r.fresh)
BY DEF Stored, EntryFields

(* No link of a table of jobs leads to the login page.                     *)
LEMMA TableLeads ==
  ASSUME NEW rows, NEW jobs, NEW allowed
  PROVE  /\ \A to \in JobsTable(rows, allowed).leads : to.page \in PageNames
         /\ \A to \in DelayedTable(jobs, allowed).leads : to.page \in PageNames
BY DEF JobsTable, DelayedTable, JobRoute, Route, PageNames

(* New queries, sent with the session of the moment, are sound.            *)
LEMMA SoundAsks ==
  ASSUME NEW rs, NEW s, NEW st, NEW out, NEW fg, NEW ks, NEW for,
         Sound(rs, s, st, out, fg), Distinct(rs), s \notin fg
  PROVE  /\ Sound(rs \cup {Ask(for, k, s) : k \in ks}, s, st, out, fg)
         /\ Distinct(rs \cup {Ask(for, k, s) : k \in ks})
BY AskFields DEF Sound, Distinct

(* A set whose requests matter less than they did is as sound.             *)
LEMMA SoundImage ==
  ASSUME NEW rs, NEW s, NEW st, NEW out, NEW fg, NEW f,
         Sound(rs, s, st, out, fg), Distinct(rs),
         \A r \in rs : /\ RequestFields \subseteq DOMAIN f[r]
                       /\ f[r].for = r.for /\ f[r].token = r.token /\ f[r].grant = r.grant
                       /\ f[r].live => r.live
  PROVE  Sound({f[r] : r \in rs}, s, st, out, fg) /\ Distinct({f[r] : r \in rs})
<1>1. Sound({f[r] : r \in rs}, s, st, out, fg)
  <2> SUFFICES ASSUME NEW r \in rs
               PROVE  /\ RequestFields \subseteq DOMAIN f[r]
                      /\ f[r].for = "query" /\ f[r].live => f[r].token \notin fg
                      /\ f[r].grant = NoToken \/ f[r].grant \in out \ (fg \cup {s, st})
    BY DEF Sound
  <2> QED
    BY DEF Sound
<1>2. Distinct({f[r] : r \in rs})
  BY DEF Distinct
<1> QED
  BY <1>1, <1>2

(* Requests that a page leaves behind stay sound.                          *)
LEMMA SoundOrphaned ==
  ASSUME NEW rs, NEW s, NEW st, NEW out, NEW fg,
         Sound(rs, s, st, out, fg), Distinct(rs)
  PROVE  Sound(Orphaned(rs), s, st, out, fg) /\ Distinct(Orphaned(rs))
<1> DEFINE f == [r \in rs |-> IF r.for # "query" /\ route' # route
                              THEN [r EXCEPT !.live = FALSE] ELSE r]
<1>1. ASSUME NEW r \in rs
      PROVE  /\ RequestFields \subseteq DOMAIN f[r]
             /\ f[r].for = r.for /\ f[r].token = r.token /\ f[r].grant = r.grant
             /\ f[r].live => r.live
  BY DEF Sound, RequestFields
<1>2. Orphaned(rs) = {f[r] : r \in rs}
  BY DEF Orphaned
<1> HIDE DEF f
<1> QED
  BY <1>1, <1>2, SoundImage

(* The requests that an invalidation leaves.                               *)
LEMMA SoundReplaced ==
  ASSUME NEW rs, NEW st, NEW out, NEW fg,
         Sound(rs, session, st, out, fg), Distinct(rs), session \notin fg
  PROVE  Sound(Replaced(rs), session, st, out, fg) /\ Distinct(Replaced(rs))
<1> DEFINE f == [r \in rs |-> IF r.for = "query" /\ r.key \in Restarted
                              THEN [r EXCEPT !.live = FALSE] ELSE r]
<1>1. ASSUME NEW r \in rs
      PROVE  /\ RequestFields \subseteq DOMAIN f[r]
             /\ f[r].for = r.for /\ f[r].token = r.token /\ f[r].grant = r.grant
             /\ f[r].live => r.live
  BY DEF Sound, RequestFields
<1>2. Replaced(rs) = {f[r] : r \in rs} \cup {Ask("query", k, session) : k \in Restarted}
  BY DEF Replaced
<1>3. Sound({f[r] : r \in rs}, session, st, out, fg) /\ Distinct({f[r] : r \in rs})
  <2> HIDE DEF f
  <2> QED BY <1>1, SoundImage
<1> DEFINE qs == {f[r] : r \in rs}
           as == {Ask("query", k, session) : k \in Restarted}
<1>4. Sound(qs, session, st, out, fg) /\ Distinct(qs)
  BY <1>3
<1>5. Replaced(rs) = qs \cup as
  BY <1>2
<1> HIDE DEF qs
<1>6. Sound(qs \cup as, session, st, out, fg) /\ Distinct(qs \cup as)
  BY <1>4, SoundAsks
<1> QED
  BY <1>5, <1>6

(* Requests whose answers an order has outdated stay sound.                *)
LEMMA SoundOutdated ==
  ASSUME NEW rs, NEW s, NEW st, NEW out, NEW fg,
         Sound(rs, s, st, out, fg), Distinct(rs)
  PROVE  Sound(Outdated(rs), s, st, out, fg) /\ Distinct(Outdated(rs))
<1> DEFINE f == [r \in rs |-> IF r.for = "query" THEN [r EXCEPT !.fresh = FALSE] ELSE r]
<1>1. ASSUME NEW r \in rs
      PROVE  /\ RequestFields \subseteq DOMAIN f[r]
             /\ f[r].for = r.for /\ f[r].token = r.token /\ f[r].grant = r.grant
             /\ f[r].live => r.live
  BY DEF Sound, RequestFields
<1>2. Outdated(rs) = {f[r] : r \in rs}
  BY DEF Outdated
<1> HIDE DEF f
<1> QED
  BY <1>1, <1>2, SoundImage

(* Signing out: no query under way matters any more, so that the token can *)
(* be forgotten.                                                           *)
LEMMA SoundForget ==
  ASSUME NEW rs, NEW s, NEW st, NEW out, NEW fg,
         Sound(rs, s, st, out, fg), Distinct(rs)
  PROVE  /\ Sound(Forget(rs), NoToken, NoToken, out, fg \cup {s})
         /\ Distinct(Forget(rs))
<1> DEFINE f == [r \in rs |-> IF r.for = "query" THEN [r EXCEPT !.live = FALSE] ELSE r]
<1>1. ASSUME NEW r \in rs
      PROVE  /\ RequestFields \subseteq DOMAIN f[r]
             /\ f[r].for = r.for /\ f[r].token = r.token /\ f[r].grant = r.grant
             /\ f[r].live => r.live
             /\ f[r].for = "query" => ~f[r].live
  BY DEF Sound, RequestFields
<1>2. Forget(rs) = {f[r] : r \in rs}
  BY DEF Forget
<1> HIDE DEF f
<1>3. Distinct({f[r] : r \in rs})
  BY <1>1 DEF Distinct
<1>4. Sound({f[r] : r \in rs}, NoToken, NoToken, out, fg \cup {s})
  BY <1>1 DEF Sound
<1> QED
  BY <1>2, <1>3, <1>4
-----------------------------------------------------------------------------
(* The cache *)

(* Neither a new fetch nor a failed one changes whose answer an entry has. *)
LEMMA EntrySteps ==
  ASSUME NEW e, EntryFields \subseteq DOMAIN e, NEW try, NEW watched, NEW owed
  PROVE  /\ EntryFields \subseteq DOMAIN Fetching(e, try) /\ Fetching(e, try).by = e.by
         /\ EntryFields \subseteq DOMAIN Failing(e, watched) /\ Failing(e, watched).by = e.by
         /\ EntryFields \subseteq DOMAIN [e EXCEPT !.owed = owed]
         /\ [e EXCEPT !.owed = owed].by = e.by
         /\ EntryFields \subseteq DOMAIN [e EXCEPT !.invalid = TRUE]
         /\ [e EXCEPT !.invalid = TRUE].by = e.by
BY DEF Fetching, Failing, EntryFields

(* Nor does an invalidation.                                               *)
LEMMA InvalidatedEntry ==
  ASSUME NEW e, EntryFields \subseteq DOMAIN e, NEW watched
  PROVE  EntryFields \subseteq DOMAIN Invalidated(e, watched) /\ Invalidated(e, watched).by = e.by
<1> DEFINE g == IF Restarts(e, watched) THEN Fetching(e, "first") ELSE e
<1>1. EntryFields \subseteq DOMAIN g /\ g.by = e.by
  BY EntrySteps
<1>2. Invalidated(e, watched) = IF e = Blank THEN e ELSE [g EXCEPT !.invalid = TRUE]
  BY DEF Invalidated
<1> HIDE DEF g
<1> QED
  BY <1>1, <1>2, EntrySteps

(* An empty cache holds nothing of anybody.                                *)
LEMMA CleanBlank ==
  ASSUME NEW fg, NoToken \notin fg
  PROVE  Clean([k \in Keys |-> Blank], fg)
BY BlankFields DEF Clean

(* An invalidation adds no answer to the cache.                            *)
LEMMA CleanInvalid ==
  ASSUME NEW fg, Clean(cache, fg)
  PROVE  Clean(InvalidCache, fg) /\ Clean(Owing(InvalidCache), fg)
<1>1. Clean(InvalidCache, fg)
  BY InvalidatedEntry DEF Clean, InvalidCache
<1>2. ASSUME NEW c, Clean(c, fg)
      PROVE  Clean(Owing(c), fg)
  <2>1. ASSUME NEW k \in Keys
        PROVE  EntryFields \subseteq DOMAIN Owing(c)[k] /\ Owing(c)[k].by \notin fg
    <3> DEFINE o == c[k].known /\ k \in Watching
    <3>1. Owing(c)[k] = [c[k] EXCEPT !.owed = o]
      BY DEF Owing
    <3>2. EntryFields \subseteq DOMAIN c[k] /\ c[k].by \notin fg
      BY <1>2 DEF Clean
    <3> HIDE DEF o
    <3> QED
      BY <3>1, <3>2, EntrySteps
  <2> QED
    BY <2>1 DEF Clean
<1> QED
  BY <1>1, <1>2

(* The answer to a query that still matters was not asked for with a       *)
(* session that was signed out of.                                         *)
LEMMA CleanHeard ==
  ASSUME NEW r, NEW fg, Clean(cache, fg), DOMAIN cache = Keys,
         r.for = "query" /\ r.live => r.token \notin fg
  PROVE  Clean(Heard(r), fg)
<1>1. CASE r.for # "query" \/ ~r.live
  BY <1>1 DEF Heard
<1>2. CASE r.for = "query" /\ r.live
  <2>1. ASSUME NEW k \in Keys
        PROVE  EntryFields \subseteq DOMAIN Heard(r)[k] /\ Heard(r)[k].by \notin fg
    <3>1. EntryFields \subseteq DOMAIN Stored(cache[k], r) /\ Stored(cache[k], r).by = r.token
      BY DEF Stored, EntryFields
    <3>2. EntryFields \subseteq DOMAIN cache[k] /\ cache[k].by \notin fg
      BY DEF Clean
    <3>3. /\ EntryFields \subseteq DOMAIN Failing(cache[k], r.key \in Watching)
          /\ Failing(cache[k], r.key \in Watching).by = cache[k].by
      BY <3>2, EntrySteps
    <3>4. Heard(r)[k] \in {cache[k], Stored(cache[k], r), Failing(cache[k], r.key \in Watching)}
      BY <1>2 DEF Heard
    <3> QED
      BY <1>2, <3>1, <3>2, <3>3, <3>4
  <2> QED
    BY <2>1 DEF Clean
<1> QED
  BY <1>1, <1>2
-----------------------------------------------------------------------------
(* Steps *)

(* What follows every change of the tab: orphaned requests, and the        *)
(* fetches of the hooks that mount, sent with the session of the moment.   *)
LEMMA RenderKeeps ==
  ASSUME NEW c, NEW rs, NEW ms, NEW out, NEW fg,
         Render(c, rs, ms), Clean(c, fg),
         Sound(rs, session', storage', out, fg), Distinct(rs), session' \notin fg
  PROVE  /\ DOMAIN cache' = Keys /\ Clean(cache', fg)
         /\ Sound(requests', session', storage', out, fg) /\ Distinct(requests')
<1>1. PICK aged \in SUBSET {k \in Appearing : c[k].known /\ ~c[k].invalid} :
        LET asked == {k \in Appearing : Fetches(c[k], k \in aged)}
        IN  /\ cache' = [k \in Keys |->
                 IF k \in asked THEN Fetching(c[k], "first") ELSE c[k]]
            /\ requests' = Orphaned(rs) \cup {Ask("query", k, session') : k \in asked}
  BY ZenonT(60) DEF Render
<1> DEFINE asked == {k \in Appearing : Fetches(c[k], k \in aged)}
           os == Orphaned(rs)
<1>2. Sound(os, session', storage', out, fg) /\ Distinct(os)
  BY SoundOrphaned
<1>3. requests' = os \cup {Ask("query", k, session') : k \in asked}
  BY <1>1
<1>4. cache' = [k \in Keys |->
                 IF k \in asked THEN Fetching(c[k], "first") ELSE c[k]]
  BY <1>1
<1> HIDE DEF asked, os
<1>5. Sound(requests', session', storage', out, fg) /\ Distinct(requests')
  BY <1>2, <1>3, SoundAsks
<1>6. ASSUME NEW k \in Keys
      PROVE  EntryFields \subseteq DOMAIN cache'[k] /\ cache'[k].by \notin fg
  <2> DEFINE g == IF k \in asked THEN Fetching(c[k], "first") ELSE c[k]
  <2>1. EntryFields \subseteq DOMAIN c[k] /\ c[k].by \notin fg
    BY DEF Clean
  <2>2. EntryFields \subseteq DOMAIN g /\ g.by \notin fg
    BY <2>1, EntrySteps
  <2>3. cache'[k] = g
    BY <1>4
  <2> QED
    BY ZenonT(60), <2>2, <2>3
<1> QED
  BY <1>4, <1>5, <1>6 DEF Clean

(* A step that ends in Render, taken with the invariant in mind.           *)
LEMMA RenderInv ==
  ASSUME NEW c, NEW rs, NEW ms, Render(c, rs, ms),
         DOMAIN standing' = Token,
         StoreInv(session', storage', Out', forgotten'),
         Clean(c, forgotten'),
         Sound(rs, session', storage', Out', forgotten'), Distinct(rs)
  PROVE  SignOutInv'
<1>1. session' \notin forgotten'
  BY DEF StoreInv
<1> DEFINE out == Out'
           fg == forgotten'
<1>2. /\ Clean(c, fg) /\ session' \notin fg
      /\ Sound(rs, session', storage', out, fg)
  BY <1>1
<1> HIDE DEF out, fg
<1>3. /\ DOMAIN cache' = Keys /\ Clean(cache', fg)
      /\ Sound(requests', session', storage', out, fg) /\ Distinct(requests')
  BY <1>2, RenderKeeps
<1> USE DEF out, fg
<1> QED
  BY <1>3 DEF SignOutInv

(* The steps that only render, by what they do to the requests.            *)
LEMMA Rendering ==
  ASSUME NEW c, NEW rs, NEW ms, Render(c, rs, ms), SignOutInv,
         Clean(c, forgotten),
         Sound(rs, session, storage, Out, forgotten), Distinct(rs),
         UNCHANGED <<authVars, standing, forgotten>> 
  PROVE  SignOutInv'
<1>1. Out' = Out
  BY DEF Out
<1> QED
  BY <1>1, RenderInv DEF SignOutInv, authVars

(* A new tab knows no session.                                             *)
LEMMA InitInv == ConsoleInit => SignOutInv
<1> SUFFICES ASSUME ConsoleInit PROVE SignOutInv
  OBVIOUS
<1>1. Clean(cache, forgotten)
  BY CleanBlank DEF ConsoleInit
<1>2. StoreInv(session, storage, Out, forgotten)
  BY DEF ConsoleInit, StoreInv
<1> QED
  BY <1>1, <1>2 DEF ConsoleInit, SignOutInv, Sound, Distinct

(* One more request that grants nothing.                                   *)
LEMMA SoundAsk ==
  ASSUME SignOutInv, NEW for, NEW key, for # "query",
         requests' = requests \cup {Ask(for, key, session)},
         UNCHANGED <<authVars, standing, cache, forgotten>>
  PROVE  SignOutInv'
<1>1. Out' = Out
  BY DEF Out
<1>2. /\ Sound(requests', session, storage, Out, forgotten)
      /\ Distinct(requests')
  BY AskFields DEF SignOutInv, Sound, Distinct
<1> QED
  BY <1>1, <1>2 DEF SignOutInv, authVars

(* The page is loaded again: nothing is under way or cached.               *)
LEMMA LoadedInv ==
  ASSUME SignOutInv, Loaded, UNCHANGED <<standing, forgotten>>
  PROVE  SignOutInv'
<1>1. Out' = Out /\ DOMAIN standing' = Token
  BY ZenonT(60) DEF Out, SignOutInv
<1>2. StoreInv(session', storage', Out', forgotten')
  BY ZenonT(60), <1>1, OutTokens DEF SignOutInv, StoreInv, Loaded, setSession, load
<1>3. Clean([k \in Keys |-> Blank], forgotten')
  BY OutTokens, CleanBlank DEF SignOutInv, StoreInv
<1>4. Sound({}, session', storage', Out', forgotten') /\ Distinct({})
  BY ZenonT(60) DEF Sound, Distinct
<1>5. PICK ms : Render([k \in Keys |-> Blank], {}, ms)
  BY ZenonT(60) DEF Loaded
<1> QED
  BY <1>1, <1>2, <1>3, <1>4, <1>5, RenderInv

(* The exchange that the login page starts grants nothing yet.             *)
LEMMA MountInv == SignOutInv /\ Mount => SignOutInv'
<1> SUFFICES ASSUME SignOutInv, Mount PROVE SignOutInv'
  OBVIOUS
<1> DEFINE rs == requests \cup Exchange
<1>1. Render(cache, rs, mutations) /\ UNCHANGED <<authVars, standing, forgotten>>
  BY DEF Mount
<1>2. ASSUME NEW r \in Exchange
      PROVE  RequestFields \subseteq DOMAIN r /\ r.for # "query" /\ r.grant = NoToken
  BY DEF Exchange, Ask, RequestFields, NoToken
<1>3. Sound(rs, session, storage, Out, forgotten) /\ Distinct(rs)
  BY <1>2 DEF SignOutInv, Sound, Distinct
<1> HIDE DEF rs
<1> QED
  BY <1>1, <1>3, Rendering DEF SignOutInv

(* Another tab stores a token that is new, or none.                        *)
LEMMA OtherTabInv ==
  ASSUME SignOutInv, NEW t \in Token \cup {NoToken}, OtherTab(t)
  PROVE  SignOutInv'
<1>1. /\ UNCHANGED <<session, requests, cache, forgotten>> /\ storage' = t
  BY DEF OtherTab, cacheVars
<1>2. CASE t = NoToken
  <2>1. Out' = Out /\ standing' = standing
    BY <1>2 DEF OtherTab, Out
  <2> QED
    BY <1>1, <1>2, <2>1, OutTokens DEF SignOutInv, StoreInv, Sound
<1>3. CASE t # NoToken
  <2>1. DOMAIN standing' = Token /\ Out' = Out \cup {t} /\ t \notin Out
    BY <1>3 DEF OtherTab, Issued, Out, SignOutInv
  <2>2. StoreInv(session, t, Out', forgotten)
    BY <2>1 DEF SignOutInv, StoreInv
  <2>3. Sound(requests, session, t, Out', forgotten)
    BY <2>1 DEF SignOutInv, Sound
  <2> QED
    BY <1>1, <2>1, <2>2, <2>3 DEF SignOutInv
<1> QED
  BY <1>2, <1>3

(* A token that lapses stays issued.                                       *)
LEMMA LapseInv ==
  ASSUME SignOutInv, NEW t \in Token, NEW how \in {"expired", "refused"}, Lapse(t, how)
  PROVE  SignOutInv'
<1>1. DOMAIN standing' = Token /\ Out' = Out
  BY DEF Lapse, Out, SignOutInv
<1> QED
  BY <1>1 DEF Lapse, SignOutInv, authVars, cacheVars

(* Signing out: the cache is empty, and no query under way matters.        *)
LEMMA LogoutInv == SignOutInv /\ logout => SignOutInv'
<1> SUFFICES ASSUME SignOutInv, logout PROVE SignOutInv'
  OBVIOUS
<1> DEFINE rs == Forget(requests)
           c == [k \in Keys |-> Blank]
<1>1. /\ Render(c, rs, mutations) /\ standing' = standing
      /\ session' = NoToken /\ storage' = NoToken /\ forgotten' = forgotten \cup {session}
      /\ session # NoToken
  BY DEF logout, clearSession, setSession, Shell
<1>2. Out' = Out /\ DOMAIN standing' = Token
  BY <1>1 DEF Out, SignOutInv
<1>3. StoreInv(session', storage', Out', forgotten')
  BY <1>1, <1>2, OutTokens DEF SignOutInv, StoreInv
<1>4. Clean(c, forgotten')
  BY <1>1, CleanBlank, OutTokens DEF SignOutInv, StoreInv
<1>5. Sound(rs, session', storage', Out', forgotten') /\ Distinct(rs)
  BY <1>1, <1>2, SoundForget DEF SignOutInv
<1> HIDE DEF rs, c
<1> QED
  BY <1>1, <1>2, <1>3, <1>4, <1>5, RenderInv

(* "Refresh now" fetches with the session of the moment.                   *)
LEMMA RefreshInv == SignOutInv /\ RefreshNow => SignOutInv'
<1> SUFFICES ASSUME SignOutInv, RefreshNow PROVE SignOutInv'
  OBVIOUS
<1> DEFINE rs == Replaced(requests)
<1>1. Render(InvalidCache, rs, mutations) /\ UNCHANGED <<authVars, standing, forgotten>>
  BY DEF RefreshNow
<1>2. Sound(rs, session, storage, Out, forgotten) /\ Distinct(rs)
  BY SoundReplaced DEF SignOutInv, StoreInv
<1>3. Clean(InvalidCache, forgotten)
  BY CleanInvalid DEF SignOutInv
<1> HIDE DEF rs
<1> QED
  BY <1>1, <1>2, <1>3, Rendering

(* A step that renders, and may drop the session for the reply it handles. *)
LEMMA SessionInv ==
  ASSUME NEW c, NEW rs, NEW ms, NEW reply, Render(c, rs, ms), SignOutInv,
         Session(reply), UNCHANGED <<standing, forgotten>>,
         Clean(c, forgotten),
         Sound(rs, session, storage, Out, forgotten), Distinct(rs)
  PROVE  SignOutInv'
<1>1. CASE reply # "refused"
  BY <1>1, Rendering DEF Session
<1>2. CASE reply = "refused"
  <2>1. session' = NoToken /\ storage' = NoToken
    BY <1>2 DEF Session, clearSession, setSession
  <2>2. Out' = Out /\ DOMAIN standing' = Token /\ forgotten' = forgotten
    BY DEF Out, SignOutInv
  <2>3. StoreInv(session', storage', Out', forgotten')
    BY <2>1, <2>2, OutTokens DEF SignOutInv, StoreInv
  <2>4. Sound(rs, session', storage', Out', forgotten')
    BY <2>1, <2>2 DEF Sound
  <2> QED
    BY <2>2, <2>3, <2>4, RenderInv
<1> QED
  BY <1>1, <1>2

(* The server answers a query: nothing is granted.                         *)
LEMMA ServeQueryInv == ASSUME SignOutInv, NEW r \in requests, ServeQuery(r) PROVE SignOutInv'
<1>1. PICK reply, data :
        requests' = (requests \ {r}) \cup
                      {[r EXCEPT !.fresh = TRUE, !.reply = reply, !.data = data]}
  BY ZenonT(60) DEF ServeQuery
<1> DEFINE q == [r EXCEPT !.fresh = TRUE, !.reply = reply, !.data = data]
<1>2. /\ RequestFields \subseteq DOMAIN q
      /\ q.for = r.for /\ q.token = r.token /\ q.grant = r.grant /\ q.live = r.live
  BY DEF SignOutInv, Sound, RequestFields
<1>3. requests' = (requests \ {r}) \cup {q}
  BY <1>1
<1> HIDE DEF q
<1>4. Sound(requests', session, storage, Out, forgotten) /\ Distinct(requests')
  BY ZenonT(60), <1>2, <1>3 DEF SignOutInv, Sound, Distinct
<1>5. UNCHANGED <<authVars, standing, cache, forgotten>> /\ Out' = Out
  BY ZenonT(60) DEF ServeQuery, Out
<1> QED
  BY ZenonT(60), <1>4, <1>5 DEF SignOutInv, authVars

(* A sign-in is granted a token that nobody has had.                       *)
LEMMA ServeSignInInv ==
  ASSUME SignOutInv, NEW r \in requests, NEW t \in Token \cup {NoToken}, NEW no,
         ServeSignIn(r, t, no)
  PROVE  SignOutInv'
<1>1. PICK reply : requests' = (requests \ {r}) \cup {[r EXCEPT !.reply = reply, !.grant = t]}
  BY ZenonT(60) DEF ServeSignIn
<1> DEFINE q == [r EXCEPT !.reply = reply, !.grant = t]
<1>2. RequestFields \subseteq DOMAIN q /\ q.for = r.for /\ q.grant = t
  BY DEF SignOutInv, Sound, RequestFields
<1>3. requests' = (requests \ {r}) \cup {q} /\ r.for # "query"
  BY <1>1 DEF ServeSignIn
<1> HIDE DEF q
<1>4. UNCHANGED <<authVars, cache, forgotten>>
  BY DEF ServeSignIn
<1>5. /\ DOMAIN standing' = Token /\ Out \subseteq Out'
      /\ t # NoToken => t \in Out' /\ t \notin Out
  <2>1. CASE t = NoToken
    BY <2>1 DEF ServeSignIn, SignOutInv, Out
  <2>2. CASE t # NoToken
    BY <2>2 DEF ServeSignIn, Issued, SignOutInv, Out
  <2> QED
    BY <2>1, <2>2
<1>6. t = NoToken \/ t \in Out' \ (forgotten \cup {session, storage})
  BY <1>5 DEF SignOutInv, StoreInv
<1>7. Sound(requests', session, storage, Out', forgotten)
  BY <1>2, <1>3, <1>5, <1>6 DEF SignOutInv, Sound
<1>8. Distinct(requests')
  BY <1>2, <1>3, <1>5 DEF SignOutInv, Sound, Distinct
<1>9. StoreInv(session, storage, Out', forgotten)
  BY <1>5 DEF SignOutInv, StoreInv
<1> QED
  BY ZenonT(60), <1>4, <1>5, <1>7, <1>8, <1>9 DEF SignOutInv, authVars

(* The answer of a query arrives, and may end the session.                 *)
LEMMA DeliverQueryInv == ASSUME SignOutInv, NEW r \in requests, DeliverQuery(r) PROVE SignOutInv'
<1> DEFINE c == Heard(r)
           rs == requests \ {r}
<1>1. Render(c, rs, mutations) /\ Session(r.reply) /\ UNCHANGED <<standing, forgotten>>
  BY DEF DeliverQuery
<1>2. Sound(rs, session, storage, Out, forgotten) /\ Distinct(rs)
  BY DEF SignOutInv, Sound, Distinct
<1>3. Clean(c, forgotten)
  BY CleanHeard DEF SignOutInv, Sound
<1> HIDE DEF c, rs
<1> QED
  BY <1>1, <1>2, <1>3, SessionInv

(* A sign-in arrives: its token is its own.                                *)
LEMMA DeliverSignInInv == ASSUME SignOutInv, NEW r \in requests, DeliverSignIn(r) PROVE SignOutInv'
<1> DEFINE rs == requests \ {r}
<1>1. Render(cache, rs, mutations) /\ UNCHANGED <<standing, forgotten>>
  BY DEF DeliverSignIn
<1>2. Sound(rs, session, storage, Out, forgotten) /\ Distinct(rs)
  BY DEF SignOutInv, Sound, Distinct
<1>3. CASE r.reply # "ok"
  <2>1. Session(r.reply)
    BY <1>3 DEF DeliverSignIn
  <2> HIDE DEF rs
  <2> QED
    BY <1>1, <1>2, <2>1, SessionInv DEF SignOutInv
<1>4. CASE r.reply = "ok"
  <2>1. session' = r.grant /\ storage' = r.grant
    BY <1>4 DEF DeliverSignIn, setSession
  <2>2. Out' = Out /\ DOMAIN standing' = Token /\ forgotten' = forgotten
    BY <1>1 DEF Out, SignOutInv
  <2>3. StoreInv(r.grant, r.grant, Out, forgotten)
    BY OutTokens DEF SignOutInv, StoreInv, Sound
  <2>4. Sound(rs, r.grant, r.grant, Out, forgotten)
    BY DEF SignOutInv, Sound, Distinct
  <2> HIDE DEF rs
  <2> QED
    BY <1>1, <1>2, <2>1, <2>2, <2>3, <2>4, RenderInv DEF SignOutInv
<1> QED
  BY <1>3, <1>4

(* A request fails: no answer is stored.                                   *)
LEMMA DropInv == ASSUME SignOutInv, NEW r \in requests, Drop(r) PROVE SignOutInv'
<1> DEFINE q == [r EXCEPT !.reply = "none"]
           c == Heard(q)
           rs == requests \ {r}
<1>1. Render(c, rs, mutations) /\ UNCHANGED <<authVars, standing, forgotten>>
  BY DEF Drop
<1>2. Sound(rs, session, storage, Out, forgotten) /\ Distinct(rs)
  BY DEF SignOutInv, Sound, Distinct
<1>3. q.for = "query" /\ q.live => q.token \notin forgotten
  BY DEF SignOutInv, Sound, RequestFields
<1>4. Clean(c, forgotten)
  <2> HIDE DEF q
  <2> QED BY <1>3, CleanHeard DEF SignOutInv
<1> HIDE DEF c, rs
<1> QED
  BY <1>1, <1>2, <1>4, Rendering

(* A query is fetched again, with the session of the moment.               *)
LEMMA StillInv == ASSUME SignOutInv, NEW k \in Keys, NEW try, Still(k, try) PROVE SignOutInv'
<1>1. /\ cache' = [cache EXCEPT ![k] = Fetching(@, try)]
      /\ requests' = requests \cup {Ask("query", k, session)}
      /\ UNCHANGED <<authVars, standing, forgotten>> /\ Out' = Out
  BY DEF Still, Out
<1>2. Sound(requests', session, storage, Out, forgotten) /\ Distinct(requests')
  BY <1>1, AskFields DEF SignOutInv, StoreInv, Sound, Distinct
<1>3. DOMAIN cache' = Keys /\ Clean(cache', forgotten)
  BY <1>1, EntrySteps DEF SignOutInv, Clean
<1> QED
  BY <1>1, <1>2, <1>3 DEF SignOutInv, authVars

(* An entry that nobody watches is given up.                               *)
LEMMA UnwatchedInv == ASSUME SignOutInv, NEW k \in Keys, Unwatched(k) PROVE SignOutInv'
<1>1. /\ cache' = [cache EXCEPT ![k] = IF @.fetch = "wait" THEN Failing(@, FALSE) ELSE Blank]
      /\ UNCHANGED <<authVars, standing, requests, forgotten>> /\ Out' = Out
  BY DEF Unwatched, Out
<1>2. /\ EntryFields \subseteq DOMAIN Failing(cache[k], FALSE)
      /\ Failing(cache[k], FALSE).by = cache[k].by
  BY ZenonT(60), EntrySteps DEF SignOutInv, Clean
<1>3. NoToken \notin forgotten
  BY OutTokens DEF SignOutInv, StoreInv
<1>4. \A x \in Keys : cache'[x] \in {cache[x], Blank} \cup
                        IF x = k THEN {Failing(cache[k], FALSE)} ELSE {}
  BY <1>1 DEF SignOutInv
<1>5. DOMAIN cache' = Keys /\ Clean(cache', forgotten)
  BY ZenonT(60), <1>1, <1>2, <1>3, <1>4, BlankFields DEF SignOutInv, Clean
<1> QED
  BY <1>1, <1>5 DEF SignOutInv, authVars

(* The answer to an order arrives.                                         *)
LEMMA DeliverCallInv ==
  ASSUME SignOutInv, NEW m \in mutations, NEW i, DeliverCall(m, i)
  PROVE  SignOutInv'
<1>1. Session(m.calls[i]) /\ UNCHANGED <<standing, forgotten>>
  BY DEF DeliverCall
<1>2. CASE Success(m, i)
  <2> DEFINE c == Owing(InvalidCache)
             qs == Outdated(requests)
             rs == Replaced(qs)
  <2>1. Render(c, rs, mutations \ {m})
    BY <1>2 DEF DeliverCall
  <2>2. Clean(c, forgotten)
    BY CleanInvalid DEF SignOutInv
  <2>3. Sound(qs, session, storage, Out, forgotten) /\ Distinct(qs)
    BY SoundOutdated DEF SignOutInv
  <2>4. Sound(rs, session, storage, Out, forgotten) /\ Distinct(rs)
    <3> HIDE DEF qs
    <3> QED BY <2>3, SoundReplaced DEF SignOutInv, StoreInv
  <2> HIDE DEF c, rs
  <2> QED
    BY <1>1, <2>1, <2>2, <2>4, SessionInv
<1>3. CASE ~Success(m, i)
  <2>1. PICK ms : Render(cache, requests, ms)
    BY ZenonT(60), <1>3 DEF DeliverCall
  <2> QED
    BY ZenonT(60), <1>1, <2>1, SessionInv DEF SignOutInv
<1> QED
  BY <1>2, <1>3

(* The steps that render what there is already.                            *)
LEMMA PlainRender ==
  ASSUME SignOutInv, NEW ms, Render(cache, requests, ms),
         UNCHANGED <<authVars, standing, forgotten>>
  PROVE  SignOutInv'
BY Rendering DEF SignOutInv

(* The steps that leave alone what the invariant is about.                 *)
LEMMA QuietInv ==
  ASSUME SignOutInv, UNCHANGED <<authVars, standing, cache, requests, forgotten>>
  PROVE  SignOutInv'
<1>1. Out' = Out
  BY ZenonT(60) DEF Out
<1> QED
  BY <1>1 DEF SignOutInv, authVars

(* The steps of the tab and the user.                                      *)
LEMMA TabInv == SignOutInv /\ TabStep => SignOutInv'
<1> SUFFICES ASSUME SignOutInv, TabStep PROVE SignOutInv'
  OBVIOUS
<1>1. CASE Mount
  BY <1>1, MountInv
<1>2. CASE RedirectToLogin \/ LeaveLogin
  BY <1>2, PlainRender DEF RedirectToLogin, LeaveLogin
<1>3. ASSUME NEW to, Navigate(to) PROVE SignOutInv'
  BY <1>3, PlainRender DEF Navigate
<1>4. ASSUME NEW to, Reload(to) PROVE SignOutInv'
  BY <1>4, LoadedInv DEF Reload
<1>5. ASSUME NEW t \in Token, NEW how \in {"expired", "refused"}, Lapse(t, how) PROVE SignOutInv'
  BY <1>5, LapseInv
<1>6. ASSUME NEW t \in Token \cup {NoToken}, OtherTab(t) PROVE SignOutInv'
  BY <1>6, OtherTabInv
<1>7. ASSUME NEW c, AuthConfig(c) PROVE SignOutInv'
  BY <1>7, QuietInv DEF AuthConfig, cacheVars
<1>8. CASE onSubmit
  BY <1>8, SoundAsk DEF onSubmit
<1>9. CASE startSSO
  BY <1>9, LoadedInv DEF startSSO
<1>10. CASE logout
  BY <1>10, LogoutInv
<1>11. CASE RefreshNow
  BY <1>11, RefreshInv
<1>12. CASE TestConnection
  BY <1>12, SoundAsk DEF TestConnection
<1>13. CASE SetAutoRefresh
  BY <1>13, QuietInv DEF SetAutoRefresh, cacheVars
<1> QED
  BY <1>1, <1>2, <1>3, <1>4, <1>5, <1>6, <1>7, <1>8, <1>9, <1>10, <1>11, <1>12, <1>13 DEF TabStep

(* The steps of requests and queries.                                      *)
LEMMA RequestInv == SignOutInv /\ RequestStep => SignOutInv'
<1> SUFFICES ASSUME SignOutInv, RequestStep PROVE SignOutInv'
  OBVIOUS
<1>1. ASSUME NEW r \in requests, ServeQuery(r) \/ DeliverQuery(r) \/ DeliverSignIn(r) \/ Drop(r)
      PROVE  SignOutInv'
  BY <1>1, ServeQueryInv, DeliverQueryInv, DeliverSignInInv, DropInv
<1>2. ASSUME NEW r \in requests, NEW t \in Token \cup {NoToken}, NEW no, ServeSignIn(r, t, no)
      PROVE  SignOutInv'
  BY <1>2, ServeSignInInv
<1>3. ASSUME NEW k \in Keys, Refetch(k) \/ Retry(k) \/ Unwatched(k) PROVE SignOutInv'
  BY <1>3, StillInv, UnwatchedInv DEF Refetch, Retry
<1> QED
  BY <1>1, <1>2, <1>3 DEF RequestStep

(* The steps of orders, and of the server.                                 *)
LEMMA OrderInv == SignOutInv /\ OrderStep => SignOutInv'
<1> SUFFICES ASSUME SignOutInv, OrderStep PROVE SignOutInv'
  OBVIOUS
<1>1. ASSUME NEW o, Mutate(o) PROVE SignOutInv'
  BY <1>1, QuietInv DEF Mutate
<1>2. ASSUME NEW m \in mutations, NEW i, ServeCall(m, i) \/ DropCall(m, i) PROVE SignOutInv'
  <2>1. UNCHANGED <<authVars, standing, forgotten>> /\ \E ms : Render(cache, requests, ms)
    BY ZenonT(60), <1>2 DEF ServeCall, DropCall
  <2> QED
    BY <2>1, PlainRender
<1>3. ASSUME NEW m \in mutations, NEW i, DeliverCall(m, i) PROVE SignOutInv'
  BY <1>3, DeliverCallInv
<1>4. ASSUME NEW j, NEW to, JobMoves(j, to) PROVE SignOutInv'
  BY <1>4, QuietInv DEF JobMoves, cacheVars
<1> QED
  BY <1>1, <1>2, <1>3, <1>4 DEF OrderStep

(* LogoutForgets, for any queries, pages, jobs, sessions, presses and lost *)
(* answers: after logout (app-shell.tsx) no answer to the session that was *)
(* signed out of is in the cache, whatever was under way and whoever signs *)
(* in next.                                                                *)
THEOREM SignedOut == ConsoleSpec => []LogoutForgets
<1>1. SignOutInv /\ [ConsoleNext]_consoleVars => SignOutInv'
  <2> SUFFICES ASSUME SignOutInv, [ConsoleNext]_consoleVars PROVE SignOutInv'
    OBVIOUS
  <2>1. CASE UNCHANGED consoleVars
    BY <2>1, QuietInv DEF consoleVars, cacheVars
  <2> QED
    BY <2>1, TabInv, RequestInv, OrderInv DEF ConsoleNext
<1>2. SignOutInv => LogoutForgets
  BY DEF SignOutInv, Clean, LogoutForgets
<1> QED
  BY <1>1, <1>2, InitInv, PTL DEF ConsoleSpec

-----------------------------------------------------------------------------
(* What the screen shows after an order. *)

(* Every answer for k that still matters is either yet to be given or was  *)
(* given after the last order was carried out.                             *)
Due(rs, k) ==
  \A r \in rs : r.for = "query" /\ r.live /\ r.key = k => r.reply = "none" \/ r.fresh

(* An entry that is not settled, and will not be by an answer from before. *)
Unsettled(e) == e.known /\ e.invalid /\ (e.fetch # "idle" \/ e.error)

Promised(e, rs, k) == Unsettled(e) /\ Due(rs, k)

OwedInv == \A k \in Keys : cache[k].owed => Promised(cache[k], requests, k)

Shapes(c, rs) ==
  /\ \A k \in Keys : EntryFields \subseteq DOMAIN c[k]
  /\ \A r \in rs : RequestFields \subseteq DOMAIN r

(* The fields of entries and requests.                                     *)
LEMMA InvShapes == SignOutInv => Shapes(cache, requests)
BY DEF SignOutInv, Clean, Sound, Shapes

(* A new query is yet to be answered.                                      *)
LEMMA AskDue ==
  ASSUME NEW rs, NEW qs, NEW k, Due(rs, k),
         \A q \in qs : q.for = "query" => q.reply = "none"
  PROVE  Due(rs \cup qs, k)
BY DEF Due

(* A request is sent without a reply.                                      *)
LEMMA AskNone ==
  \A for, key, token : /\ Ask(for, key, token).reply = "none"
                       /\ Ask(for, key, token).for = for
BY DEF Ask

(* Requests that a page leaves behind are those of no query.               *)
LEMMA DueOrphaned ==
  ASSUME NEW rs, NEW k, Due(rs, k), \A r \in rs : RequestFields \subseteq DOMAIN r
  PROVE  Due(Orphaned(rs), k)
BY ZenonT(60) DEF Orphaned, Due, RequestFields

(* A fetch that begins leaves an entry unsettled, and owing what it owed.  *)
LEMMA FetchingOwed ==
  ASSUME NEW e, EntryFields \subseteq DOMAIN e, NEW try, try # "idle"
  PROVE  /\ EntryFields \subseteq DOMAIN Fetching(e, try)
         /\ Fetching(e, try).owed = e.owed
         /\ Unsettled(e) => Unsettled(Fetching(e, try))
BY ZenonT(60) DEF Fetching, Unsettled, EntryFields

(* Rendering owes no more than before.                                     *)
LEMMA RenderOwed ==
  ASSUME NEW c, NEW rs, NEW ms, Render(c, rs, ms), Shapes(c, rs),
         \A k \in Keys : c[k].owed => Promised(c[k], rs, k)
  PROVE  OwedInv'
<1>1. PICK aged \in SUBSET {k \in Appearing : c[k].known /\ ~c[k].invalid} :
        LET asked == {k \in Appearing : Fetches(c[k], k \in aged)}
        IN  /\ cache' = [k \in Keys |->
                 IF k \in asked THEN Fetching(c[k], "first") ELSE c[k]]
            /\ requests' = Orphaned(rs) \cup {Ask("query", k, session') : k \in asked}
  BY ZenonT(60) DEF Render
<1> DEFINE asked == {k \in Appearing : Fetches(c[k], k \in aged)}
           os == Orphaned(rs)
           as == {Ask("query", k, session') : k \in asked}
<1>2. requests' = os \cup as /\ \A q \in as : q.reply = "none"
  BY <1>1, AskNone
<1>3. cache' = [k \in Keys |->
                 IF k \in asked THEN Fetching(c[k], "first") ELSE c[k]]
  BY ZenonT(60), <1>1
<1>4. ASSUME NEW k \in Keys, cache'[k].owed
      PROVE  Promised(cache'[k], requests', k)
  <2> HIDE DEF asked
  <2>1. EntryFields \subseteq DOMAIN c[k] /\ "first" # "idle"
    BY DEF Shapes
  <2>2. cache'[k] = c[k] \/ cache'[k] = Fetching(c[k], "first")
    BY ZenonT(60), <1>3
  <2>3. c[k].owed
    BY ZenonT(60), <1>4, <2>1, <2>2, FetchingOwed
  <2>4. Promised(c[k], rs, k)
    BY ZenonT(60), <2>3
  <2>5. Unsettled(cache'[k])
    BY ZenonT(60), <2>1, <2>2, <2>4, FetchingOwed DEF Promised
  <2>6. Due(os, k)
    BY <2>4, DueOrphaned DEF Promised, Shapes
  <2>7. Due(requests', k)
    <3> HIDE DEF os, as
    <3> QED BY ZenonT(60), <1>2, <2>6, AskDue
  <2> QED
    BY ZenonT(60), <2>5, <2>7 DEF Promised
<1> QED
  BY <1>4 DEF OwedInv

(* The steps that keep the cache and have no answers but the ones under    *)
(* way.                                                                    *)
LEMMA KeptOwed ==
  ASSUME SignOutInv, OwedInv, NEW rs, NEW qs, NEW ms, Render(cache, rs \cup qs, ms),
         rs \subseteq requests,
         \A q \in qs : RequestFields \subseteq DOMAIN q /\ q.for # "query"
  PROVE  OwedInv'
<1> DEFINE os == rs \cup qs
<1>1. Shapes(cache, os)
  BY InvShapes DEF Shapes
<1>2. \A k \in Keys : cache[k].owed => Promised(cache[k], os, k)
  BY DEF OwedInv, Promised, Due
<1>3. Render(cache, os, ms)
  OBVIOUS
<1> HIDE DEF os
<1> QED
  BY <1>1, <1>2, <1>3, RenderOwed

(* Nothing is owed by an empty cache.                                      *)
LEMMA BlankOwed ==
  ASSUME NEW rs, NEW ms, Render([k \in Keys |-> Blank], rs, ms),
         \A r \in rs : RequestFields \subseteq DOMAIN r
  PROVE  OwedInv'
<1> DEFINE c == [k \in Keys |-> Blank]
<1>1. \A k \in Keys : ~c[k].owed
  BY DEF Blank
<1>2. Shapes(c, rs)
  BY BlankFields DEF Shapes
<1>3. Render(c, rs, ms)
  OBVIOUS
<1> HIDE DEF c
<1> QED
  BY <1>1, <1>2, <1>3, RenderOwed

(* The fields of the requests that a sign-out leaves.                      *)
LEMMA ForgetShapes ==
  ASSUME SignOutInv PROVE \A r \in Forget(requests) : RequestFields \subseteq DOMAIN r
BY InvShapes DEF Shapes, Forget, RequestFields

(* The exchange of a one-time code is no query.                            *)
LEMMA ExchangeShapes == \A q \in Exchange : RequestFields \subseteq DOMAIN q /\ q.for # "query"
BY DEF Exchange, Ask, RequestFields

(* An invalidation replaces every fetch of a query in view that has an     *)
(* answer, so that what is owed is asked for again.                        *)
LEMMA ReplacedDue ==
  ASSUME NEW rs, NEW k, k \in Restarted, \A r \in rs : RequestFields \subseteq DOMAIN r
  PROVE  Due(Replaced(rs), k)
<1> DEFINE as == {Ask("query", x, session) : x \in Restarted}
           qs == {IF r.for = "query" /\ r.key \in Restarted
                  THEN [r EXCEPT !.live = FALSE] ELSE r : r \in rs}
<1>1. Replaced(rs) = qs \cup as
  BY DEF Replaced
<1>2. \A q \in as : q.reply = "none"
  BY AskNone
<1>3. Due(qs, k)
  BY DEF Due, RequestFields
<1> HIDE DEF as, qs
<1> QED
  BY ZenonT(60), <1>1, <1>2, <1>3, AskDue

(* It adds no answer.                                                      *)
LEMMA DueReplaced ==
  ASSUME NEW rs, NEW k, Due(rs, k), \A r \in rs : RequestFields \subseteq DOMAIN r
  PROVE  Due(Replaced(rs), k)
<1> DEFINE as == {Ask("query", x, session) : x \in Restarted}
           qs == {IF r.for = "query" /\ r.key \in Restarted
                  THEN [r EXCEPT !.live = FALSE] ELSE r : r \in rs}
<1>1. Replaced(rs) = qs \cup as
  BY DEF Replaced
<1>2. \A q \in as : q.reply = "none"
  BY AskNone
<1>3. Due(qs, k)
  BY ZenonT(60) DEF Due, RequestFields
<1> HIDE DEF as, qs
<1> QED
  BY ZenonT(60), <1>1, <1>2, <1>3, AskDue

(* The fields of the requests that an invalidation leaves.                 *)
LEMMA ReplacedShapes ==
  ASSUME NEW rs, \A r \in rs : RequestFields \subseteq DOMAIN r
  PROVE  \A r \in Replaced(rs) : RequestFields \subseteq DOMAIN r
<1>1. \A k : RequestFields \subseteq DOMAIN Ask("query", k, session)
  BY AskFields
<1> QED
  BY <1>1 DEF Replaced, RequestFields

(* The fields of the requests that an order leaves.                        *)
LEMMA OutdatedShapes ==
  ASSUME NEW rs, \A r \in rs : RequestFields \subseteq DOMAIN r
  PROVE  \A r \in Outdated(rs) : RequestFields \subseteq DOMAIN r
BY DEF Outdated, RequestFields

(* What an invalidation makes of an entry.                                 *)
LEMMA InvalidEntries ==
  ASSUME SignOutInv, NEW k \in Keys
  PROVE  /\ EntryFields \subseteq DOMAIN InvalidCache[k]
         /\ InvalidCache[k].known = cache[k].known /\ InvalidCache[k].owed = cache[k].owed
         /\ k \in Restarted => InvalidCache[k].fetch = "first" \/ InvalidCache[k] = Blank
         /\ cache[k].known => InvalidCache[k].invalid
         /\ Unsettled(cache[k]) => Unsettled(InvalidCache[k])
<1>1. EntryFields \subseteq DOMAIN cache[k]
  BY InvShapes DEF Shapes
<1> DEFINE e == cache[k]
           g == IF Restarts(e, k \in Watching) THEN Fetching(e, "first") ELSE e
<1>2. InvalidCache[k] = IF e = Blank THEN e ELSE [g EXCEPT !.invalid = TRUE]
  BY DEF InvalidCache, Invalidated
<1>3. /\ EntryFields \subseteq DOMAIN g /\ g.known = e.known /\ g.owed = e.owed
      /\ k \in Restarted => g.fetch = "first"
  BY <1>1 DEF Fetching, EntryFields, Restarted, Restarts
<1>4. Unsettled(e) => Unsettled(g)
  BY ZenonT(60), <1>1, FetchingOwed
<1>5. ~Blank.known
  BY DEF Blank
<1> HIDE DEF g
<1>6. /\ EntryFields \subseteq DOMAIN [g EXCEPT !.invalid = TRUE]
      /\ [g EXCEPT !.invalid = TRUE].known = g.known
      /\ [g EXCEPT !.invalid = TRUE].owed = g.owed
      /\ [g EXCEPT !.invalid = TRUE].fetch = g.fetch
      /\ [g EXCEPT !.invalid = TRUE].error = g.error
      /\ [g EXCEPT !.invalid = TRUE].invalid
  BY ZenonT(60), <1>3 DEF EntryFields
<1>7. Unsettled(e) => Unsettled([g EXCEPT !.invalid = TRUE])
  BY ZenonT(60), <1>4, <1>6 DEF Unsettled
<1>8. CASE e = Blank
  BY ZenonT(60), <1>1, <1>2, <1>5, <1>8 DEF Unsettled
<1>9. CASE e # Blank
  BY ZenonT(60), <1>2, <1>3, <1>6, <1>7, <1>9
<1> QED
  BY <1>8, <1>9

(* A query in view with an answer is fetched anew by an invalidation.      *)
LEMMA InvalidPromise ==
  ASSUME SignOutInv, NEW k \in Keys, cache[k].known, k \in Watching, NEW rs,
         \A r \in rs : RequestFields \subseteq DOMAIN r
  PROVE  Promised(InvalidCache[k], Replaced(rs), k)
<1>1. k \in Restarted
  BY DEF Restarted, Restarts
<1>2. InvalidCache[k].known /\ InvalidCache[k] # Blank
  BY InvalidEntries DEF Blank
<1>3. InvalidCache[k].fetch = "first" /\ InvalidCache[k].invalid
  BY ZenonT(60), <1>1, <1>2, InvalidEntries
<1>4. Unsettled(InvalidCache[k])
  BY <1>2, <1>3 DEF Unsettled
<1> QED
  BY ZenonT(60), <1>1, <1>4, ReplacedDue DEF Promised

(* "Refresh now" keeps what is owed under way.                             *)
LEMMA RefreshOwed == ASSUME SignOutInv, OwedInv, RefreshNow PROVE OwedInv'
<1> DEFINE c == InvalidCache
           rs == Replaced(requests)
<1>1. Render(c, rs, mutations)
  BY DEF RefreshNow
<1>2. Shapes(c, rs)
  BY InvShapes, InvalidEntries, ReplacedShapes DEF Shapes
<1>3. ASSUME NEW k \in Keys, c[k].owed PROVE Promised(c[k], rs, k)
  <2>1. cache[k].owed
    BY <1>3, InvalidEntries
  <2>2. Unsettled(cache[k]) /\ Due(requests, k)
    BY ZenonT(60), <2>1 DEF OwedInv, Promised
  <2>3. Unsettled(c[k])
    BY ZenonT(60), <2>2, InvalidEntries
  <2>4. Due(rs, k)
    BY ZenonT(60), <2>2, DueReplaced, InvShapes DEF Shapes
  <2> QED
    BY <2>3, <2>4 DEF Promised
<1> HIDE DEF c, rs
<1> QED
  BY <1>1, <1>2, <1>3, RenderOwed

(* An order that succeeds owes only what it fetches anew.                  *)
LEMMA DeliverCallOwed ==
  ASSUME SignOutInv, OwedInv, NEW m \in mutations, NEW i, DeliverCall(m, i)
  PROVE  OwedInv'
<1>1. CASE Success(m, i)
  <2> DEFINE d == InvalidCache
             c == Owing(d)
             qs == Outdated(requests)
             rs == Replaced(qs)
  <2>1. Render(c, rs, mutations \ {m})
    BY <1>1 DEF DeliverCall
  <2>2. \A r \in qs : RequestFields \subseteq DOMAIN r
    BY OutdatedShapes, InvShapes DEF Shapes
  <2>3. ASSUME NEW k \in Keys
        PROVE  /\ EntryFields \subseteq DOMAIN c[k]
               /\ Unsettled(d[k]) => Unsettled(c[k])
               /\ c[k].owed => d[k].known /\ k \in Watching
    <3>1. EntryFields \subseteq DOMAIN d[k]
      BY InvalidEntries
    <3> DEFINE o == d[k].known /\ k \in Watching
    <3>2. c[k] = [d[k] EXCEPT !.owed = o]
      BY DEF Owing
    <3>3. /\ c[k].owed = o /\ EntryFields \subseteq DOMAIN c[k]
          /\ c[k].known = d[k].known /\ c[k].fetch = d[k].fetch
          /\ c[k].invalid = d[k].invalid /\ c[k].error = d[k].error
      <4> HIDE DEF o, c, d
      <4> QED BY ZenonT(60), <3>1, <3>2 DEF EntryFields
    <3> HIDE DEF c, d
    <3> QED
      BY ZenonT(60), <3>3 DEF Unsettled
  <2>4. Shapes(c, rs)
    <3> HIDE DEF c, qs
    <3> QED BY ZenonT(60), <2>2, <2>3, ReplacedShapes DEF Shapes
  <2>5. ASSUME NEW k \in Keys, c[k].owed PROVE Promised(c[k], rs, k)
    <3>1. cache[k].known /\ k \in Watching
      BY <2>3, <2>5, InvalidEntries
    <3>2. Promised(d[k], rs, k)
      <4> HIDE DEF qs
      <4> QED BY <2>2, <3>1, InvalidPromise
    <3> QED
      BY ZenonT(60), <2>3, <3>2 DEF Promised
  <2> HIDE DEF c, rs
  <2> QED
    BY ZenonT(60), <2>1, <2>4, <2>5, RenderOwed
<1>2. CASE ~Success(m, i)
  <2>1. PICK ms : Render(cache, requests, ms)
    BY ZenonT(60), <1>2 DEF DeliverCall
  <2> QED
    BY ZenonT(60), <2>1, InvShapes, RenderOwed DEF OwedInv
<1> QED
  BY <1>1, <1>2

(* A fetch that fails is tried again or reported, and settles nothing.     *)
LEMMA FailingOwed ==
  ASSUME NEW e, EntryFields \subseteq DOMAIN e, NEW watched
  PROVE  /\ EntryFields \subseteq DOMAIN Failing(e, watched)
         /\ Failing(e, watched).owed = e.owed
         /\ Unsettled(e) => Unsettled(Failing(e, watched))
<1>1. \/ Failing(e, watched) = [e EXCEPT !.fetch = "wait"]
      \/ Failing(e, watched) = [e EXCEPT !.fetch = "idle", !.error = TRUE]
  BY ZenonT(60) DEF Failing
<1>2. CASE Failing(e, watched) = [e EXCEPT !.fetch = "wait"]
  BY <1>2 DEF Unsettled, EntryFields
<1>3. CASE Failing(e, watched) = [e EXCEPT !.fetch = "idle", !.error = TRUE]
  BY ZenonT(60), <1>3 DEF Unsettled, EntryFields
<1> QED
  BY <1>1, <1>2, <1>3

(* The answer to a query that still matters, given after the last order,   *)
(* pays what is owed; a fetch that fails is tried again or reported.       *)
LEMMA HeardOwed ==
  ASSUME SignOutInv, OwedInv, NEW r \in requests, NEW q, NEW ms,
         Render(Heard(q), requests \ {r}, ms),
         q.for = r.for /\ q.live = r.live /\ q.key = r.key /\ q.fresh = r.fresh,
         q.reply = "ok" => r.reply = "ok"
  PROVE  OwedInv'
<1> DEFINE c == Heard(q)
           rs == requests \ {r}
<1>1. ASSUME NEW k \in Keys
      PROVE  /\ EntryFields \subseteq DOMAIN c[k]
             /\ c[k].owed => Promised(c[k], requests, k)
  <2>1. EntryFields \subseteq DOMAIN cache[k] /\ DOMAIN cache = Keys
    BY ZenonT(60), InvShapes DEF Shapes, SignOutInv
  <2>2. CASE q.for # "query" \/ ~q.live \/ q.key # k
    <3>1. c[k] = cache[k]
      BY <2>1, <2>2 DEF Heard
    <3> QED
      BY ZenonT(60), <2>1, <3>1 DEF OwedInv
  <2>3. CASE q.for = "query" /\ q.live /\ q.key = k /\ q.reply = "ok"
    <3>1. c[k] = Stored(cache[k], q)
      BY <2>1, <2>3 DEF Heard
    <3> HIDE DEF c
    <3>2. EntryFields \subseteq DOMAIN c[k] /\ (c[k].owed => cache[k].owed /\ ~q.fresh)
      BY ZenonT(60), <3>1, StoredFields
    <3>3. cache[k].owed => q.fresh
      BY ZenonT(60), <2>3 DEF OwedInv, Promised, Due
    <3> QED
      BY ZenonT(60), <3>2, <3>3
  <2>4. CASE q.for = "query" /\ q.live /\ q.key = k /\ q.reply # "ok"
    <3> DEFINE w == q.key \in Watching
    <3>1. c[k] = Failing(cache[k], w)
      BY <2>1, <2>4 DEF Heard
    <3> HIDE DEF c, w
    <3>2. EntryFields \subseteq DOMAIN c[k] /\ c[k].owed = cache[k].owed
          /\ (Unsettled(cache[k]) => Unsettled(c[k]))
      BY ZenonT(60), <2>1, <3>1, FailingOwed
    <3> QED
      BY ZenonT(60), <3>2 DEF OwedInv, Promised
  <2> QED
    BY <2>2, <2>3, <2>4
<1>2. Shapes(c, rs)
  <2> HIDE DEF c
  <2> QED BY <1>1, InvShapes DEF Shapes
<1>3. \A k \in Keys : c[k].owed => Promised(c[k], rs, k)
  <2> HIDE DEF c
  <2> QED BY <1>1 DEF Promised, Due
<1>4. Render(c, rs, ms)
  OBVIOUS
<1> HIDE DEF c, rs
<1> QED
  BY ZenonT(60), <1>2, <1>3, <1>4, RenderOwed

(* The steps that only add or change requests.                             *)
LEMMA RequestsOwed ==
  ASSUME OwedInv, UNCHANGED <<session, mounted, route, cache>>,
         \A q \in requests' : \/ q.for # "query" \/ q.reply = "none" \/ q.fresh
                              \/ q \in requests
  PROVE  OwedInv'
<1>1. \A k : Due(requests, k) => Due(requests', k)
  BY DEF Due
<1> QED
  BY <1>1 DEF OwedInv, Promised

(* An answer is given after every order so far.                            *)
LEMMA ServeOwed ==
  ASSUME SignOutInv, OwedInv, NEW r \in requests,
         ServeQuery(r) \/ \E t \in Token \cup {NoToken} : \E no : ServeSignIn(r, t, no)
  PROVE  OwedInv'
<1>1. RequestFields \subseteq DOMAIN r
  BY ZenonT(60), InvShapes DEF Shapes
<1>2. CASE ServeQuery(r)
  <2>1. PICK reply, data :
          requests' = (requests \ {r}) \cup
                        {[r EXCEPT !.fresh = TRUE, !.reply = reply, !.data = data]}
    BY ZenonT(60), <1>2 DEF ServeQuery
  <2>2. [r EXCEPT !.fresh = TRUE, !.reply = reply, !.data = data].fresh
    BY ZenonT(60), <1>1 DEF RequestFields
  <2> QED
    BY ZenonT(60), <1>2, <2>1, <2>2, RequestsOwed DEF ServeQuery, authVars
<1>3. ASSUME NEW t \in Token \cup {NoToken}, NEW no, ServeSignIn(r, t, no) PROVE OwedInv'
  <2>1. PICK reply : requests' = (requests \ {r}) \cup {[r EXCEPT !.reply = reply, !.grant = t]}
    BY ZenonT(60), <1>3 DEF ServeSignIn
  <2>2. [r EXCEPT !.reply = reply, !.grant = t].for # "query"
    BY ZenonT(60), <1>1, <1>3 DEF RequestFields, ServeSignIn
  <2> QED
    BY ZenonT(60), <1>3, <2>1, <2>2, RequestsOwed DEF ServeSignIn, authVars
<1> QED
  BY <1>2, <1>3

(* A fetch that begins keeps what is owed under way.                       *)
LEMMA StillOwed ==
  ASSUME SignOutInv, OwedInv, NEW k \in Keys, NEW try, try # "idle", Still(k, try)
  PROVE  OwedInv'
<1>1. /\ cache' = [cache EXCEPT ![k] = Fetching(@, try)] /\ DOMAIN cache = Keys
      /\ requests' = requests \cup {Ask("query", k, session)}
      /\ UNCHANGED <<session, mounted, route>>
  BY DEF Still, authVars, SignOutInv
<1>2. \A x : Due(requests, x) => Due(requests', x)
  BY <1>1, AskNone DEF Due
<1>3. EntryFields \subseteq DOMAIN cache[k]
  BY InvShapes DEF Shapes
<1>4. ASSUME NEW x \in Keys, cache'[x].owed PROVE Promised(cache'[x], requests', x)
  <2>1. cache'[x] = cache[x] \/ (x = k /\ cache'[x] = Fetching(cache[k], try))
    BY <1>1
  <2>2. cache[x].owed /\ (Unsettled(cache[x]) => Unsettled(cache'[x]))
    BY ZenonT(60), <1>3, <1>4, <2>1, FetchingOwed
  <2> QED
    BY ZenonT(60), <1>2, <2>2 DEF OwedInv, Promised
<1> QED
  BY <1>4 DEF OwedInv

(* A retry that is called off is a failure, and an entry that goes takes   *)
(* what it owes along.                                                     *)
LEMMA UnwatchedOwed ==
  ASSUME SignOutInv, OwedInv, NEW k \in Keys, Unwatched(k)
  PROVE  OwedInv'
<1>1. /\ cache' = [cache EXCEPT ![k] = IF @.fetch = "wait" THEN Failing(@, FALSE) ELSE Blank]
      /\ DOMAIN cache = Keys /\ requests' = requests
      /\ UNCHANGED <<session, mounted, route>>
  BY DEF Unwatched, authVars, SignOutInv
<1>2. EntryFields \subseteq DOMAIN cache[k] /\ ~Blank.owed
  BY InvShapes DEF Blank, Shapes
<1>3. ASSUME NEW x \in Keys, cache'[x].owed PROVE Promised(cache'[x], requests', x)
  <2>1. \/ cache'[x] = cache[x] \/ cache'[x] = Blank
        \/ x = k /\ cache'[x] = Failing(cache[k], FALSE)
    BY ZenonT(60), <1>1
  <2>2. /\ Failing(cache[k], FALSE).owed = cache[k].owed
        /\ Unsettled(cache[k]) => Unsettled(Failing(cache[k], FALSE))
    BY <1>2, FailingOwed
  <2>3. cache'[x] # Blank
    BY <1>2, <1>3
  <2>4. cache[x].owed /\ (Unsettled(cache[x]) => Unsettled(cache'[x]))
    BY ZenonT(60), <1>3, <2>1, <2>2, <2>3
  <2> QED
    BY ZenonT(60), <1>1, <2>4 DEF OwedInv, Promised
<1> QED
  BY <1>3 DEF OwedInv

(* The steps that keep the cache, with fewer requests.                     *)
LEMMA PlainOwed ==
  ASSUME SignOutInv, OwedInv, NEW rs, NEW ms, Render(cache, rs, ms), rs \subseteq requests
  PROVE  OwedInv'
<1>1. Shapes(cache, rs)
  BY InvShapes DEF Shapes
<1>2. \A k \in Keys : cache[k].owed => Promised(cache[k], rs, k)
  BY DEF OwedInv, Promised, Due
<1> QED
  BY <1>1, <1>2, RenderOwed

(* The steps of the tab and the user owe nothing new.                      *)
LEMMA TabOwed == SignOutInv /\ OwedInv /\ TabStep => OwedInv'
<1> SUFFICES ASSUME SignOutInv, OwedInv, TabStep PROVE OwedInv'
  OBVIOUS
<1>1. CASE Mount
  BY ZenonT(60), <1>1, KeptOwed, ExchangeShapes DEF Mount
<1>2. CASE RedirectToLogin \/ LeaveLogin
  BY <1>2, PlainOwed DEF RedirectToLogin, LeaveLogin
<1>3. ASSUME NEW to, Navigate(to) PROVE OwedInv'
  BY <1>3, PlainOwed DEF Navigate
<1>4. CASE Loaded
  <2>1. PICK ms : Render([k \in Keys |-> Blank], {}, ms)
    BY ZenonT(60), <1>4 DEF Loaded
  <2> QED
    BY <2>1, BlankOwed
<1>5. ASSUME NEW t, NEW how, Lapse(t, how) \/ OtherTab(t) \/ AuthConfig(how) PROVE OwedInv'
  BY <1>5, RequestsOwed DEF Lapse, OtherTab, AuthConfig, authVars, cacheVars
<1>6. CASE onSubmit \/ TestConnection
  <2>1. PICK for : /\ for # "query" /\ requests' = requests \cup {Ask(for, NoKey, session)}
                   /\ UNCHANGED <<session, mounted, route, cache>>
    BY <1>6 DEF onSubmit, TestConnection, authVars
  <2> QED
    BY <2>1, AskNone, RequestsOwed
<1>7. CASE logout
  BY <1>7, BlankOwed, ForgetShapes DEF logout
<1>8. CASE RefreshNow
  BY <1>8, RefreshOwed
<1>9. CASE SetAutoRefresh
  BY <1>9, RequestsOwed DEF SetAutoRefresh, authVars, cacheVars
<1> QED
  BY <1>1, <1>2, <1>3, <1>4, <1>5, <1>6, <1>7, <1>8, <1>9 DEF TabStep, Reload, startSSO

(* The steps of requests and queries pay, or keep trying.                  *)
LEMMA RequestOwed == SignOutInv /\ OwedInv /\ RequestStep => OwedInv'
<1> SUFFICES ASSUME SignOutInv, OwedInv, RequestStep PROVE OwedInv'
  OBVIOUS
<1>1. ASSUME NEW r \in requests, DeliverQuery(r) PROVE OwedInv'
  BY <1>1, HeardOwed DEF DeliverQuery
<1>2. ASSUME NEW r \in requests, DeliverSignIn(r) PROVE OwedInv'
  <2>1. Render(cache, requests \ {r}, mutations) /\ requests \ {r} \subseteq requests
    BY ZenonT(60), <1>2 DEF DeliverSignIn
  <2> QED
    BY <2>1, PlainOwed
<1>3. ASSUME NEW r \in requests, Drop(r) PROVE OwedInv'
  <2> DEFINE q == [r EXCEPT !.reply = "none"]
  <2>1. Render(Heard(q), requests \ {r}, mutations)
    BY <1>3 DEF Drop
  <2>2. /\ q.for = r.for /\ q.live = r.live /\ q.key = r.key /\ q.fresh = r.fresh
        /\ q.reply # "ok"
    BY InvShapes DEF Shapes, RequestFields
  <2> HIDE DEF q
  <2> QED
    BY <2>1, <2>2, HeardOwed
<1>4. ASSUME NEW r \in requests,
             ServeQuery(r) \/ \E t \in Token \cup {NoToken} : \E no : ServeSignIn(r, t, no)
      PROVE  OwedInv'
  BY <1>4, ServeOwed
<1>5. ASSUME NEW k \in Keys, Refetch(k) \/ Retry(k) \/ Unwatched(k) PROVE OwedInv'
  BY <1>5, StillOwed, UnwatchedOwed DEF Refetch, Retry
<1> QED
  BY <1>1, <1>2, <1>3, <1>4, <1>5 DEF RequestStep

(* The steps of orders, and of the server.                                 *)
LEMMA OrderOwed == SignOutInv /\ OwedInv /\ OrderStep => OwedInv'
<1> SUFFICES ASSUME SignOutInv, OwedInv, OrderStep PROVE OwedInv'
  OBVIOUS
<1>1. ASSUME NEW o, NEW j, NEW to, Mutate(o) \/ JobMoves(j, to) PROVE OwedInv'
  BY <1>1, RequestsOwed DEF Mutate, JobMoves, authVars, cacheVars
<1>2. ASSUME NEW m \in mutations, NEW i, ServeCall(m, i) \/ DropCall(m, i) PROVE OwedInv'
  <2>1. \E ms : Render(cache, requests, ms)
    BY ZenonT(60), <1>2 DEF ServeCall, DropCall
  <2> QED
    BY <2>1, PlainOwed
<1>3. ASSUME NEW m \in mutations, NEW i, DeliverCall(m, i) PROVE OwedInv'
  BY <1>3, DeliverCallOwed
<1> QED
  BY <1>1, <1>2, <1>3 DEF OrderStep

(* OrdersShow, for the same: after an order has succeeded (onSuccess in    *)
(* useAction) no answer from before it settles in a query that was in view *)
(* then and had an answer, whether it stays in view or not.  Queries that  *)
(* were still fetching their first answer are left out.                    *)
THEOREM OrdersAppear == ConsoleSpec => []OrdersShow
<1>1. ConsoleInit => OwedInv
  BY DEF ConsoleInit, OwedInv, Blank
<1>2. SignOutInv /\ OwedInv /\ [ConsoleNext]_consoleVars => SignOutInv' /\ OwedInv'
  <2> SUFFICES ASSUME SignOutInv, OwedInv, [ConsoleNext]_consoleVars
               PROVE  SignOutInv' /\ OwedInv'
    OBVIOUS
  <2>1. CASE UNCHANGED consoleVars
    BY <2>1, QuietInv, RequestsOwed DEF consoleVars, cacheVars, authVars
  <2>2. CASE ConsoleNext
    BY <2>2, TabInv, RequestInv, OrderInv, TabOwed, RequestOwed, OrderOwed DEF ConsoleNext
  <2> QED
    BY <2>1, <2>2
<1>3. OwedInv => OrdersShow
  BY ZenonT(60) DEF OwedInv, Promised, Unsettled, OrdersShow
<1> QED
  BY <1>1, <1>2, <1>3, InitInv, PTL DEF ConsoleSpec
-----------------------------------------------------------------------------
(* Where the console goes *)

OnPages(rs) == \A to \in rs : to.page \in PageNames

RouteInv == route.page \in PageNames \cup {"login"}

(* The fields of the routes.                                               *)
LEMMA RouteFields ==
  /\ \A q : Route(q).page = q
  /\ \A j : JobRoute(j).page = "job"
BY ZenonT(60) DEF Route, JobRoute

(* No link of a page leads to the login page.                              *)
LEMMA PageLeads ==
  ASSUME NEW at, at.page \in PageNames, NEW see, NEW failing, NEW allowed
  PROVE  OnPages(PageAt(at, see, failing, allowed).leads)
<1> DEFINE Leads == PageAt(at, see, failing, allowed).leads
<1> USE RouteFields DEF OnPages, PageNames, NAV, SYS
<1>1. CASE at.page = "overview"
  BY <1>1 DEF PageAt, Overview, StatCards, RecentFailures
<1>2. CASE at.page = "queues"
  BY <1>2 DEF PageAt, QueuesList
<1>3. CASE at.page = "queue"
  <2>1. OnPages(QueueTabs(see, allowed).leads)
    <3>1. QueueTabs(see, allowed).leads
            = JobsTable(see[Key("queueJobs")], allowed).leads
              \cup DelayedTable(see[Key("delayed")], allowed).leads
      BY DEF QueueTabs
    <3>2. QED
      BY ZenonT(60), <3>1, TableLeads DEF OnPages
  <2>2. OnPages(QueueDetail(see, failing, allowed).leads)
    BY ZenonT(60), <2>1 DEF QueueDetail
  <2>3. QED
    BY <1>3, <2>2 DEF PageAt
<1>4. CASE at.page = "job"
  <2>1. OnPages(JobDetail(at.job, see, failing, allowed).leads)
    BY ZenonT(60) DEF JobDetail, JobSections
  <2>2. QED
    BY ZenonT(60), <1>4, <2>1 DEF PageAt
<1>5. CASE at.page = "dlq"
  BY <1>5 DEF PageAt, DlqPage
<1>6. CASE at.page = "delayed"
  BY <1>6 DEF PageAt, DelayedPage, DelayedTable
<1>7. CASE at.page = "workers"
  BY <1>7 DEF PageAt, WorkersList
<1>8. CASE at.page = "worker"
  BY <1>8 DEF PageAt, WorkerDetail
<1>9. CASE at.page \in {"metrics", "settings", "connection"}
  BY <1>9 DEF PageAt, Metrics, SettingsPage, ConnectionPage
<1>10. CASE at.page = "notFound"
  BY <1>10 DEF PageAt, NotFoundComponent
<1>11. QED
  BY ZenonT(60), <1>1, <1>2, <1>3, <1>4, <1>5, <1>6, <1>7, <1>8, <1>9, <1>10

(* Nor does one of the shell.                                              *)
LEMMA PaletteLeads ==
  ASSUME NEW see
  PROVE  OnPages(CommandPalette(see).leads)
BY RouteFields DEF OnPages, CommandPalette, Sidebar, visibleNav, PageNames, NAV, SYS

(* The console is always at a page it has, and it is not sent to the login *)
(* page while there is a session, unless the user loads that page.         *)
LEMMA RouteStep ==
  ASSUME RouteInv, ConsoleNext
  PROVE  /\ RouteInv'
         /\ route.page # "login" /\ route'.page = "login" /\ presses' = presses
              => session = NoToken
<1> DEFINE Kept == route.page # "login" /\ route'.page = "login" /\ presses' = presses
                     => session = NoToken
<1> USE RouteFields
<1>1. ASSUME route' = route PROVE RouteInv' /\ Kept
  BY <1>1 DEF RouteInv
<1>2. ASSUME NEW q \in PageNames, route' = Route(q) PROVE RouteInv' /\ Kept
  <2>1. "login" \notin PageNames
    BY DEF PageNames, NAV, SYS
  <2>2. QED
    BY <1>2, <2>1 DEF RouteInv
<1>3. CASE RedirectToLogin
  BY <1>3 DEF RedirectToLogin, RouteInv, useSession
<1>4. CASE LeaveLogin
  <2>1. route' = Route("overview") /\ "overview" \in PageNames
    BY <1>4 DEF LeaveLogin, PageNames, NAV
  <2>2. QED
    BY <1>2, <2>1
<1>5. ASSUME Shell, NEW to \in Palette.leads \cup Page.leads, Navigate(to)
      PROVE  RouteInv' /\ Kept
  <2>1. route.page \in PageNames
    BY ZenonT(60), <1>5 DEF Shell, RouteInv
  <2>2. OnPages(Page.leads) /\ OnPages(Palette.leads)
    BY ZenonT(60), <2>1, PageLeads, PaletteLeads DEF Page, Palette
  <2>3. to.page \in PageNames /\ route' = to
    BY <1>5, <2>2 DEF OnPages, Navigate
  <2>4. "login" \notin PageNames
    BY DEF PageNames, NAV, SYS
  <2>5. QED
    BY <2>3, <2>4 DEF RouteInv
<1>6. ASSUME NEW to \in Locations, Reload(to) PROVE RouteInv' /\ Kept
  <2>1. to.page \in PageNames \cup {"login"}
    BY ConsoleAssumption DEF Locations, PageNames
  <2>2. route' = to /\ presses' # presses
    <3>1. route' = to /\ presses < MaxPresses /\ presses' = presses + 1
      BY <1>6 DEF Reload, Press
    <3>2. QED
      BY <3>1
  <2>3. QED
    BY <2>1, <2>2 DEF RouteInv
<1>7. ASSUME NEW r \in requests, DeliverSignIn(r) PROVE RouteInv' /\ Kept
  <2>1. route' = Route("overview") \/ route' = route
    BY <1>7 DEF DeliverSignIn
  <2>2. "overview" \in PageNames
    BY DEF PageNames, NAV
  <2>3. QED
    BY <1>1, <1>2, <2>1, <2>2
<1>8. ASSUME NEW m \in mutations, NEW i \in DOMAIN m.calls, DeliverCall(m, i)
      PROVE  RouteInv' /\ Kept
  <2>1. route' = Route("queue") \/ route' = route
    BY <1>8 DEF DeliverCall
  <2>2. "queue" \in PageNames
    BY ZenonT(60) DEF PageNames
  <2>3. QED
    BY ZenonT(60), <1>1, <1>2, <2>1, <2>2
<1>9. CASE TabStep
  <2>1. ASSUME \/ Mount \/ startSSO \/ onSubmit \/ logout \/ RefreshNow
               \/ TestConnection \/ SetAutoRefresh
        PROVE  route' = route
    BY ZenonT(60), <2>1 DEF Mount, startSSO, onSubmit, logout, RefreshNow, TestConnection, SetAutoRefresh
  <2>2. ASSUME NEW t, NEW how, Lapse(t, how) PROVE route' = route
    BY <2>2 DEF Lapse
  <2>3. ASSUME NEW t, OtherTab(t) PROVE route' = route
    BY <2>3 DEF OtherTab
  <2>4. ASSUME NEW c, AuthConfig(c) PROVE route' = route
    BY <2>4 DEF AuthConfig
  <2>5. QED
    BY ZenonT(60), <1>1, <1>3, <1>4, <1>5, <1>6, <1>9, <2>1, <2>2, <2>3, <2>4 DEF TabStep
<1>10. CASE RequestStep
  <2>1. ASSUME NEW r \in requests, ServeQuery(r) \/ DeliverQuery(r) \/ Drop(r)
        PROVE  route' = route
    BY ZenonT(60), <2>1 DEF ServeQuery, DeliverQuery, Drop
  <2>2. ASSUME NEW r \in requests, NEW t, NEW no, ServeSignIn(r, t, no) PROVE route' = route
    BY <2>2 DEF ServeSignIn
  <2>3. ASSUME NEW k \in Keys, Refetch(k) \/ Retry(k) \/ Unwatched(k) PROVE route' = route
    BY ZenonT(60), <2>3 DEF Refetch, Retry, Still, Unwatched
  <2>4. QED
    BY ZenonT(60), <1>1, <1>7, <1>10, <2>1, <2>2, <2>3 DEF RequestStep
<1>11. CASE OrderStep
  <2>1. ASSUME NEW o, Mutate(o) PROVE route' = route
    BY <2>1 DEF Mutate
  <2>2. ASSUME NEW m \in mutations, NEW i \in DOMAIN m.calls, ServeCall(m, i) \/ DropCall(m, i)
        PROVE  route' = route
    BY ZenonT(60), <2>2 DEF ServeCall, DropCall
  <2>3. ASSUME NEW j, NEW to, JobMoves(j, to) PROVE route' = route
    BY <2>3 DEF JobMoves
  <2>4. QED
    BY ZenonT(60), <1>1, <1>8, <1>11, <2>1, <2>2, <2>3 DEF OrderStep
<1>12. QED
  BY <1>9, <1>10, <1>11 DEF ConsoleNext

(* RootComponent sends nobody to the login page who is signed in: neither  *)
(* the guard during hydration nor any link, order or answer does.          *)
THEOREM NotSentToLogin == ConsoleSpec => StaysSignedIn
<1>1. ConsoleInit => RouteInv
  BY RouteFields DEF ConsoleInit, RouteInv, PageNames, NAV
<1>2. RouteInv /\ [ConsoleNext]_consoleVars => RouteInv'
  BY RouteStep DEF RouteInv, consoleVars
<1>3. RouteInv /\ [ConsoleNext]_consoleVars
        => [route.page # "login" /\ route'.page = "login" /\ presses' = presses
              => session = NoToken]_consoleVars
  BY RouteStep
<1>4. QED
  BY <1>1, <1>2, <1>3, PTL DEF ConsoleSpec, StaysSignedIn
-----------------------------------------------------------------------------
(* Types *)

(* What the server answers to a query: the jobs of a list, rows of jobs or *)
(* the row of the queue.                                                   *)
JobRow  == [job : Job, status : Place]
HomeRow == [job : TheQueue, status : {"paused", "healthy"}]
DataOf(k) ==
  IF k.query \in {"dlq", "delayed"} THEN SUBSET Job
  ELSE IF k.query \in {"queueJobs", "job"} THEN SUBSET JobRow
  ELSE SUBSET HomeRow

TypedEntry(e, k)  == e \in Entry /\ e.data \in DataOf(k)
TypedRequest(r)   == r \in Request /\ (r.for = "query" => r.key \in Keys /\ r.data \in DataOf(r.key))
TypedMutation(m)  == m \in Mutations /\ (m.here => "job" \in Pages)

TypedCache(c)      == c = [k \in Keys |-> c[k]] /\ \A k \in Keys : TypedEntry(c[k], k)
TypedRequests(rs)  == \A r \in rs : TypedRequest(r)
TypedMutations(ms) == \A m \in ms : TypedMutation(m)

(* What a step leaves alone that does not render. *)
TypedTab ==
  /\ session \in 0..MaxTokens /\ storage \in 0..MaxTokens
  /\ standing \in [Token -> {"unissued", "good", "expired", "refused"}]
  /\ mounted \in BOOLEAN /\ auto \in BOOLEAN
  /\ route \in Locations
  /\ code \in {"none", "new", "used"} /\ config \in {"unknown", "known", "failed"}
  /\ presses \in 0..MaxPresses /\ faults \in 0..MaxFaults
  /\ forgotten \subseteq Token

TypedServer == paused \in BOOLEAN /\ place \in [Job -> Place]

TypedScreen ==
  /\ TypedCache(cache) /\ TypedRequests(requests) /\ TypedMutations(mutations)
  /\ held \in Job \cup {NoJob} /\ (held # NoJob => JobKey(held) \in Keys)

TypedInv == TypedTab /\ TypedServer /\ TypedScreen

(* The answers are of those kinds, and those kinds are data.               *)
LEMMA DataKinds == \A k : DataOf(k) \subseteq Data /\ {} \in DataOf(k)
<1>1. ASSUME NEW k PROVE DataOf(k) \subseteq Data
  <2>1. SUBSET Job \subseteq Data
    BY DEF Data
  <2>2. JobRow \subseteq Rows /\ HomeRow \subseteq Rows
    BY DEF Rows, JobRow, HomeRow
  <2>3. SUBSET Rows \subseteq Data
    BY DEF Data
  <2>4. SUBSET JobRow \subseteq Data /\ SUBSET HomeRow \subseteq Data
    BY Zenon, <2>2, <2>3
  <2>5. QED
    BY <2>1, <2>4 DEF DataOf
<1>2. ASSUME NEW k PROVE {} \in DataOf(k)
  BY DEF DataOf
<1>3. QED
  BY <1>1, <1>2

(* The fields of a query.                                                  *)
LEMMA QueryFields ==
  /\ \A q : Key(q).query = q
  /\ \A j : JobKey(j).query = "job" /\ JobKey(j).job = j
  /\ \A k \in Query : k.query = "job" => k.job \in Job
  /\ \A j \in Job : JobKey(j) \in Query
  /\ Key("dlq") \in Query /\ Key("delayed") \in Query /\ Key("queueJobs") \in Query
<1>1. \A q : Key(q).query = q
  BY DEF Key
<1>2. \A j : JobKey(j).query = "job" /\ JobKey(j).job = j
  BY DEF JobKey
<1>3. ASSUME NEW k \in Query, k.query = "job" PROVE k.job \in Job
  BY <1>1, <1>2, <1>3 DEF Query
<1>4. ASSUME NEW j \in Job PROVE JobKey(j) \in Query
  BY DEF Query
<1>5. Key("dlq") \in Query /\ Key("delayed") \in Query /\ Key("queueJobs") \in Query
  BY DEF Query
<1>6. QED
  BY <1>1, <1>2, <1>3, <1>4, <1>5

(* Answer answers a query with data of its kind.                           *)
LEMMA AnswerKind ==
  ASSUME TypedServer, NEW k \in Query
  PROVE  Answer(k) \in DataOf(k)
<1>1. QueueRow \in SUBSET HomeRow
  BY DEF QueueRow, HomeRow, TheQueue
<1>2. ASSUME NEW js \in SUBSET Job PROVE JobRows(js) \in SUBSET JobRow
  BY <1>2 DEF JobRows, JobRow, TypedServer
<1>3. CASE k.query \in {"queues", "queue"}
  <2>1. Answer(k) = QueueRow
    BY <1>3 DEF Answer
  <2>2. QED
    BY <1>1, <1>3, <2>1 DEF DataOf
<1>4. CASE k.query \in {"dlq", "delayed"}
  <2>1. Answer(k) \in SUBSET Job
    BY <1>4 DEF Answer
  <2>2. QED
    BY <1>4, <2>1 DEF DataOf
<1>5. CASE k.query = "queueJobs"
  <2>1. Answer(k) = JobRows(Job)
    BY <1>5 DEF Answer
  <2>2. QED
    BY <1>2, <1>5, <2>1 DEF DataOf
<1>6. CASE k.query = "job"
  <2>1. Answer(k) = JobRows({k.job}) /\ {k.job} \in SUBSET Job
    BY <1>6, QueryFields DEF Answer
  <2>2. QED
    BY <1>2, <1>6, <2>1 DEF DataOf
<1>7. CASE k.query \notin {"queues", "queue", "dlq", "delayed", "queueJobs", "job"}
  <2>1. Answer(k) = {}
    BY ZenonT(60), <1>7 DEF Answer
  <2>2. QED
    BY <2>1, DataKinds
<1>8. QED
  BY <1>3, <1>4, <1>5, <1>6, <1>7

(* What is on the screen is of the kind the query asks for, the previous   *)
(* data of the job page included.                                          *)
LEMMA SeenKind ==
  ASSUME TypedInv, NEW k \in Query
  PROVE  seen[k] \in DataOf(k)
<1>1. CASE k \notin Keys
  BY <1>1, AnswerKind DEF seen, TypedInv
<1>2. CASE k \in Keys /\ seen[k] = cache[k].data
  BY <1>2 DEF TypedInv, TypedScreen, TypedCache, TypedEntry
<1>3. CASE k \in Keys /\ k.query = "job" /\ held # NoJob /\ seen[k] = cache[JobKey(held)].data
  <2>1. cache[JobKey(held)].data \in DataOf(JobKey(held))
    BY <1>3 DEF TypedInv, TypedScreen, TypedCache, TypedEntry
  <2>2. DataOf(JobKey(held)) = DataOf(k)
    BY ZenonT(60), <1>3, QueryFields DEF DataOf
  <2>3. QED
    BY <1>3, <2>1, <2>2
<1>4. QED
  BY ZenonT(60), <1>1, <1>2, <1>3 DEF seen

(* The buttons of every page give orders of the API, about jobs it has.    *)
LEMMA PageOrders ==
  ASSUME NEW see, \A k \in Query : see[k] \in DataOf(k), NEW failing, NEW allowed,
         NEW at \in Locations \ {Route("login")}
  PROVE  PageAt(at, see, failing, allowed).orders \subseteq Orders
<1>1. /\ see[Key("dlq")] \subseteq Job /\ see[Key("delayed")] \subseteq Job
      /\ see[Key("queueJobs")] \subseteq JobRow
  <2>1. /\ see[Key("dlq")] \in DataOf(Key("dlq"))
        /\ see[Key("delayed")] \in DataOf(Key("delayed"))
        /\ see[Key("queueJobs")] \in DataOf(Key("queueJobs"))
    BY QueryFields
  <2>2. QED
    BY ZenonT(60), <2>1, QueryFields DEF DataOf
<1>2. ASSUME NEW rows PROVE Toggle(rows) \subseteq Orders
  BY DEF Toggle, Orders, OnQueue
<1>3. ASSUME NEW op \in {"retryJob", "requeueJob", "deleteJob", "retryDlq", "deleteDlq",
                         "promoteDelayed", "cancelDelayed"}
      PROVE  Bulk(op) \subseteq Orders /\ \A js \in SUBSET Job : Each(op, js) \subseteq Orders
  <2>1. Bulk(op) \subseteq Orders
    BY DEF Orders
  <2>2. ASSUME NEW js \in SUBSET Job PROVE Each(op, js) \subseteq Bulk(op)
    BY ZenonT(60) DEF Each, Bulk
  <2>3. QED
    BY <2>1, <2>2
<1>4. OnQueue("purgeQueue") \in Orders /\ OnQueue("purgeDlq") \in Orders
  BY DEF Orders
<1>5. ASSUME NEW rows \in SUBSET JobRow, NEW R \in SUBSET rows PROVE {r.job : r \in R} \in SUBSET Job
  BY ZenonT(60) DEF JobRow
<1>6. DelayedTable(see[Key("delayed")], allowed).orders \subseteq Orders
  BY <1>1, <1>3 DEF DelayedTable
<1>7. CASE at.page = "overview"
  BY <1>2, <1>7 DEF PageAt, Overview, OverviewOrders
<1>8. CASE at.page = "queues"
  BY <1>2, <1>8 DEF PageAt, QueuesList
<1>9. CASE at.page = "queue"
  <2>1. JobsTable(see[Key("queueJobs")], allowed).orders \subseteq Orders
    <3> DEFINE R == {x \in see[Key("queueJobs")] : x.status \in {"failed", "retrying", "cancelled"}}
    <3>1. {r.job : r \in R} \in SUBSET Job
      BY ZenonT(60), <1>1, <1>5
    <3>2. Each("retryJob", {r.job : r \in R}) \subseteq Orders
      BY ZenonT(60), <1>3, <3>1
    <3>3. QED
      BY <1>3, <3>2 DEF JobsTable
  <2>2. QueueTabs(see, allowed).orders \subseteq Orders
    BY ZenonT(60), <1>6, <2>1 DEF QueueTabs
  <2>3. QueueDetail(see, failing, allowed).orders \subseteq Orders
    BY <1>2, <1>4, <2>2 DEF QueueDetail
  <2>4. QED
    BY ZenonT(60), <1>9, <2>3 DEF PageAt
<1>10. CASE at.page = "job"
  <2>1. at.job \in Job /\ JobKey(at.job) \in Query
    <3>1. at.job \in Job
      BY SMTT(30), <1>10, RouteFields DEF Locations, JobRoute
    <3>2. QED
      BY <3>1, QueryFields
  <2>2. see[JobKey(at.job)] \subseteq JobRow
    BY <2>1, QueryFields DEF DataOf
  <2>3. ASSUME NEW rows \in SUBSET JobRow PROVE JobOrders(rows) \subseteq Orders
    <3>1. {r.job : r \in rows} \in SUBSET Job
      BY ZenonT(60), <1>5
    <3>2. QED
      BY <1>3, <3>1 DEF JobOrders
  <2>4. JobDetail(at.job, see, failing, allowed).orders \subseteq Orders
    BY <2>2, <2>3 DEF JobDetail
  <2>5. QED
    BY ZenonT(60), <1>10, <2>4 DEF PageAt
<1>11. CASE at.page = "dlq"
  <2>1. DlqOrders(see[Key("dlq")]) \subseteq Orders
    BY <1>1, <1>3, <1>4 DEF DlqOrders
  <2>2. QED
    BY ZenonT(60), <1>11, <2>1 DEF PageAt, DlqPage
<1>12. CASE at.page = "delayed"
  BY <1>6, <1>12 DEF PageAt, DelayedPage
<1>13. CASE at.page \in {"workers", "worker", "metrics", "settings", "connection", "notFound"}
  BY <1>13 DEF PageAt, WorkersList, WorkerDetail, Metrics, SettingsPage, ConnectionPage,
               NotFoundComponent
<1>14. at.page \in PageNames
  BY RouteFields, ConsoleAssumption DEF Locations, PageNames
<1>15. QED
  BY ZenonT(60), <1>7, <1>8, <1>9, <1>10, <1>11, <1>12, <1>13, <1>14 DEF PageNames, NAV, SYS

(* Fetches, failures, answers and invalidations keep an entry's type.      *)
LEMMA EntryTypes ==
  ASSUME NEW k, NEW e, TypedEntry(e, k)
  PROVE  /\ \A try \in {"first", "second"} : TypedEntry(Fetching(e, try), k)
         /\ \A watched \in BOOLEAN : TypedEntry(Failing(e, watched), k)
         /\ \A r : TypedRequest(r) /\ r.data \in DataOf(k) => TypedEntry(Stored(e, r), k)
         /\ \A watched \in BOOLEAN : TypedEntry(Invalidated(e, watched), k)
         /\ \A b \in BOOLEAN : TypedEntry([e EXCEPT !.owed = b], k)
<1> USE DEF TypedEntry, Entry
<1>1. ASSUME NEW try \in {"first", "second"} PROVE TypedEntry(Fetching(e, try), k)
  BY ZenonT(60) DEF Fetching
<1>2. ASSUME NEW watched \in BOOLEAN PROVE TypedEntry(Failing(e, watched), k)
  BY ZenonT(60) DEF Failing
<1>3. ASSUME NEW r, TypedRequest(r), r.data \in DataOf(k) PROVE TypedEntry(Stored(e, r), k)
  BY ZenonT(60), <1>3 DEF Stored, TypedRequest, Request
<1>4. ASSUME NEW watched \in BOOLEAN PROVE TypedEntry(Invalidated(e, watched), k)
  <2>1. ASSUME NEW x, TypedEntry(x, k) PROVE TypedEntry([x EXCEPT !.invalid = TRUE], k)
    BY ZenonT(60), <2>1
  <2>2. Invalidated(e, watched) = e \/ Invalidated(e, watched) = [e EXCEPT !.invalid = TRUE]
        \/ Invalidated(e, watched) = [Fetching(e, "first") EXCEPT !.invalid = TRUE]
    BY ZenonT(60) DEF Invalidated
  <2>3. TypedEntry(Fetching(e, "first"), k)
    BY <1>1
  <2> HIDE DEF TypedEntry
  <2>4. QED
    BY <2>1, <2>2, <2>3
<1>5. ASSUME NEW b \in BOOLEAN PROVE TypedEntry([e EXCEPT !.owed = b], k)
  OBVIOUS
<1>6. QED
  BY <1>1, <1>2, <1>3, <1>4, <1>5

(* An empty entry. *)
LEMMA BlankTyped == ASSUME NEW k PROVE TypedEntry(Blank, k)
BY ConsoleAssumption, DataKinds DEF TypedEntry, Entry, Blank

(* A new request, and a request that is changed by what happens to it.     *)
LEMMA RequestTypes ==
  /\ \A k \in Keys, t \in 0..MaxTokens : TypedRequest(Ask("query", k, t))
  /\ \A for \in {"login", "exchange", "version"}, t \in 0..MaxTokens :
       TypedRequest(Ask(for, NoKey, t))
  /\ \A r : \A b \in BOOLEAN : TypedRequest(r) =>
       TypedRequest([r EXCEPT !.live = b]) /\ TypedRequest([r EXCEPT !.fresh = b])
<1>1. ASSUME NEW k \in Keys, NEW t \in 0..MaxTokens PROVE TypedRequest(Ask("query", k, t))
  <2> DEFINE r == Ask("query", k, t)
  <2>1. r \in Request /\ r.key = k /\ r.data = {}
    BY ZenonT(60), AskTypes
  <2> HIDE DEF r
  <2>2. r.data \in DataOf(r.key)
    BY ZenonT(60), <2>1, DataKinds
  <2>3. TypedRequest(r)
    BY ZenonT(60), <2>1, <2>2 DEF TypedRequest
  <2>4. QED
    BY ZenonT(60), <2>3 DEF r
<1>2. ASSUME NEW for \in {"login", "exchange", "version"}, NEW t \in 0..MaxTokens
      PROVE  TypedRequest(Ask(for, NoKey, t))
  <2>1. Ask(for, NoKey, t).for # "query"
    BY AskFields
  <2>2. QED
    BY ZenonT(60), <2>1, AskTypes DEF TypedRequest
<1> USE ConsoleAssumption, DataKinds DEF TypedRequest, Request, Reply
<1>3. ASSUME NEW r, NEW b \in BOOLEAN, TypedRequest(r)
      PROVE  TypedRequest([r EXCEPT !.live = b]) /\ TypedRequest([r EXCEPT !.fresh = b])
  BY <1>3
<1>4. QED
  BY ZenonT(60), <1>1, <1>2, <1>3

(* An order of the API that is given, and one that loses its page or one   *)
(* of whose requests gets further.                                         *)
CallState == {"sent", "late", "void", "settled"} \cup Reply

LEMMA MutationTypes ==
  /\ \A o \in Orders, t \in 0..MaxTokens, b \in BOOLEAN : (b => "job" \in Pages) =>
       TypedMutation([op |-> o.op, token |-> t, live |-> TRUE, here |-> b,
                      calls |-> [i \in o.ids |-> "sent"]])
  /\ \A m : \A b \in BOOLEAN : TypedMutation(m) /\ (b => "job" \in Pages) =>
       TypedMutation([m EXCEPT !.here = b])
  /\ \A m, f : \A b \in BOOLEAN :
       TypedMutation(m) /\ f \in [DOMAIN m.calls -> CallState] =>
         TypedMutation([m EXCEPT !.calls = f, !.live = b])
<1> DEFINE C == UNION {[o.ids -> CallState] : o \in Orders}
<1>1. Mutations = [op : {o.op : o \in Orders}, token : 0..MaxTokens, live : BOOLEAN,
                   here : BOOLEAN, calls : C]
  BY DEF Mutations, CallState
<1>2. ASSUME NEW o \in Orders PROVE [i \in o.ids |-> "sent"] \in C /\ o.op \in {x.op : x \in Orders}
  <2>1. [i \in o.ids |-> "sent"] \in [o.ids -> CallState]
    BY DEF CallState
  <2>2. QED
    BY <2>1
<1>3. ASSUME NEW g \in C, NEW f \in [DOMAIN g -> CallState] PROVE f \in C
  OBVIOUS
<1> HIDE DEF C
<1>4. ASSUME NEW o \in Orders, NEW t \in 0..MaxTokens, NEW b \in BOOLEAN, b => "job" \in Pages
      PROVE  TypedMutation([op |-> o.op, token |-> t, live |-> TRUE, here |-> b,
                            calls |-> [i \in o.ids |-> "sent"]])
  BY ZenonT(60), <1>1, <1>2, <1>4 DEF TypedMutation
<1>5. ASSUME NEW m, NEW b \in BOOLEAN, TypedMutation(m), b => "job" \in Pages
      PROVE  TypedMutation([m EXCEPT !.here = b])
  BY <1>1, <1>5 DEF TypedMutation
<1>6. ASSUME NEW m, NEW f, NEW b \in BOOLEAN, TypedMutation(m), f \in [DOMAIN m.calls -> CallState]
      PROVE  TypedMutation([m EXCEPT !.calls = f, !.live = b])
  <2>1. m.calls \in C /\ f \in C
    BY <1>1, <1>3, <1>6 DEF TypedMutation
  <2>2. QED
    BY ZenonT(60), <1>1, <1>6, <2>1 DEF TypedMutation
<1>7. QED
  BY ZenonT(60), <1>4, <1>5, <1>6

(* Only followed queries are watched, and of a job page the job is known.  *)
LEMMA WatchedKeys ==
  ASSUME route' \in Locations
  PROVE  /\ Appearing \subseteq Keys
         /\ route'.page = "job" => route'.job \in Job /\ "job" \in Pages
<1>1. route'.page # "login" => route' \in Locations \ {Route("login")}
  BY RouteFields
<1>2. ShellAsks \subseteq Keys /\ \A l \in Locations \ {Route("login")} : PageAsks[l] \subseteq Keys
  BY ZenonT(60) DEF ShellAsks, PageAsks
<1>3. Watching' \subseteq Keys
  <2>1. ShellAsks' = ShellAsks /\ PageAsks' = PageAsks
    BY ZenonT(60) DEF ShellAsks, PageAsks, Unseen, Unfailed
  <2>2. Watching' = IF Shell' THEN ShellAsks \cup PageAsks[route'] ELSE {}
    BY <2>1 DEF Watching
  <2>3. QED
    BY <1>1, <1>2, <2>2 DEF Shell
<1>4. Appearing \subseteq Keys
  BY ZenonT(60), <1>1, <1>2, <1>3 DEF Appearing, Shell
<1>5. route'.page = "job" => route'.job \in Job /\ "job" \in Pages
  BY ConsoleAssumption, RouteFields DEF Locations, JobRoute
<1>6. QED
  BY <1>4, <1>5

(* Render keeps the types of what it is given.                             *)
LEMMA RenderTypes ==
  ASSUME NEW c, NEW rs, NEW ms, Render(c, rs, ms),
         session' \in 0..MaxTokens, route' \in Locations,
         TypedCache(c), TypedRequests(rs), TypedMutations(ms),
         held \in Job \cup {NoJob}, held # NoJob => JobKey(held) \in Keys
  PROVE  TypedScreen'
<1>1. PICK aged \in SUBSET {k \in Appearing : c[k].known /\ ~c[k].invalid} :
        LET asked == {k \in Appearing : Fetches(c[k], k \in aged)}
        IN  /\ cache' = [k \in Keys |->
                 IF k \in asked THEN Fetching(c[k], "first") ELSE c[k]]
            /\ requests' = Orphaned(rs) \cup {Ask("query", k, session') : k \in asked}
            /\ held' = IF ~(Shell' /\ route'.page = "job") THEN NoJob
                       ELSE IF JobKey(route'.job) \in Keys /\ c[JobKey(route'.job)].known
                       THEN route'.job ELSE held
            /\ mutations' = {[m EXCEPT !.here = @ /\ Shell' /\ route'.page = "job"] :
                 m \in {x \in ms : \E i \in DOMAIN x.calls : x.calls[i] \notin {"void", "settled"}}}
  BY ZenonT(60) DEF Render
<1> DEFINE asked == {k \in Appearing : Fetches(c[k], k \in aged)}
<1>2. asked \subseteq Keys
  BY WatchedKeys
<1>3. cache' = [k \in Keys |->
                 IF k \in asked THEN Fetching(c[k], "first") ELSE c[k]]
  BY <1>1
<1>4. requests' = Orphaned(rs) \cup {Ask("query", k, session') : k \in asked}
  BY <1>1
<1> HIDE DEF asked
<1>5. ASSUME NEW k \in Keys PROVE TypedEntry(cache'[k], k)
  <2> DEFINE g == IF k \in asked THEN Fetching(c[k], "first") ELSE c[k]
  <2>1. TypedEntry(c[k], k)
    BY DEF TypedCache
  <2>2. TypedEntry(g, k)
    BY <2>1, EntryTypes
  <2>3. cache'[k] = g
    BY <1>3
  <2>4. QED
    BY ZenonT(60), <2>2, <2>3
<1>6. TypedCache(cache')
  <2>1. cache' = [k \in Keys |-> cache'[k]]
    BY <1>3
  <2>2. QED
    BY <1>5, <2>1 DEF TypedCache
<1>7. TypedRequests(requests')
  <2>1. ASSUME NEW r \in Orphaned(rs) PROVE TypedRequest(r)
    <3>1. PICK q \in rs : r = q \/ r = [q EXCEPT !.live = FALSE]
      BY DEF Orphaned
    <3>2. TypedRequest(q)
      BY DEF TypedRequests
    <3>3. \A b \in BOOLEAN : TypedRequest([q EXCEPT !.live = b])
      BY ZenonT(60), <3>2, RequestTypes
    <3>4. QED
      BY Zenon, <3>1, <3>2, <3>3
  <2>2. ASSUME NEW k \in asked PROVE TypedRequest(Ask("query", k, session'))
    BY <1>2, RequestTypes
  <2>3. QED
    BY <1>4, <2>1, <2>2 DEF TypedRequests
<1>8. TypedMutations(mutations')
  <2>1. ASSUME NEW m \in ms
        PROVE  TypedMutation([m EXCEPT !.here = @ /\ Shell' /\ route'.page = "job"])
    <3> DEFINE b == m.here /\ Shell' /\ route'.page = "job"
    <3>1. b \in BOOLEAN /\ (b => "job" \in Pages)
      BY WatchedKeys
    <3>2. TypedMutation(m)
      BY DEF TypedMutations
    <3> HIDE DEF b
    <3>3. TypedMutation([m EXCEPT !.here = b])
      BY ZenonT(60), <3>1, <3>2, MutationTypes
    <3>4. QED
      BY <3>3 DEF b
  <2>2. QED
    BY <1>1, <2>1 DEF TypedMutations
<1>9. held' \in Job \cup {NoJob} /\ (held' # NoJob => JobKey(held') \in Keys)
  BY <1>1, WatchedKeys
<1>10. QED
  BY <1>6, <1>7, <1>8, <1>9 DEF TypedScreen, TypedCache, TypedRequests, TypedMutations

(* The cache after an answer, after a load and after an invalidation.      *)
LEMMA CacheTypes ==
  ASSUME TypedInv
  PROVE  /\ TypedCache([k \in Keys |-> Blank])
         /\ \A r : TypedRequest(r) => TypedCache(Heard(r))
         /\ TypedCache(InvalidCache) /\ TypedCache(Owing(InvalidCache))
<1>1. TypedCache(cache)
  BY DEF TypedInv, TypedScreen
<1>2. TypedCache([k \in Keys |-> Blank])
  BY BlankTyped DEF TypedCache
<1>3. ASSUME NEW r, TypedRequest(r) PROVE TypedCache(Heard(r))
  <2>1. CASE r.for # "query" \/ ~r.live
    BY <1>1, <2>1 DEF Heard
  <2>2. CASE r.for = "query" /\ r.live
    <3> DEFINE g == IF r.reply = "ok" THEN Stored(cache[r.key], r)
                    ELSE Failing(cache[r.key], r.key \in Watching)
    <3>1. r.key \in Keys /\ r.data \in DataOf(r.key)
      BY <1>3, <2>2 DEF TypedRequest
    <3>2. TypedEntry(cache[r.key], r.key)
      BY ZenonT(60), <1>1, <3>1 DEF TypedCache
    <3>3. TypedEntry(g, r.key)
      <4>1. (r.key \in Watching) \in BOOLEAN
        OBVIOUS
      <4>2. TypedEntry(Stored(cache[r.key], r), r.key)
        BY ZenonT(60), <1>3, <3>1, <3>2, EntryTypes
      <4>3. TypedEntry(Failing(cache[r.key], r.key \in Watching), r.key)
        BY ZenonT(60), <3>2, <4>1, EntryTypes
      <4>4. QED
        BY <4>2, <4>3
    <3>4. Heard(r) = [cache EXCEPT ![r.key] = g]
      BY <2>2 DEF Heard
    <3> HIDE DEF g
    <3>5. QED
      BY <1>1, <3>3, <3>4 DEF TypedCache
  <2>3. QED
    BY <2>1, <2>2
<1>4. TypedCache(InvalidCache)
  <2>1. ASSUME NEW k \in Keys PROVE TypedEntry(Invalidated(cache[k], k \in Watching), k)
    <3>1. TypedEntry(cache[k], k) /\ (k \in Watching) \in BOOLEAN
      BY <1>1 DEF TypedCache
    <3>2. QED
      BY ZenonT(60), <3>1, EntryTypes
  <2>2. QED
    BY <2>1 DEF TypedCache, InvalidCache
<1>5. ASSUME NEW c, TypedCache(c) PROVE TypedCache(Owing(c))
  <2>1. ASSUME NEW k \in Keys
        PROVE  TypedEntry([c[k] EXCEPT !.owed = c[k].known /\ k \in Watching], k)
    <3> DEFINE o == c[k].known /\ k \in Watching
    <3>1. TypedEntry(c[k], k) /\ o \in BOOLEAN
      BY <1>5 DEF TypedCache
    <3> HIDE DEF o
    <3>2. TypedEntry([c[k] EXCEPT !.owed = o], k)
      BY <3>1, EntryTypes
    <3>3. QED
      BY <3>2 DEF o
  <2>2. QED
    BY <2>1 DEF TypedCache, Owing
<1>6. QED
  BY <1>2, <1>3, <1>4, <1>5

(* No session is a session, too. *)
LEMMA NoTokenTyped == NoToken \in 0..MaxTokens
BY ConsoleAssumption DEF NoToken

(* The requests after a sign-out, an invalidation and an order.            *)
LEMMA RequestSets ==
  ASSUME NEW rs, TypedRequests(rs), session \in 0..MaxTokens, route \in Locations
  PROVE  /\ TypedRequests(Forget(rs)) /\ TypedRequests(Outdated(rs))
         /\ TypedRequests(Replaced(rs))
<1>1. ASSUME NEW r \in rs
      PROVE  /\ TypedRequest(r) /\ TypedRequest([r EXCEPT !.live = FALSE])
             /\ TypedRequest([r EXCEPT !.fresh = FALSE])
  <2>1. TypedRequest(r)
    BY DEF TypedRequests
  <2>2. \A b \in BOOLEAN : /\ TypedRequest([r EXCEPT !.live = b])
                           /\ TypedRequest([r EXCEPT !.fresh = b])
    BY <2>1, RequestTypes
  <2>3. QED
    BY Zenon, <2>1, <2>2
<1>2. TypedRequests(Forget(rs)) /\ TypedRequests(Outdated(rs))
  BY ZenonT(60), <1>1 DEF TypedRequests, Forget, Outdated
<1>3. Restarted \subseteq Keys
  <2>1. route.page # "login" => route \in Locations \ {Route("login")}
    BY RouteFields
  <2>2. Watching \subseteq Keys
    BY ZenonT(60), <2>1 DEF Watching, Shell, ShellAsks, PageAsks
  <2>3. QED
    BY ZenonT(60), <2>2 DEF Restarted
<1>4. \A k \in Restarted : TypedRequest(Ask("query", k, session))
  BY <1>3, RequestTypes
<1>5. TypedRequests(Replaced(rs))
  BY ZenonT(60), <1>1, <1>4 DEF TypedRequests, Replaced
<1>6. QED
  BY <1>2, <1>5

(* An order one of whose requests gets further.                            *)
LEMMA BecomesTyped ==
  ASSUME TypedMutations(mutations), NEW m \in mutations, NEW i \in DOMAIN m.calls,
         NEW s \in CallState, NEW live \in BOOLEAN
  PROVE  TypedMutations(Becomes(m, i, s, live))
<1> DEFINE f == [m.calls EXCEPT ![i] = s]
           b == m.live /\ live
<1>1. TypedMutation(m) /\ b \in BOOLEAN
  BY DEF TypedMutations
<1>2. m.calls \in [DOMAIN m.calls -> CallState]
  <2>1. m.calls \in UNION {[o.ids -> CallState] : o \in Orders}
    BY <1>1 DEF TypedMutation, Mutations, CallState
  <2>2. PICK o \in Orders : m.calls \in [o.ids -> CallState]
    BY <2>1
  <2>3. QED
    BY <2>2
<1>3. f \in [DOMAIN m.calls -> CallState]
  BY <1>2
<1>4. [m EXCEPT !.calls[i] = s, !.live = @ /\ live] = [m EXCEPT !.calls = f, !.live = b]
  BY ZenonT(60), <1>1 DEF TypedMutation, Mutations
<1> HIDE DEF f, b
<1>5. TypedMutation([m EXCEPT !.calls = f, !.live = b])
  BY ZenonT(60), <1>1, <1>3, MutationTypes
<1>6. QED
  BY <1>4, <1>5 DEF TypedMutations, Becomes

(* A load of the page leaves nothing but the orders the server may get.    *)
LEMMA LoadedTyped ==
  ASSUME TypedInv, Loaded, route' \in Locations
  PROVE  /\ session' \in 0..MaxTokens /\ storage' \in 0..MaxTokens
         /\ mounted' \in BOOLEAN /\ config' \in {"unknown", "known", "failed"}
         /\ TypedScreen'
<1>1. session' \in 0..MaxTokens /\ storage' \in 0..MaxTokens
  <2>1. NoToken \in 0..MaxTokens
    BY NoTokenTyped
  <2>2. load \in 0..MaxTokens
    BY ZenonT(60), <2>1 DEF load, TypedInv, TypedTab
  <2>3. QED
    BY ZenonT(60), <2>2 DEF Loaded, setSession
<1>2. mounted' \in BOOLEAN /\ config' \in {"unknown", "known", "failed"}
  BY ZenonT(60) DEF Loaded
<1> DEFINE f(m) == [i \in DOMAIN m.calls |->
                      IF m.calls[i] \in {"sent", "late"} THEN "late" ELSE "void"]
           ms == {[m EXCEPT !.live = FALSE,
                            !.calls = [i \in DOMAIN @ |->
                              IF @[i] \in {"sent", "late"} THEN "late" ELSE "void"]] : m \in mutations}
<1>3. ASSUME NEW m \in mutations
      PROVE  TypedMutation([m EXCEPT !.live = FALSE, !.calls = f(m)])
  <2>1. TypedMutation(m)
    BY DEF TypedInv, TypedScreen, TypedMutations
  <2>2. f(m) \in [DOMAIN m.calls -> CallState]
    BY DEF CallState
  <2>3. [m EXCEPT !.live = FALSE, !.calls = f(m)] = [m EXCEPT !.calls = f(m), !.live = FALSE]
    BY ZenonT(60), <2>1 DEF TypedMutation, Mutations
  <2>4. FALSE \in BOOLEAN
    OBVIOUS
  <2> HIDE DEF f
  <2>5. TypedMutation([m EXCEPT !.calls = f(m), !.live = FALSE])
    BY ZenonT(60), <2>1, <2>2, <2>4, MutationTypes
  <2>6. QED
    BY <2>3, <2>5
<1>4. TypedMutations(ms)
  BY ZenonT(60), <1>3 DEF TypedMutations
<1>5. Render([k \in Keys |-> Blank], {}, ms)
  BY ZenonT(60) DEF Loaded
<1> HIDE DEF ms
<1>6. TypedRequests({}) /\ TypedCache([k \in Keys |-> Blank])
  BY CacheTypes DEF TypedRequests
<1>7. TypedScreen'
  BY ZenonT(60), <1>1, <1>4, <1>5, <1>6, RenderTypes DEF TypedInv, TypedScreen
<1>8. QED
  BY ZenonT(60), <1>1, <1>2, <1>7

(* A step that renders what there was.                                     *)
LEMMA PlainTyped ==
  ASSUME TypedInv, TypedTab', Render(cache, requests, mutations)
  PROVE  TypedScreen'
BY RenderTypes DEF TypedInv, TypedScreen, TypedTab

(* A step that renders nothing new.                                        *)
LEMMA QuietTyped == TypedScreen /\ UNCHANGED cacheVars => TypedScreen'
BY DEF TypedScreen, cacheVars

(* A step that asks for something.                                         *)
LEMMA AskingTyped ==
  ASSUME TypedScreen, NEW r, TypedRequest(r), requests' = requests \cup {r},
         UNCHANGED <<cache, held, mutations>>
  PROVE  TypedScreen'
BY DEF TypedScreen, TypedRequests

(* The counters of what the user does and of what is lost.                 *)
LEMMA CountsTyped ==
  ASSUME TypedTab, Press \/ Fault
  PROVE  presses' \in 0..MaxPresses /\ faults' \in 0..MaxFaults
BY ConsoleAssumption DEF TypedTab, Press, Fault

(* The root guard, loads and links keep the types.                         *)
LEMMA GuardTyped ==
  ASSUME TypedInv,
         Mount \/ RedirectToLogin \/ LeaveLogin \/ (\E to : Navigate(to))
           \/ (\E to \in Locations : Reload(to)) \/ startSSO
  PROVE  TypedInv'
<1>1. Route("login") \in Locations /\ Route("overview") \in Locations
  BY ConsoleAssumption DEF Locations
<1>2. TypedTab /\ TypedServer /\ TypedScreen
  BY DEF TypedInv
<1>3. CASE Mount
  <2>1. TypedTab' /\ TypedServer'
    BY <1>2, <1>3 DEF Mount, TypedTab, TypedServer, Locations, authVars, loginVars, serverVars, countVars
  <2>2. TypedRequests(requests \cup Exchange)
    <3>1. TypedRequest(Ask("exchange", NoKey, session))
      BY <1>2, RequestTypes DEF TypedTab
    <3>2. \A b \in BOOLEAN : TypedRequest([Ask("exchange", NoKey, session) EXCEPT !.fresh = b])
      BY ZenonT(60), <3>1, RequestTypes
    <3>3. (code = "new") \in BOOLEAN
      OBVIOUS
    <3>4. TypedRequest([Ask("exchange", NoKey, session) EXCEPT !.fresh = code = "new"])
      BY Zenon, <3>2, <3>3
    <3>5. QED
      BY <1>2, <3>4 DEF TypedScreen, TypedRequests, Exchange
  <2>3. Render(cache, requests \cup Exchange, mutations)
    BY ZenonT(60), <1>3 DEF Mount
  <2>4. TypedScreen'
    BY <1>2, <2>1, <2>2, <2>3, RenderTypes DEF TypedTab, TypedScreen
  <2>5. QED
    BY ZenonT(60), <2>1, <2>4 DEF TypedInv
<1>4. CASE RedirectToLogin
  <2>1. TypedTab' /\ TypedServer'
    BY <1>1, <1>2, <1>4
       DEF RedirectToLogin, TypedTab, TypedServer, Locations, authVars, serverVars, countVars
  <2>2. QED
    BY ZenonT(60), <1>4, <2>1, PlainTyped DEF TypedInv, RedirectToLogin
<1>5. CASE LeaveLogin
  <2>1. TypedTab' /\ TypedServer'
    BY <1>1, <1>2, <1>5
       DEF LeaveLogin, TypedTab, TypedServer, Locations, authVars, serverVars, countVars
  <2>2. QED
    BY ZenonT(60), <1>5, <2>1, PlainTyped DEF TypedInv, LeaveLogin
<1>6. ASSUME NEW to, Navigate(to) PROVE TypedInv'
  <2>1. TypedTab' /\ TypedServer'
    BY <1>2, <1>6
       DEF Navigate, TypedTab, TypedServer, Locations, authVars, loginVars, serverVars, countVars
  <2>2. QED
    BY ZenonT(60), <1>6, <2>1, PlainTyped DEF TypedInv, Navigate
<1>7. ASSUME Loaded, Press, route' \in Locations, code' \in {code, "used", "none", "new"},
             UNCHANGED <<standing, auto, serverVars, forgotten>>
      PROVE  TypedInv'
  <2>1. TypedScreen' /\ presses' \in 0..MaxPresses /\ faults' \in 0..MaxFaults
    BY ZenonT(60), <1>2, <1>7, LoadedTyped, CountsTyped
  <2>2. TypedTab'
    <3>1. /\ session' \in 0..MaxTokens /\ storage' \in 0..MaxTokens
          /\ mounted' \in BOOLEAN /\ config' \in {"unknown", "known", "failed"}
      BY <1>7, LoadedTyped
    <3>2. code' \in {"none", "new", "used"}
      BY <1>2, <1>7 DEF TypedTab
    <3>3. QED
      BY <1>2, <1>7, <2>1, <3>1, <3>2 DEF TypedTab, Locations
  <2>3. TypedServer'
    BY <1>2, <1>7 DEF TypedServer, serverVars
  <2>4. QED
    BY <2>1, <2>2, <2>3 DEF TypedInv
<1>8. ASSUME NEW to \in Locations, Reload(to) PROVE TypedInv'
  BY <1>7, <1>8 DEF Reload
<1>9. CASE startSSO
  <2>1. route' \in Locations
    BY ZenonT(60), <1>2, <1>9 DEF startSSO, TypedTab
  <2>2. QED
    BY <1>7, <1>9, <2>1 DEF startSSO
<1>10. QED
  BY ZenonT(60), <1>3, <1>4, <1>5, <1>6, <1>8, <1>9

(* The sign-in page, the buttons of the shell and the clock keep them.     *)
LEMMA TabTyped == ASSUME TypedInv, TabStep PROVE TypedInv'
<1>1. TypedTab /\ TypedServer /\ TypedScreen
  BY DEF TypedInv
<1>2. ASSUME NEW t \in Token, NEW how \in {"expired", "refused"}, Lapse(t, how) PROVE TypedInv'
  <2>1. TypedTab' /\ TypedServer'
    BY <1>1, <1>2
       DEF Lapse, TypedTab, TypedServer, Locations, authVars, loginVars, serverVars, countVars
  <2>2. QED
    BY ZenonT(60), <1>1, <1>2, <2>1, QuietTyped DEF TypedInv, Lapse
<1>3. ASSUME NEW t \in Token \cup {NoToken}, OtherTab(t) PROVE TypedInv'
  <2>1. t \in 0..MaxTokens
    BY ConsoleAssumption DEF Token, NoToken
  <2>2. standing' \in [Token -> {"unissued", "good", "expired", "refused"}]
    BY <1>1, <1>3 DEF OtherTab, Issued, TypedTab
  <2>3. presses' \in 0..MaxPresses /\ faults' \in 0..MaxFaults
    BY ZenonT(60), <1>1, <1>3, CountsTyped DEF OtherTab
  <2>4. TypedTab' /\ TypedServer'
    BY ZenonT(60), <1>1, <1>3, <2>1, <2>2, <2>3 DEF OtherTab, TypedTab, TypedServer, Locations, loginVars, serverVars
  <2>5. QED
    BY <1>1, <1>3, <2>4, QuietTyped DEF TypedInv, OtherTab
<1>4. ASSUME NEW c \in {"known", "failed"}, AuthConfig(c) PROVE TypedInv'
  <2>1. presses' \in 0..MaxPresses /\ faults' \in 0..MaxFaults
    BY ZenonT(60), <1>1, <1>4, CountsTyped DEF AuthConfig, countVars, TypedTab
  <2>2. TypedTab' /\ TypedServer'
    BY <1>1, <1>4, <2>1 DEF AuthConfig, TypedTab, TypedServer, Locations, authVars, serverVars
  <2>3. QED
    BY ZenonT(60), <1>1, <1>4, <2>2, QuietTyped DEF TypedInv, AuthConfig
<1>5. CASE onSubmit
  <2>1. TypedTab' /\ TypedServer'
    BY <1>1, <1>5
       DEF onSubmit, TypedTab, TypedServer, Locations, authVars, loginVars, serverVars, countVars
  <2>2. TypedRequest(Ask("login", NoKey, session))
    BY ZenonT(60), <1>1, RequestTypes DEF TypedTab
  <2>3. QED
    BY ZenonT(60), <1>1, <1>5, <2>1, <2>2, AskingTyped DEF TypedInv, onSubmit
<1>6. CASE TestConnection
  <2>1. presses' \in 0..MaxPresses /\ faults' \in 0..MaxFaults
    BY ZenonT(60), <1>1, <1>6, CountsTyped DEF TestConnection
  <2>2. TypedTab' /\ TypedServer'
    BY <1>1, <1>6, <2>1
       DEF TestConnection, TypedTab, TypedServer, Locations, authVars, loginVars, serverVars
  <2>3. TypedRequest(Ask("version", NoKey, session))
    BY <1>1, RequestTypes DEF TypedTab
  <2>4. QED
    BY <1>1, <1>6, <2>2, <2>3, AskingTyped DEF TypedInv, TestConnection
<1>7. CASE logout
  <2>1. session \in Token
    BY SMTT(30), <1>1, <1>7 DEF logout, Shell, NoToken, TypedTab, Token
  <2>2. TypedTab' /\ TypedServer'
    BY <1>1, <1>7, <2>1, NoTokenTyped
       DEF logout, clearSession, setSession, TypedTab, TypedServer, Locations, loginVars, serverVars,
           countVars
  <2>3. Render([k \in Keys |-> Blank], Forget(requests), mutations)
    BY <1>7 DEF logout
  <2>4. TypedCache([k \in Keys |-> Blank]) /\ TypedRequests(Forget(requests))
    BY ZenonT(60), <1>1, CacheTypes, RequestSets DEF TypedTab, TypedScreen
  <2>5. TypedScreen'
    BY <1>1, <2>2, <2>3, <2>4, RenderTypes DEF TypedTab, TypedScreen
  <2>6. QED
    BY <2>2, <2>5 DEF TypedInv
<1>8. CASE RefreshNow
  <2>1. presses' \in 0..MaxPresses /\ faults' \in 0..MaxFaults
    BY ZenonT(60), <1>1, <1>8, CountsTyped DEF RefreshNow
  <2>2. TypedTab' /\ TypedServer'
    BY <1>1, <1>8, <2>1
       DEF RefreshNow, TypedTab, TypedServer, Locations, authVars, loginVars, serverVars
  <2>3. Render(InvalidCache, Replaced(requests), mutations)
    BY <1>8 DEF RefreshNow
  <2>4. TypedCache(InvalidCache) /\ TypedRequests(Replaced(requests))
    BY ZenonT(60), <1>1, CacheTypes, RequestSets DEF TypedTab, TypedScreen
  <2>5. TypedScreen'
    BY <1>1, <2>2, <2>3, <2>4, RenderTypes DEF TypedTab, TypedScreen
  <2>6. QED
    BY <2>2, <2>5 DEF TypedInv
<1>9. CASE SetAutoRefresh
  <2>1. presses' \in 0..MaxPresses /\ faults' \in 0..MaxFaults
    BY <1>1, <1>9, CountsTyped DEF SetAutoRefresh
  <2>2. auto' \in BOOLEAN
    BY Zenon, <1>9 DEF SetAutoRefresh, setPrefs
  <2>3. TypedTab' /\ TypedServer'
    BY ZenonT(60), <1>1, <1>9, <2>1, <2>2
       DEF SetAutoRefresh, TypedTab, TypedServer, Locations, authVars, loginVars, serverVars
  <2>4. QED
    BY <1>1, <1>9, <2>3, QuietTyped DEF TypedInv, SetAutoRefresh
<1>10. QED
  BY ZenonT(60), <1>2, <1>3, <1>4, <1>5, <1>6, <1>7, <1>8, <1>9, GuardTyped DEF TabStep

(* The server's answers and what the tab makes of them keep the types.     *)
LEMMA RequestTyped == ASSUME TypedInv, RequestStep PROVE TypedInv'
<1>1. TypedTab /\ TypedServer /\ TypedScreen
  BY DEF TypedInv
<1>2. ASSUME NEW r \in requests PROVE TypedRequest(r)
  BY <1>1 DEF TypedScreen, TypedRequests
<1>3. TypedRequests(requests) /\ \A r : TypedRequests(requests \ {r})
  BY <1>1 DEF TypedScreen, TypedRequests
<1>4. ASSUME NEW reply, Session(reply) PROVE session' \in 0..MaxTokens /\ storage' \in 0..MaxTokens
  BY <1>1, <1>4, NoTokenTyped DEF Session, clearSession, setSession, authVars, TypedTab
<1>5. ASSUME NEW r \in requests, NEW q, TypedRequest(q), requests' = (requests \ {r}) \cup {q},
             UNCHANGED <<cache, held, mutations>>
      PROVE  TypedScreen'
  BY ZenonT(60), <1>1, <1>5 DEF TypedScreen, TypedRequests
<1>6. ASSUME NEW r \in requests, ServeQuery(r) PROVE TypedInv'
  <2>1. TypedTab' /\ TypedServer'
    BY ZenonT(60), <1>1, <1>6
       DEF ServeQuery, TypedTab, TypedServer, Locations, authVars, loginVars, serverVars, countVars
  <2> DEFINE data == IF r.for = "query" THEN Answer(r.key) ELSE {}
             reply == CASE ~Accepted(r.token) -> "refused"
                        [] r.key \in {JobKey(j) : j \in Job} /\ data = {} -> "missing"
                        [] OTHER -> "ok"
             got == IF Accepted(r.token) THEN data ELSE {}
  <2>2. requests' = (requests \ {r}) \cup {[r EXCEPT !.fresh = TRUE, !.reply = reply, !.data = got]}
    BY ZenonT(60), <1>6 DEF ServeQuery
  <2>3. reply \in Reply
    BY DEF Reply
  <2>4. got \in Data /\ (r.for = "query" => got \in DataOf(r.key))
    <3>1. r.for = "query" => r.key \in Query
      BY <1>2, ConsoleAssumption DEF TypedRequest
    <3>2. r.for = "query" => data \in DataOf(r.key)
      BY <1>1, <3>1, AnswerKind
    <3>3. QED
      BY <3>2, DataKinds
  <2> HIDE DEF reply, got
  <2>5. TypedRequest([r EXCEPT !.fresh = TRUE, !.reply = reply, !.data = got])
    BY ZenonT(60), <1>2, <2>3, <2>4 DEF TypedRequest, Request
  <2>6. QED
    BY ZenonT(60), <1>5, <1>6, <2>1, <2>2, <2>5 DEF TypedInv, ServeQuery
<1>7. ASSUME NEW r \in requests, NEW t \in Token \cup {NoToken}, NEW no \in {"refused", "denied"},
             ServeSignIn(r, t, no)
      PROVE  TypedInv'
  <2>1. t \in 0..MaxTokens
    BY ConsoleAssumption DEF Token, NoToken
  <2>2. standing' \in [Token -> {"unissued", "good", "expired", "refused"}]
    BY <1>1, <1>7 DEF ServeSignIn, Issued, TypedTab
  <2>3. code' \in {"none", "new", "used"}
    BY <1>1, <1>7 DEF ServeSignIn, TypedTab
  <2>4. TypedTab' /\ TypedServer'
    BY <1>1, <1>7, <2>2, <2>3
       DEF ServeSignIn, TypedTab, TypedServer, Locations, authVars, serverVars, countVars
  <2> DEFINE reply == IF t = NoToken THEN no ELSE "ok"
  <2>5. reply \in Reply
    BY DEF Reply
  <2>6. requests' = (requests \ {r}) \cup {[r EXCEPT !.reply = reply, !.grant = t]}
    BY <1>7 DEF ServeSignIn
  <2> HIDE DEF reply
  <2>7. TypedRequest([r EXCEPT !.reply = reply, !.grant = t])
    BY ZenonT(60), <1>2, <2>1, <2>5 DEF TypedRequest, Request
  <2>8. QED
    BY <1>5, <1>7, <2>4, <2>6, <2>7 DEF TypedInv, ServeSignIn
<1>8. ASSUME NEW r \in requests, DeliverQuery(r) PROVE TypedInv'
  <2>1. session' \in 0..MaxTokens /\ storage' \in 0..MaxTokens
    BY ZenonT(60), <1>4, <1>8 DEF DeliverQuery
  <2>2. TypedTab' /\ TypedServer'
    BY <1>1, <1>8, <2>1
       DEF DeliverQuery, TypedTab, TypedServer, Locations, loginVars, serverVars, countVars
  <2>3. Render(Heard(r), requests \ {r}, mutations)
    BY <1>8 DEF DeliverQuery
  <2>4. TypedCache(Heard(r))
    BY ZenonT(60), <1>2, CacheTypes
  <2>5. TypedScreen'
    BY ZenonT(60), <1>1, <1>3, <2>2, <2>3, <2>4, RenderTypes DEF TypedTab, TypedScreen
  <2>6. QED
    BY <2>2, <2>5 DEF TypedInv
<1>9. ASSUME NEW r \in requests, DeliverSignIn(r) PROVE TypedInv'
  <2>1. session' \in 0..MaxTokens /\ storage' \in 0..MaxTokens
    <3>1. r.grant \in 0..MaxTokens
      BY ZenonT(60), <1>2 DEF TypedRequest, Request
    <3>2. QED
      BY <1>4, <1>9, <3>1 DEF DeliverSignIn, setSession
  <2>2. /\ route' \in Locations /\ code' \in {"none", "new", "used"}
        /\ config' \in {"unknown", "known", "failed"}
    <3>1. Route("overview") \in Locations
      BY ZenonT(60), ConsoleAssumption DEF Locations
    <3>2. QED
      BY <1>1, <1>9, <3>1 DEF DeliverSignIn, TypedTab
  <2>3. TypedTab' /\ TypedServer'
    BY <1>1, <1>9, <2>1, <2>2 DEF DeliverSignIn, TypedTab, TypedServer, Locations, serverVars, countVars
  <2>4. Render(cache, requests \ {r}, mutations)
    BY ZenonT(60), <1>9 DEF DeliverSignIn
  <2>5. TypedScreen'
    BY <1>1, <1>3, <2>3, <2>4, RenderTypes DEF TypedTab, TypedScreen
  <2>6. QED
    BY <2>3, <2>5 DEF TypedInv
<1>10. ASSUME NEW r \in requests, Drop(r) PROVE TypedInv'
  <2>1. presses' \in 0..MaxPresses /\ faults' \in 0..MaxFaults
    BY <1>1, <1>10, CountsTyped DEF Drop
  <2>2. code' \in {"none", "new", "used"}
    BY <1>1, <1>10 DEF Drop, TypedTab
  <2>3. TypedTab' /\ TypedServer'
    BY <1>1, <1>10, <2>1, <2>2 DEF Drop, TypedTab, TypedServer, Locations, authVars, serverVars
  <2>4. Render(Heard([r EXCEPT !.reply = "none"]), requests \ {r}, mutations)
    BY <1>10 DEF Drop
  <2>5. TypedRequest([r EXCEPT !.reply = "none"])
    BY <1>2 DEF TypedRequest, Request, Reply
  <2>6. TypedCache(Heard([r EXCEPT !.reply = "none"]))
    BY <2>5, CacheTypes
  <2>7. TypedScreen'
    BY <1>1, <1>3, <2>3, <2>4, <2>6, RenderTypes DEF TypedTab, TypedScreen
  <2>8. QED
    BY <2>3, <2>7 DEF TypedInv
<1>11. ASSUME NEW k \in Keys, NEW e, TypedEntry(e, k), cache' = [cache EXCEPT ![k] = e]
       PROVE  TypedCache(cache')
  BY <1>1, <1>11 DEF TypedScreen, TypedCache
<1>12. ASSUME NEW k \in Keys PROVE TypedEntry(cache[k], k)
  BY <1>1 DEF TypedScreen, TypedCache
<1>13. ASSUME NEW k \in Keys, NEW try \in {"first", "second"}, Still(k, try) PROVE TypedInv'
  <2>1. TypedTab' /\ TypedServer'
    BY <1>1, <1>13
       DEF Still, TypedTab, TypedServer, Locations, authVars, loginVars, serverVars, countVars
  <2>2. TypedEntry(Fetching(cache[k], try), k)
    BY <1>12, EntryTypes
  <2>3. TypedCache(cache')
    BY ZenonT(60), <1>11, <1>13, <2>2 DEF Still
  <2>4. TypedRequest(Ask("query", k, session))
    BY ZenonT(60), <1>1, RequestTypes DEF TypedTab
  <2>5. TypedScreen'
    BY <1>1, <1>13, <2>3, <2>4 DEF Still, TypedScreen, TypedCache, TypedRequests, TypedMutations
  <2>6. QED
    BY ZenonT(60), <2>1, <2>5 DEF TypedInv
<1>14. ASSUME NEW k \in Keys, Unwatched(k) PROVE TypedInv'
  <2>1. TypedTab' /\ TypedServer'
    BY ZenonT(60), <1>1, <1>14
       DEF Unwatched, TypedTab, TypedServer, Locations, authVars, loginVars, serverVars, countVars
  <2>2. TypedEntry(Failing(cache[k], FALSE), k) /\ TypedEntry(Blank, k)
    BY ZenonT(60), <1>12, EntryTypes, BlankTyped
  <2>3. TypedCache(cache')
    BY ZenonT(60), <1>11, <1>14, <2>2 DEF Unwatched
  <2>4. TypedScreen'
    BY ZenonT(60), <1>1, <1>14, <2>3 DEF Unwatched, TypedScreen, TypedCache, TypedRequests, TypedMutations
  <2>5. QED
    BY <2>1, <2>4 DEF TypedInv
<1>15. QED
  BY ZenonT(60), <1>6, <1>7, <1>8, <1>9, <1>10, <1>13, <1>14 DEF RequestStep, Refetch, Retry

(* Orders, what the server makes of them, and the jobs that move by        *)
(* themselves keep the types: a button only gives orders the API has.      *)
LEMMA OrderTyped == ASSUME TypedInv, OrderStep PROVE TypedInv'
<1>1. TypedTab /\ TypedServer /\ TypedScreen
  BY DEF TypedInv
<1>2. TypedMutations(mutations) /\ TypedCache(cache) /\ TypedRequests(requests)
  BY <1>1 DEF TypedScreen
<1>3. ASSUME Shell, NEW o \in Page.orders, Mutate(o) PROVE TypedInv'
  <2>1. o \in Orders
    <3>1. route \in Locations \ {Route("login")}
      BY <1>1, <1>3, RouteFields DEF TypedTab, Shell
    <3>2. \A k \in Query : seen[k] \in DataOf(k)
      BY ZenonT(60), SeenKind
    <3>3. Page.orders \subseteq Orders
      BY <3>1, <3>2, PageOrders DEF Page
    <3>4. QED
      BY ZenonT(60), <1>3, <3>3
  <2>2. presses' \in 0..MaxPresses /\ faults' \in 0..MaxFaults
    BY <1>1, <1>3, CountsTyped DEF Mutate
  <2>3. TypedTab' /\ TypedServer'
    BY ZenonT(60), <1>1, <1>3, <2>2
       DEF Mutate, TypedTab, TypedServer, Locations, authVars, loginVars, serverVars
  <2> DEFINE b == route.page = "job"
             n == [op |-> o.op, token |-> session, live |-> TRUE, here |-> b,
                   calls |-> [i \in o.ids |-> "sent"]]
  <2>4. b \in BOOLEAN /\ (b => "job" \in Pages)
    BY <1>1, RouteFields DEF TypedTab, Locations
  <2>5. mutations' = {[x EXCEPT !.here = @ /\ x.op # o.op] : x \in mutations} \cup {n}
    BY ZenonT(60), <1>3 DEF Mutate
  <2>6. TypedMutation(n)
    <3> HIDE DEF b
    <3> QED BY ZenonT(60), <1>1, <2>1, <2>4, MutationTypes DEF TypedTab
  <2>7. ASSUME NEW x \in mutations PROVE TypedMutation([x EXCEPT !.here = @ /\ x.op # o.op])
    <3> DEFINE h == x.here /\ x.op # o.op
    <3>1. TypedMutation(x) /\ h \in BOOLEAN
      BY <1>2 DEF TypedMutations
    <3>2. h => "job" \in Pages
      BY ZenonT(60), <3>1 DEF TypedMutation
    <3> HIDE DEF h
    <3>3. TypedMutation([x EXCEPT !.here = h])
      BY ZenonT(60), <3>1, <3>2, MutationTypes
    <3>4. QED
      BY ZenonT(60), <3>3 DEF h
  <2> HIDE DEF n
  <2>8. TypedMutations(mutations')
    BY <2>5, <2>6, <2>7 DEF TypedMutations
  <2>9. TypedScreen'
    BY <1>1, <1>3, <2>8 DEF Mutate, TypedScreen, TypedCache, TypedRequests, TypedMutations
  <2>10. QED
    BY <2>3, <2>9 DEF TypedInv
<1>4. ASSUME NEW m \in mutations, NEW i \in DOMAIN m.calls, ServeCall(m, i) PROVE TypedInv'
  <2>1. TypedTab'
    BY <1>1, <1>4 DEF ServeCall, TypedTab, Locations, authVars, loginVars, countVars
  <2>2. Placed(m.op, i) \in [Job -> Place]
    BY ZenonT(60), <1>1 DEF Placed, Purged, TypedServer, Place
  <2>3. paused' \in BOOLEAN
    BY Zenon, <1>1, <1>4 DEF ServeCall, TypedServer
  <2>4. TypedServer'
    <3>1. place' = place \/ place' = Placed(m.op, i)
      BY <1>4 DEF ServeCall
    <3>2. QED
      BY <1>1, <2>2, <2>3, <3>1 DEF TypedServer, Place
  <2>5. PICK s \in CallState : Render(cache, requests, Becomes(m, i, s, TRUE))
    <3> DEFINE reply == CASE ~Accepted(m.token)      -> "refused"
                          [] m.token \notin Writers  -> "denied"
                          [] Missing(m.op, i)        -> "missing"
                          [] OTHER                   -> "ok"
               s == IF m.calls[i] = "late" THEN "void" ELSE reply
    <3>1. s \in CallState
      BY DEF CallState, Reply
    <3>2. Render(cache, requests, Becomes(m, i, s, TRUE))
      BY ZenonT(60), <1>4 DEF ServeCall
    <3> HIDE DEF s
    <3>3. QED
      BY ZenonT(60), <3>1, <3>2
  <2>6. TypedMutations(Becomes(m, i, s, TRUE))
    BY ZenonT(60), <1>2, BecomesTyped
  <2>7. TypedScreen'
    BY ZenonT(60), <1>1, <1>2, <2>1, <2>5, <2>6, RenderTypes DEF TypedTab, TypedScreen
  <2>8. QED
    BY <2>1, <2>4, <2>7 DEF TypedInv
<1>5. ASSUME NEW m \in mutations, NEW i \in DOMAIN m.calls, DeliverCall(m, i) PROVE TypedInv'
  <2>1. session' \in 0..MaxTokens /\ storage' \in 0..MaxTokens
    BY ZenonT(60), <1>1, <1>5, NoTokenTyped
       DEF DeliverCall, Session, clearSession, setSession, authVars, TypedTab
  <2>2. route' \in Locations
    <3>1. m.here => Route("queue") \in Locations
      BY ZenonT(60), <1>2, ConsoleAssumption DEF TypedMutations, TypedMutation, Locations
    <3>2. QED
      BY ZenonT(60), <1>1, <1>5, <3>1 DEF DeliverCall, TypedTab
  <2>3. TypedTab' /\ TypedServer'
    BY ZenonT(60), <1>1, <1>5, <2>1, <2>2
       DEF DeliverCall, TypedTab, TypedServer, Locations, loginVars, serverVars, countVars
  <2>4. ASSUME Render(Owing(InvalidCache), Replaced(Outdated(requests)), mutations \ {m})
        PROVE  TypedScreen'
    <3>1. TypedCache(Owing(InvalidCache)) /\ TypedRequests(Replaced(Outdated(requests)))
      BY <1>1, <1>2, CacheTypes, RequestSets DEF TypedTab
    <3>2. TypedMutations(mutations \ {m})
      BY ZenonT(60), <1>2 DEF TypedMutations
    <3>3. QED
      BY ZenonT(60), <1>1, <2>3, <2>4, <3>1, <3>2, RenderTypes DEF TypedTab, TypedScreen
  <2>5. ASSUME NEW s \in {"settled", "void"}, NEW live \in BOOLEAN,
               Render(cache, requests, Becomes(m, i, s, live))
        PROVE  TypedScreen'
    <3>1. TypedMutations(Becomes(m, i, s, live))
      BY ZenonT(60), <1>2, BecomesTyped DEF CallState
    <3>2. QED
      BY ZenonT(60), <1>1, <1>2, <2>3, <2>5, <3>1, RenderTypes DEF TypedTab, TypedScreen
  <2>6. \/ Render(Owing(InvalidCache), Replaced(Outdated(requests)), mutations \ {m})
        \/ Render(cache, requests, Becomes(m, i, "settled", TRUE))
        \/ Render(cache, requests, Becomes(m, i, "void", FALSE))
    BY ZenonT(60), <1>5 DEF DeliverCall
  <2>7. QED
    BY ZenonT(60), <2>3, <2>4, <2>5, <2>6 DEF TypedInv
<1>6. ASSUME NEW m \in mutations, NEW i \in DOMAIN m.calls, DropCall(m, i) PROVE TypedInv'
  <2>1. presses' \in 0..MaxPresses /\ faults' \in 0..MaxFaults
    BY ZenonT(60), <1>1, <1>6, CountsTyped DEF DropCall
  <2>2. TypedTab' /\ TypedServer'
    BY ZenonT(60), <1>1, <1>6, <2>1
       DEF DropCall, TypedTab, TypedServer, Locations, authVars, loginVars, serverVars
  <2>3. PICK s \in {"late", "void"} : Render(cache, requests, Becomes(m, i, s, FALSE))
    BY ZenonT(60), <1>6 DEF DropCall
  <2>4. TypedMutations(Becomes(m, i, s, FALSE))
    BY ZenonT(60), <1>2, BecomesTyped DEF CallState
  <2>5. TypedScreen'
    BY ZenonT(60), <1>1, <1>2, <2>2, <2>3, <2>4, RenderTypes DEF TypedTab, TypedScreen
  <2>6. QED
    BY ZenonT(60), <2>2, <2>5 DEF TypedInv
<1>7. ASSUME NEW j \in Job, NEW to \in Place, JobMoves(j, to) PROVE TypedInv'
  <2>1. TypedTab' /\ TypedServer'
    BY <1>1, <1>7 DEF JobMoves, TypedTab, TypedServer, Locations, authVars, loginVars, countVars, Place
  <2>2. QED
    BY ZenonT(60), <1>1, <1>7, <2>1, QuietTyped DEF TypedInv, JobMoves
<1>8. QED
  BY ZenonT(60), <1>3, <1>4, <1>5, <1>6, <1>7 DEF OrderStep

(* The types are inductive together with the kinds of the answers.         *)
LEMMA TypedInvariant == ConsoleSpec => []TypedInv
<1>1. ConsoleInit => TypedInv
  <2> SUFFICES ASSUME ConsoleInit PROVE TypedInv
    OBVIOUS
  <2>1. TypedTab
    <3>1. route \in Locations
      BY ConsoleAssumption DEF ConsoleInit, Locations
    <3>2. presses \in 0..MaxPresses /\ faults \in 0..MaxFaults
      BY ConsoleAssumption DEF ConsoleInit
    <3>3. QED
      BY ZenonT(60), NoTokenTyped, <3>1, <3>2 DEF ConsoleInit, TypedTab
  <2>2. TypedServer
    BY ZenonT(60) DEF ConsoleInit, TypedServer, Place
  <2>3. TypedScreen
    BY BlankTyped DEF ConsoleInit, TypedScreen, TypedCache, TypedRequests, TypedMutations
  <2>4. QED
    BY <2>1, <2>2, <2>3 DEF TypedInv
<1>2. TypedInv /\ [ConsoleNext]_consoleVars => TypedInv'
  <2> SUFFICES ASSUME TypedInv, [ConsoleNext]_consoleVars PROVE TypedInv'
    OBVIOUS
  <2>1. CASE ConsoleNext
    BY <2>1, TabTyped, RequestTyped, OrderTyped DEF ConsoleNext
  <2>2. CASE UNCHANGED consoleVars
    <3>1. TypedTab' /\ TypedServer'
      BY <2>2 DEF consoleVars, TypedInv, TypedTab, TypedServer, Locations, authVars, loginVars,
                  serverVars, countVars
    <3>2. QED
      BY ZenonT(60), <2>2, <3>1, QuietTyped DEF consoleVars, TypedInv
  <2>3. QED
    BY <2>1, <2>2
<1>3. QED
  BY <1>1, <1>2, PTL DEF ConsoleSpec

(* The console is type correct; in particular a button never asks for an   *)
(* order or a job the API does not have, whatever is on the screen.        *)
THEOREM ConsoleTypeCorrect == ConsoleSpec => []ConsoleTypeOK
<1>1. TypedInv => ConsoleTypeOK
  <2> SUFFICES ASSUME TypedInv PROVE ConsoleTypeOK
    OBVIOUS
  <2>1. route.page \in Pages \cup {"login"} /\ route.job \in Job \cup {NoJob}
    BY ZenonT(60), LocationFields DEF TypedInv, TypedTab
  <2>2. cache \in [Keys -> Entry]
    BY DEF TypedInv, TypedScreen, TypedCache, TypedEntry
  <2>3. requests \subseteq Request /\ mutations \subseteq Mutations
    BY DEF TypedInv, TypedScreen, TypedRequests, TypedRequest, TypedMutations, TypedMutation
  <2>4. QED
    BY <2>1, <2>2, <2>3 DEF ConsoleTypeOK, TypedInv, TypedTab, TypedServer, TypedScreen
<1>2. QED
  BY <1>1, TypedInvariant, PTL
=============================================================================
