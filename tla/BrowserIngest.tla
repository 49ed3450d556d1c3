---------------------------- MODULE BrowserIngest ----------------------------
(***************************************************************************)
(* Web sites by browser or by plain HTML: the sweeper                      *)
(* (extractors/sweeper/SweeperFallbackRouter.ts) tries one of them and     *)
(* falls back to the other, and puts a site that neither can get on its    *)
(* dead-letter list; the adapter (extractors/browser/CloakBrowserAdapter   *)
(* .ts, RetryPolicy.ts) has one browser that is launched on first use, and *)
(* a page for each session.  Visits overlap at every await, and cleanup    *)
(* may run under them.                                                     *)
(*                                                                         *)
(* Pages and browsers are numbered as they are opened and launched; a page *)
(* dies with its browser.                                                  *)
(***************************************************************************)
EXTENDS Naturals, FiniteSets

CONSTANTS
  Visit,                   \* calls of ingest
  HighJS,             \* those of a vertical that goes to the browser first
  MaxBrowserRetries,  \* maxRetries of the RetryPolicy: 2
  MaxCleanups         \* bound: calls of cleanup

ASSUME BrowserConstants == HighJS \subseteq Visit /\ MaxBrowserRetries \in Nat /\ MaxCleanups \in Nat

VARIABLES
  visit,       \* by visit: where it is and its recorded attempts
  attempts, successes, \* routingMetrics
  dlq,         \* dlqEntries
  browser,     \* this.browser: a number, or None
  alive,       \* browsers that run
  launched,    \* number of launches
  pages,       \* the adapter's map: by visit with a session, its page
  open,        \* pages that are open, each [browser, owner, number]
  closing,     \* by cleanup: the browser it waits for, or None
  raced,       \* two first uses have launched, or two cleanups closed, at a time
  tainted,     \* visits with a failed attempt at a page, its use or its close
  cleanups, cleared \* calls of cleanup; entries that clearDLQ took

None == 0

routed == <<attempts, successes, dlq, cleared>>
browsers == <<browser, alive, launched, closing, raced, cleanups>>
browserVars == <<visit, routed, browsers, pages, open, tainted>>

BrowserInit ==
  /\ visit = [v \in Visit |-> [at |-> "new", tries |-> 0]]
  /\ attempts = 0 /\ successes = 0 /\ dlq = {} /\ cleared = {}
  /\ browser = None /\ alive = {} /\ launched = 0 /\ raced = FALSE
  /\ closing = [k \in 1..MaxCleanups |-> None]
  /\ pages = [v \in {} |-> 0] /\ open = {} /\ tainted = {} /\ cleanups = 0

At(v, step) == visit[v].at = step
\* the recorded attempts of a session are cleared when its open has ended
Go(v, step) ==
  visit' = [visit EXCEPT ![v] = [at |-> step, tries |-> IF step = "goto" THEN @.tries ELSE 0]]

-----------------------------------------------------------------------------
\* The sweeper.

\* the vertical of its URL, or the one it was given, is among the five that need a browser
BrowserFirst(v) == v \in HighJS

Ingest(v) ==
  /\ At(v, "new")
  /\ attempts' = attempts + 1
  /\ Go(v, IF BrowserFirst(v) THEN "open" ELSE "fetch")
  /\ UNCHANGED <<successes, dlq, cleared, browsers, pages, open, tainted>>

Serve(v) ==
  /\ Go(v, "done")
  /\ successes' = successes + 1
  /\ UNCHANGED <<attempts, dlq, cleared>>

\* the way not tried yet, or the dead-letter list
FallBack(v, other) ==
  \/ other # "dlq" /\ Go(v, other) /\ UNCHANGED routed
  \/ /\ other = "dlq"
     /\ Go(v, "done")
     /\ dlq' = dlq \union {v}
     /\ UNCHANGED <<attempts, successes, cleared>>

FetchHTML(v) ==
  /\ At(v, "fetch")
  /\ Serve(v) \/ FallBack(v, IF BrowserFirst(v) THEN "dlq" ELSE "open")
  /\ UNCHANGED <<browsers, pages, open, tainted>>

BrowserFails(v) == FallBack(v, IF BrowserFirst(v) THEN "fetch" ELSE "dlq")

ClearDLQ ==
  /\ dlq # {}
  /\ cleared' = cleared \union dlq
  /\ dlq' = {}
  /\ UNCHANGED <<visit, attempts, successes, browsers, pages, open, tainted>>

-----------------------------------------------------------------------------
\* The adapter.

\* the page a visit is about to open, or the launch before it
Open(v) ==
  /\ At(v, "open")
  /\ Go(v, IF browser = None THEN "launch" ELSE "page")
  /\ raced' = (raced \/ (browser = None /\ \E w \in Visit : At(w, "launch")))
  /\ UNCHANGED <<routed, browser, alive, launched, closing, pages, open, tainted, cleanups>>

\* the launch ends: this.browser is overwritten, whatever it was set to meanwhile; a launch
\* that fails is thrown past the retries
Launched(v) ==
  /\ At(v, "launch")
  /\ \/ /\ launched' = launched + 1
        /\ browser' = launched'
        /\ alive' = alive \union {launched'}
        /\ raced' = (raced \/ browser # None)
        /\ Go(v, "page")
        /\ UNCHANGED routed
     \/ BrowserFails(v) /\ UNCHANGED <<browser, alive, launched, raced>>
  /\ UNCHANGED <<closing, pages, open, tainted, cleanups>>

\* the retry policy: attempts recorded of a session; getBackoffMs only says how long to wait
ShouldRetry(v) == visit[v].tries < MaxBrowserRetries
RecordAttempt(v, step) == visit' = [visit EXCEPT ![v] = [at |-> step, tries |-> @.tries + 1]]

\* newPage of a browser that is gone, or null after a cleanup, throws like a navigation
\* that fails; all of these count as transient but an error with a code of its own
OpenFails(v) ==
  /\ tainted' = tainted \union {v}
  /\ \/ ShouldRetry(v) /\ RecordAttempt(v, "page") /\ UNCHANGED routed
     \/ BrowserFails(v)

NewPage(v) ==
  /\ At(v, "page")
  /\ \/ /\ browser \in alive
        /\ LET page == [browser |-> browser, owner |-> v, number |-> visit[v].tries] IN
             /\ open' = open \union {page}
             /\ pages' = [w \in DOMAIN pages \union {v} |-> IF w = v THEN page ELSE pages[w]]
        /\ Go(v, "goto")
        /\ UNCHANGED <<routed, tainted>>
     \/ OpenFails(v) /\ UNCHANGED <<pages, open>>
  /\ UNCHANGED browsers

Goto(v) ==
  /\ At(v, "goto")
  /\ \/ Go(v, "use") /\ UNCHANGED <<routed, tainted>>
     \/ OpenFails(v)
  /\ UNCHANGED <<browsers, pages, open>>

\* waitForLoad, getHTML and getScreenshot: each looks the page up again
Use(v) ==
  /\ At(v, "use")
  /\ \/ v \in DOMAIN pages /\ pages[v] \in open /\ Go(v, "close") /\ UNCHANGED <<routed, tainted>>
     \/ BrowserFails(v) /\ tainted' = tainted \union {v}
  /\ UNCHANGED <<browsers, pages, open>>

LeaveAll(v) == pages' = [w \in DOMAIN pages \ {v} |-> pages[w]]

\* Slip: the page is only forgotten.
LeaveOnly(v) ==
  /\ At(v, "close")
  /\ IF v \in DOMAIN pages THEN LeaveAll(v) ELSE UNCHANGED pages
  /\ Serve(v)
  /\ UNCHANGED <<browsers, open, tainted>>

\* errors of close are swallowed, so the visit succeeds in any case
Close(v) ==
  /\ At(v, "close")
  /\ \/ /\ v \in DOMAIN pages
        /\ open' = open \ {pages[v]}
        /\ LeaveAll(v)
        /\ UNCHANGED tainted
     \/ /\ v \in DOMAIN pages
        /\ tainted' = tainted \union {v}
        /\ UNCHANGED <<pages, open>>
     \/ /\ v \notin DOMAIN pages
        /\ UNCHANGED <<pages, open, tainted>>
  /\ Serve(v)
  /\ UNCHANGED browsers

ClosingNow(k) == closing[k] # None

\* nothing keeps a second cleanup from closing the browser that a first one waits for
Cleanup ==
  /\ browser # None /\ cleanups < MaxCleanups
  /\ closing' = [closing EXCEPT ![cleanups + 1] = browser]
  /\ cleanups' = cleanups + 1
  /\ raced' = (raced \/ \E k \in 1..MaxCleanups : ClosingNow(k))
  /\ UNCHANGED <<visit, routed, browser, alive, launched, pages, open, tainted>>

\* the close is refused, and cleanup throws
CleanupFails(k) ==
  /\ ClosingNow(k)
  /\ closing' = [closing EXCEPT ![k] = None]
  /\ UNCHANGED <<visit, routed, browser, alive, launched, raced, pages, open, tainted, cleanups>>

\* the browser is closed with its pages; then this.browser is dropped, which may be one
\* that was launched meanwhile, and the whole map emptied
CleanedUp(k) ==
  /\ ClosingNow(k)
  /\ alive' = alive \ {closing[k]}
  /\ open' = {p \in open : p.browser # closing[k]}
  /\ browser' = None
  /\ closing' = [closing EXCEPT ![k] = None]
  /\ pages' = [v \in {} |-> 0]
  /\ UNCHANGED <<visit, routed, launched, raced, tainted, cleanups>>

BrowserNext ==
  \/ \E v \in Visit : \/ Ingest(v) \/ FetchHTML(v) \/ Open(v) \/ Launched(v)
                      \/ NewPage(v) \/ Goto(v) \/ Use(v) \/ Close(v)
  \/ ClearDLQ \/ Cleanup
  \/ \E k \in 1..MaxCleanups : CleanedUp(k) \/ CleanupFails(k)

BrowserSpec == BrowserInit /\ [][BrowserNext]_browserVars

-----------------------------------------------------------------------------
\* Properties.

\* Every visit that was counted ends in exactly one place, with the other way tried first:
\* it is under way, a success, or on the dead-letter list, cleared or not, whatever fails
\* and whatever cleanup does under it (SweeperFallbackRouter.ts:61-98, 103-246).
VisitsAccounted ==
  /\ attempts = Cardinality({v \in Visit : ~ At(v, "new")})
  /\ attempts = successes + Cardinality(dlq \union cleared)
                + Cardinality({v \in Visit : visit[v].at \notin {"new", "done"}})
  /\ dlq \intersect cleared = {}

\* What is left behind has a cause: a page that is open although its visit has ended is of
\* a visit with a failed attempt, use or close, for neither a retry nor a fallback closes
\* the page it leaves (CloakBrowserAdapter.ts:80-150), or the map was emptied by a cleanup
\* of another browser; and more than one browser runs only after first uses that overlapped,
\* of which each launches one (75-77) and only the last is ever closed, or after cleanups
\* that did, of which the later one drops a browser it has not closed (314-321).
LeftoversExplained ==
  /\ \A p \in open : At(p.owner, "done") => p.owner \in tainted \/ (raced /\ cleanups > 0)
  /\ ~ raced => /\ Cardinality(alive) <= 1
                /\ alive \subseteq {browser}

\* The visits and what they leave behind are accounted for.
IngestAccounted == VisitsAccounted /\ LeftoversExplained
=============================================================================
