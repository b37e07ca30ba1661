------------------------------ MODULE AuditFetch ------------------------------
(***************************************************************************)
(* One scan of a site: runScan fetches its resources one after the other,  *)
(* each by safeFetch, which vets every hop, follows redirects by itself    *)
(* and gives up on a time-out.  What the site and the resolver answer, and *)
(* how long they take, is their choice.                                    *)
(*                                                                         *)
(* Time is the time since the scan began; a step that waits says how long. *)
(***************************************************************************)
EXTENDS Naturals, Sequences

CONSTANTS
    Resources,          \* in the order of runScan; the first is robots.txt
    Sitemap,            \* the one that robots.txt may place anywhere
    Urls,
    DefaultUrl,         \* of each resource
    Blocked,            \* URLs with credentials, another port or a blocked host
    TotalTimeout,       \* totalTimeoutMs
    ResolveTimeout,     \* RESOLVE_TIMEOUT_MS
    MaxRedirects,
    MaxExternalRequests

CONSTANTS               \* bounds of the model, not of the code
    MaxBodyTime         \* how long a body may take: the code sets no limit

RobotsTxt == Resources[1]

ASSUME FetchAssumption ==
    /\ Len(Resources) \in Nat \ {0} /\ DOMAIN Resources = 1..Len(Resources)
    /\ Sitemap # RobotsTxt
    /\ Blocked \subseteq Urls
    /\ \A i \in DOMAIN Resources : DefaultUrl[Resources[i]] \in Urls
    /\ TotalTimeout \in Nat \ {0}
    /\ {ResolveTimeout, MaxRedirects, MaxBodyTime} \subseteq Nat
    /\ MaxExternalRequests \in Nat /\ MaxExternalRequests >= Len(Resources)

VARIABLES
    pc,
    now,
    next,               \* the index of the resource being fetched
    outcome,            \* of each resource
    requests,           \* externalRequestCount
    url,                \* currentUrl of safeFetch
    timeout,            \* timeoutMs of safeFetch
    visited, redirectCount,
    subrequests         \* history: the calls of fetch(), which the platform limits

scanVars == <<next, outcome, requests>>
fetchVars == <<url, timeout, visited, redirectCount>>
auditVars == <<pc, now, scanVars, fetchVars, subrequests>>

Categories == {"unsafe_target", "unsafe_redirect_target", "redirect_loop",
               "too_many_redirects", "timeout", "connection_failed"}

ScanTypeOK ==
    /\ pc \in {"attempt", "vet", "request", "body", "done", "threw"}
    /\ now \in Nat /\ requests \in 0..Len(Resources) /\ redirectCount \in 0..MaxRedirects
    /\ next \in 1..Len(Resources)
    /\ outcome \in [DOMAIN Resources -> Categories \union {"pending", "not_attempted", "ok"}]
    /\ url \in Urls /\ timeout \in 0..TotalTimeout
    /\ visited \subseteq Urls /\ subrequests \in Nat

Waits(limit) == \E d \in 0..limit : now' = now + d

-----------------------------------------------------------------------------
(* runScan *)

\* The next resource, or the end of the scan.
Concludes(result) ==
    /\ outcome' = [outcome EXCEPT ![next] = result]
    /\ next' = IF next = Len(Resources) THEN next ELSE next + 1
    /\ pc' = IF next = Len(Resources) THEN "done" ELSE "attempt"

\* The sitemap is where robots.txt says, if it could be read and says so.
UrlOf(i) ==
    {DefaultUrl[Resources[i]]}
        \union (IF Resources[i] = Sitemap /\ outcome[1] = "ok" THEN Urls ELSE {})

BudgetRemaining == requests < MaxExternalRequests /\ now < TotalTimeout

\* A faulty variant: each resource has the whole time again.
TimeoutUnshrunk == TotalTimeout

\* No caller sets a time-out of its own.
PerFetchTimeout == TotalTimeout - now

Attempt ==
    /\ pc = "attempt" /\ BudgetRemaining
    /\ requests' = requests + 1
    /\ url' \in UrlOf(next)
    /\ timeout' = PerFetchTimeout
    /\ visited' = {} /\ redirectCount' = 0
    /\ pc' = "vet"
    /\ UNCHANGED <<now, next, outcome, subrequests>>

GiveUpOn ==
    /\ pc = "attempt" /\ ~BudgetRemaining
    /\ Concludes("not_attempted")
    /\ UNCHANGED <<now, requests, fetchVars, subrequests>>

-----------------------------------------------------------------------------
(* safeFetch *)

\* The resolver is asked for A and for AAAA records.
Lookups == 2

Fetches(n) == subrequests' = subrequests + n

Ends(category) ==
    /\ Concludes(category)
    /\ UNCHANGED <<requests, fetchVars>>

IsBlocked == url \in Blocked

\* validateTarget refuses: at once, or as the host is unknown or not public.
Refuse ==
    /\ pc = "vet"
    /\ IF IsBlocked THEN UNCHANGED <<now, subrequests>>
                    ELSE Waits(ResolveTimeout) /\ Fetches(Lookups)
    /\ Ends(IF redirectCount > 0 THEN "unsafe_redirect_target" ELSE "unsafe_target")

Passes == pc = "vet" /\ ~IsBlocked /\ Waits(ResolveTimeout)

DetectLoop ==
    /\ Passes
    /\ url \in visited
    /\ Ends("redirect_loop") /\ Fetches(Lookups)

SendRequest ==
    /\ Passes
    /\ url \notin visited
    /\ visited' = visited \union {url}
    /\ Fetches(Lookups + 1)
    /\ pc' = "request"
    /\ UNCHANGED <<scanVars, url, timeout, redirectCount>>

\* The request is abandoned when its time is over.
TimesOut ==
    /\ pc = "request"
    /\ now' = now + timeout
    /\ Ends("timeout") /\ UNCHANGED subrequests

\* For whatever reason: categoriseThrown's "dns" is in it.
ConnectionFails ==
    /\ pc = "request" /\ Waits(timeout)
    /\ Ends("connection_failed") /\ UNCHANGED subrequests

\* A faulty variant: the redirect is counted only after it is held against the limit.
MayFollowOneMore == redirectCount <= MaxRedirects

MayFollow == redirectCount < MaxRedirects

\* Each hop has the time-out of the whole fetch.
FollowRedirect ==
    /\ pc = "request" /\ Waits(timeout)
    /\ MayFollow
    /\ redirectCount' = redirectCount + 1
    /\ url' \in Urls
    /\ pc' = "vet"
    /\ UNCHANGED <<scanVars, timeout, visited, subrequests>>

RefuseRedirect ==
    /\ pc = "request" /\ Waits(timeout)
    /\ ~MayFollow
    /\ Ends("too_many_redirects") /\ UNCHANGED subrequests

\* The headers are there: the time-out is cleared before the body is read.
ReceiveHeaders ==
    /\ pc = "request" /\ Waits(timeout)
    /\ pc' = "body"
    /\ UNCHANGED <<scanVars, fetchVars, subrequests>>

\* Any status is a success, and a long body is cut.
ReadBody ==
    /\ pc = "body" /\ Waits(MaxBodyTime)
    /\ Ends("ok") /\ UNCHANGED subrequests

\* Nothing catches a Location that is not a URL, nor a body that breaks off:
\* runScan throws.
Throw ==
    /\ \/ pc = "request" /\ Waits(timeout) /\ MayFollow
       \/ pc = "body" /\ Waits(MaxBodyTime)
    /\ pc' = "threw"
    /\ UNCHANGED <<scanVars, fetchVars, subrequests>>

-----------------------------------------------------------------------------
ScanInit ==
    /\ pc = "attempt" /\ now = 0 /\ next = 1 /\ requests = 0
    /\ outcome = [i \in DOMAIN Resources |-> "pending"]
    /\ url = DefaultUrl[RobotsTxt] /\ timeout = 0
    /\ visited = {} /\ redirectCount = 0 /\ subrequests = 0

ScanNext ==
    \/ Attempt \/ GiveUpOn
    \/ Refuse \/ DetectLoop \/ SendRequest
    \/ TimesOut \/ ConnectionFails \/ FollowRedirect \/ RefuseRedirect
    \/ ReceiveHeaders \/ ReadBody \/ Throw

ScanSpec == ScanInit /\ [][ScanNext]_auditVars

-----------------------------------------------------------------------------
(* runAudit *)

\* Findings are not modelled, so "completed" stands for both kinds.
AuditStatus ==
    CASE outcome[1] = "ok" -> "completed"
      [] outcome[1] = "not_attempted" -> "target_unavailable"
      [] OTHER -> "incomplete"

-----------------------------------------------------------------------------
(* Properties *)

\* How long a scan takes: totalTimeoutMs is shared by the resources, but each
\* hop of a fetch has what was left at its beginning, and neither the resolver
\* nor the body is under it.  That a body ends at all, in MaxBodyTime, is assumed:
\* the code sets it no limit.  The claim and the scan lock are sized by the default
\* totalTimeoutMs, which is less than this.
ScanTimeBounded ==
    now <= (MaxRedirects + 1) * (ResolveTimeout + TotalTimeout) + MaxBodyTime

\* What callers and the configuration say of totalTimeoutMs: a budget for the
\* scan.  The code does not keep it.
ScanEndsInTime == now <= TotalTimeout

\* However a site redirects, and wherever a scan times out, is refused or throws, each
\* request it counts stands for so many calls of fetch() at most, two of the resolver
\* and one of the site for each hop.  The platform stops a request that makes more
\* than it allows, which externalRequestCount cannot tell.
SubrequestsBounded == subrequests <= requests * ((MaxRedirects + 1) * (Lookups + 1))

\* SCAN_CAPACITY_BUDGET.md: one fetch() per hop, so 6 x (1 + 5) in the worst case.
\* The calls of the resolver are not in it.
SubrequestsAsDocumented == subrequests <= Len(Resources) * (MaxRedirects + 1)

\* The guide crawler-shows-resource-unavailable.md and runAudit's own comment:
\* "target_unavailable" is for a target that was refused.  safeFetch returns a
\* failure for it, so the code has "incomplete", and the first resource is
\* never without a result.
RefusedTargetsAreUnavailable ==
    pc = "done" /\ outcome[1] = "unsafe_target" => AuditStatus = "target_unavailable"

\* monitoring.ts, of an audit that throws: "unambiguously platform-side".  What
\* a target answers should then never end a scan; it does.
TargetsEndNoScan == pc # "threw"
=============================================================================
