----------------------------- MODULE Audit_proofs -----------------------------
(***************************************************************************)
(* Proofs about what an audit rests on.                                    *)
(*                                                                         *)
(* AuditFetch, for any resources, URLs, limits and answers of the site:    *)
(* the time a scan can take is bounded, and so are the calls of fetch()    *)
(* that each request it counts stands for.  The time of a fetch is counted *)
(* by hops: each may resolve for the whole ResolveTimeout and then wait    *)
(* for the whole time-out of the fetch (WithinHops).  A fetch begins only  *)
(* while the budget of the scan is not spent, so that the bound of one     *)
(* fetch is that of the scan.  The calls of fetch() are counted by hops    *)
(* too, but add up over the resources (WithinFetches).                     *)
(*                                                                         *)
(* CrawlerRegistry, for any crawlers, releases, overlapping activations,   *)
(* audits and kills: results are of crawlers that were verified, and       *)
(* outdated results are due again, where the statement of the activation   *)
(* had room for their domains.  A release is frozen when it is made and    *)
(* validated before it is published (Keeps); from there validity travels   *)
(* with the release to the active pointer, to audits under way and to      *)
(* results (RInv).  What an activation leaves outdated is traced to the    *)
(* request that will reschedule it (OutdatedAreAwaited).                   *)
(*                                                                         *)
(* PolicyAudit, for any robots.txt, registry, preset and proposals: an     *)
(* audit says what RFC 9309 says of the file as a whole, and a proposal    *)
(* that is appended binds the crawlers it is for, and only them.  The      *)
(* parser and the folds of the evaluator are functions defined by          *)
(* recursion; that they are there (Recursion) and what they return         *)
(* (CountingUp) rests on the order of the numbers.  ReadFaithfully is what *)
(* the parser keeps true from line to line.                                *)
(***************************************************************************)
EXTENDS AuditFetch, CrawlerRegistry, PolicyAudit, WellFoundedInduction, TLAPS

-----------------------------------------------------------------------------
(* The scan: the inductive invariants *)

\* A resource is requested at most once, and not before its turn.
OneRequestEach == requests <= next /\ (pc = "attempt" => requests < next)

ScanTInv == ScanTypeOK /\ OneRequestEach

\* When the fetch under way is over that began as timeout was left and has
\* followed k hops.
AfterHops(k) == (TotalTimeout - timeout) + k * (ResolveTimeout + timeout)

ScanLimit == (MaxRedirects + 1) * (ResolveTimeout + TotalTimeout)

WithinHops ==
    /\ pc = "vet" => now <= AfterHops(redirectCount)
    /\ pc = "request" => now <= AfterHops(redirectCount) + ResolveTimeout
    /\ pc = "body" => now <= AfterHops(redirectCount + 1)
    /\ now <= ScanLimit + MaxBodyTime

\* The calls of fetch() for a hop, and for a fetch that follows every redirect it may.
PerHop == Lookups + 1
PerFetch == (MaxRedirects + 1) * PerHop

\* Those for the hops gone through, on top of the fetches that are over.
WithinFetches ==
    /\ pc = "vet" =>
        requests > 0 /\ subrequests <= (requests - 1) * PerFetch + redirectCount * PerHop
    /\ pc = "request" =>
        requests > 0 /\ subrequests <= (requests - 1) * PerFetch + (redirectCount + 1) * PerHop
    /\ subrequests <= requests * PerFetch

-----------------------------------------------------------------------------
(* Lemmas *)

LEMMA ScanConstants ==
    /\ Len(Resources) \in Nat \ {0} /\ DOMAIN Resources = 1..Len(Resources)
    /\ TotalTimeout \in Nat \ {0} /\ ResolveTimeout \in Nat /\ MaxRedirects \in Nat
    /\ MaxBodyTime \in Nat
  BY FetchAssumption

LEMMA UrlsAreUrls == ASSUME ScanTInv, NEW u \in UrlOf(next) PROVE u \in Urls
  BY FetchAssumption DEF UrlOf, ScanTInv, ScanTypeOK

\* A wait does not go back in time, and ends within its limit.
LEMMA WaitsFor ==
    ASSUME now \in Nat, NEW limit \in Nat, Waits(limit)
    PROVE  now' \in Nat /\ now <= now' /\ now' <= now + limit
  BY DEF Waits

\* A resource that has its result gives way to the next, which is not yet requested.
LEMMA EndedFetch ==
    ASSUME ScanTInv, NEW result \in Categories \cup {"not_attempted", "ok"}, Concludes(result),
           now' \in Nat, subrequests' \in Nat, UNCHANGED <<requests, fetchVars>>
    PROVE  ScanTInv'
<1>1. /\ next' \in 1..Len(Resources) /\ next <= next'
      /\ pc' \in {"attempt", "done"} /\ (pc' = "attempt" => next < next')
  <2>1. PICK n \in Nat \ {0} : n = Len(Resources)
    BY ScanConstants
  <2>2. /\ next' = IF next = n THEN next ELSE next + 1
        /\ pc' = IF next = n THEN "done" ELSE "attempt"
    BY <2>1 DEF Concludes
  <2>3. next \in 1..n
    BY <2>1 DEF ScanTInv, ScanTypeOK
  <2>4. QED
    BY <2>1, <2>2, <2>3
<1>2. outcome' \in [DOMAIN Resources -> Categories \cup {"pending", "not_attempted", "ok"}]
  BY ScanConstants DEF Concludes, ScanTInv, ScanTypeOK
<1>3. requests <= next' /\ (pc' = "attempt" => requests < next')
  BY <1>1, ScanConstants DEF ScanTInv, ScanTypeOK, OneRequestEach
<1>4. QED
  BY <1>1, <1>2, <1>3 DEF ScanTInv, ScanTypeOK, OneRequestEach, fetchVars

LEMMA EndsTypes ==
    ASSUME ScanTInv, NEW category \in Categories \cup {"ok"}, Ends(category), now' \in Nat,
           subrequests' \in Nat
    PROVE  ScanTInv'
  BY EndedFetch DEF Ends

LEMMA FetchesMore ==
    ASSUME [ScanNext]_auditVars, subrequests \in Nat
    PROVE  subrequests' \in Nat
  BY DEF ScanNext, auditVars, Attempt, GiveUpOn, Refuse, DetectLoop, SendRequest, Fetches, Lookups,
         TimesOut, ConnectionFails, FollowRedirect, RefuseRedirect, ReceiveHeaders, ReadBody, Throw

LEMMA ScanTInvStep == ScanTInv /\ [ScanNext]_auditVars => ScanTInv'
<1> SUFFICES ASSUME ScanTInv, [ScanNext]_auditVars
             PROVE  ScanTInv'
  OBVIOUS
<1> USE ScanConstants
<1>a. now \in Nat /\ timeout \in Nat /\ subrequests \in Nat
  BY DEF ScanTInv, ScanTypeOK
<1>b. subrequests' \in Nat
  BY <1>a, FetchesMore
<1>1. CASE Attempt
  <2>1. requests + 1 <= next /\ requests + 1 \in 0..Len(Resources)
    BY <1>1 DEF Attempt, ScanTInv, ScanTypeOK, OneRequestEach
  <2>2. PerFetchTimeout \in 0..TotalTimeout
    BY <1>1 DEF Attempt, BudgetRemaining, PerFetchTimeout, ScanTInv, ScanTypeOK
  <2>3. url' \in Urls
    BY <1>1, UrlsAreUrls DEF Attempt
  <2>4. QED
    BY <1>1, <2>1, <2>2, <2>3 DEF Attempt, ScanTInv, ScanTypeOK, OneRequestEach
<1>2. CASE GiveUpOn
  BY <1>2, <1>a, <1>b, EndedFetch DEF GiveUpOn
<1>3. CASE Refuse
  <2>1. now' \in Nat
    BY <1>3, <1>a, WaitsFor DEF Refuse
  <2>2. QED
    BY <1>3, <1>b, <2>1, EndsTypes DEF Refuse, Categories
<1>4. CASE DetectLoop
  BY <1>4, <1>a, <1>b, WaitsFor, EndsTypes DEF DetectLoop, Passes, Categories
<1>5. CASE SendRequest
  <2>1. now' \in Nat
    BY <1>5, <1>a, WaitsFor DEF SendRequest, Passes
  <2>2. QED
    BY <1>5, <1>b, <2>1 DEF SendRequest, Passes, scanVars, ScanTInv, ScanTypeOK, OneRequestEach
<1>6. CASE TimesOut
  BY <1>6, <1>a, <1>b, WaitsFor, EndsTypes DEF TimesOut, Categories
<1>7. CASE ConnectionFails
  BY <1>7, <1>a, <1>b, WaitsFor, EndsTypes DEF ConnectionFails, Categories
<1>8. CASE FollowRedirect
  <2>1. now' \in Nat
    BY <1>8, <1>a, WaitsFor DEF FollowRedirect
  <2>2. QED
    BY <1>8, <2>1 DEF MayFollow, FollowRedirect, scanVars, ScanTInv, ScanTypeOK, OneRequestEach
<1>9. CASE RefuseRedirect
  BY <1>9, <1>a, <1>b, WaitsFor, EndsTypes DEF RefuseRedirect, Categories
<1>10. CASE ReceiveHeaders
  <2>1. now' \in Nat
    BY <1>10, <1>a, WaitsFor DEF ReceiveHeaders
  <2>2. QED
    BY <1>10, <2>1 DEF ReceiveHeaders, scanVars, fetchVars, ScanTInv, ScanTypeOK, OneRequestEach
<1>11. CASE ReadBody
  BY <1>11, <1>a, <1>b, WaitsFor, EndsTypes DEF ReadBody, Categories
<1>12. CASE Throw
  <2>1. now' \in Nat
    BY <1>12, <1>a, WaitsFor DEF Throw
  <2>2. QED
    BY <1>12, <2>1 DEF Throw, scanVars, fetchVars, ScanTInv, ScanTypeOK, OneRequestEach
<1>13. CASE UNCHANGED auditVars
  BY <1>13 DEF auditVars, scanVars, fetchVars, ScanTInv, ScanTypeOK, OneRequestEach
<1>14. QED
  BY <1>1, <1>2, <1>3, <1>4, <1>5, <1>6, <1>7, <1>8, <1>9, <1>10, <1>11, <1>12,
     <1>13 DEF ScanNext

-----------------------------------------------------------------------------
(* The time of a fetch *)

\* Hops take time, one as much as the other, and all of a fetch within the limit.
LEMMA Hops ==
    ASSUME NEW R \in Nat, NEW T \in Nat, NEW M \in Nat, NEW t \in 0..T, NEW k \in 0..M
    PROVE  /\ (T - t) + k * (R + t) \in Nat
           /\ (T - t) + (k + 1) * (R + t) = ((T - t) + k * (R + t)) + R + t
           /\ (T - t) + (k + 1) * (R + t) <= (M + 1) * (R + T)
<1>1. k * (R + t) \in Nat /\ (k + 1) * (R + t) = k * (R + t) + R + t
  BY SMT
<1>2. (T - t) + (k + 1) * (R + t) <= (M + 1) * (R + T)
  <2>1. k * (R + t) <= M * (R + t)
    BY SMT
  <2>2. M * (R + t) <= M * (R + T)
    BY SMT
  <2>3. (M + 1) * (R + T) = M * (R + T) + R + T
    BY SMT
  <2>4. k * (R + t) \in Nat /\ M * (R + t) \in Nat /\ M * (R + T) \in Nat
    BY SMT
  <2>5. QED
    BY <1>1, <2>1, <2>2, <2>3, <2>4
<1>3. QED
  BY <1>1, <1>2

LEMMA HopFacts ==
    ASSUME ScanTInv
    PROVE  /\ ScanLimit \in Nat /\ now \in Nat /\ timeout \in Nat /\ AfterHops(redirectCount) \in Nat
           /\ AfterHops(redirectCount + 1) = AfterHops(redirectCount) + ResolveTimeout + timeout
           /\ AfterHops(redirectCount + 1) <= ScanLimit
<1>1. PICK R \in Nat, T \in Nat, M \in Nat :
          R = ResolveTimeout /\ T = TotalTimeout /\ M = MaxRedirects
  BY ScanConstants
<1>2. timeout \in 0..T /\ redirectCount \in 0..M /\ now \in Nat
  BY <1>1 DEF ScanTInv, ScanTypeOK
<1>3. /\ (T - timeout) + redirectCount * (R + timeout) \in Nat
      /\ (T - timeout) + (redirectCount + 1) * (R + timeout)
             = ((T - timeout) + redirectCount * (R + timeout)) + R + timeout
      /\ (T - timeout) + (redirectCount + 1) * (R + timeout) <= (M + 1) * (R + T)
  BY <1>2, Hops
<1>4. (M + 1) * (R + T) \in Nat
  BY SMT
<1>5. QED
  BY <1>1, <1>2, <1>3, <1>4 DEF AfterHops, ScanLimit

\* A fetch that is over is over in time.
LEMMA EndsInTime ==
    ASSUME ScanLimit \in Nat, now' \in Nat, now' <= ScanLimit + MaxBodyTime,
           pc' \notin {"vet", "request", "body"}
    PROVE  WithinHops'
  BY DEF WithinHops

LEMMA EndsElsewhere ==
    ASSUME NEW category, Ends(category) PROVE pc' \notin {"vet", "request", "body"}
  BY DEF Ends, Concludes

LEMMA WithinHopsStep == ScanTInv /\ ScanTInv' /\ WithinHops /\ [ScanNext]_auditVars => WithinHops'
<1> SUFFICES ASSUME ScanTInv, ScanTInv', WithinHops, [ScanNext]_auditVars
             PROVE  WithinHops'
  OBVIOUS
<1> USE ScanConstants
<1>a. /\ ScanLimit \in Nat /\ now \in Nat /\ timeout \in Nat /\ AfterHops(redirectCount) \in Nat
      /\ AfterHops(redirectCount + 1) = AfterHops(redirectCount) + ResolveTimeout + timeout
      /\ AfterHops(redirectCount + 1) <= ScanLimit
  BY HopFacts
<1>b. now' \in Nat
  BY DEF ScanTInv, ScanTypeOK
<1>c. pc \in {"vet", "request", "body"} => now <= ScanLimit
  BY <1>a DEF WithinHops
<1>1. CASE Attempt
  <2>1. /\ pc' = "vet" /\ redirectCount' = 0 /\ timeout' = TotalTimeout - now /\ now' = now
        /\ now < TotalTimeout
    BY <1>1 DEF Attempt, BudgetRemaining, PerFetchTimeout
  <2>2. AfterHops(redirectCount)' = now
    BY <2>1, <1>a DEF AfterHops
  <2>3. QED
    BY <1>a, <2>1, <2>2 DEF WithinHops
<1>2. CASE GiveUpOn
  BY <1>2, <1>a DEF GiveUpOn, Concludes, WithinHops
<1>3. CASE Refuse
  <2>1. now' <= ScanLimit + MaxBodyTime
    BY <1>3, <1>a, WaitsFor DEF Refuse, WithinHops
  <2>2. pc' \notin {"vet", "request", "body"}
    BY <1>3, EndsElsewhere DEF Refuse
  <2>3. QED
    BY <1>a, <1>b, <2>1, <2>2, EndsInTime
<1>4. CASE DetectLoop
  <2>1. now' <= ScanLimit + MaxBodyTime
    BY <1>4, <1>a, WaitsFor DEF DetectLoop, Passes, WithinHops
  <2>2. pc' \notin {"vet", "request", "body"}
    BY <1>4, EndsElsewhere DEF DetectLoop
  <2>3. QED
    BY <1>a, <1>b, <2>1, <2>2, EndsInTime
<1>5. CASE SendRequest
  <2>1. pc' = "request" /\ now' <= now + ResolveTimeout /\ now <= AfterHops(redirectCount)
    BY <1>5, <1>a, WaitsFor DEF SendRequest, Passes, WithinHops
  <2>2. AfterHops(redirectCount)' = AfterHops(redirectCount)
    BY <1>5 DEF SendRequest, AfterHops
  <2>3. QED
    BY <1>a, <1>b, <2>1, <2>2 DEF WithinHops
<1>6. CASE TimesOut
  <2>1. now' <= ScanLimit + MaxBodyTime
    BY <1>6, <1>a, WaitsFor DEF TimesOut, WithinHops
  <2>2. pc' \notin {"vet", "request", "body"}
    BY <1>6, EndsElsewhere DEF TimesOut
  <2>3. QED
    BY <1>a, <1>b, <2>1, <2>2, EndsInTime
<1>7. CASE ConnectionFails
  <2>1. now' <= ScanLimit + MaxBodyTime
    BY <1>7, <1>a, WaitsFor DEF ConnectionFails, WithinHops
  <2>2. pc' \notin {"vet", "request", "body"}
    BY <1>7, EndsElsewhere DEF ConnectionFails
  <2>3. QED
    BY <1>a, <1>b, <2>1, <2>2, EndsInTime
<1>8. CASE FollowRedirect
  <2>1. pc' = "vet" /\ now' <= AfterHops(redirectCount + 1)
    BY <1>8, <1>a, WaitsFor DEF FollowRedirect, WithinHops
  <2>2. AfterHops(redirectCount)' = AfterHops(redirectCount + 1)
    BY <1>8 DEF FollowRedirect, AfterHops
  <2>3. QED
    BY <1>a, <1>b, <2>1, <2>2 DEF WithinHops
<1>9. CASE RefuseRedirect
  <2>1. now' <= ScanLimit + MaxBodyTime
    BY <1>9, <1>a, WaitsFor DEF RefuseRedirect, WithinHops
  <2>2. pc' \notin {"vet", "request", "body"}
    BY <1>9, EndsElsewhere DEF RefuseRedirect
  <2>3. QED
    BY <1>a, <1>b, <2>1, <2>2, EndsInTime
<1>10. CASE ReceiveHeaders
  <2>1. pc' = "body" /\ now' <= AfterHops(redirectCount + 1)
    BY <1>10, <1>a, WaitsFor DEF ReceiveHeaders, WithinHops
  <2>2. AfterHops(redirectCount + 1)' = AfterHops(redirectCount + 1)
    BY <1>10 DEF ReceiveHeaders, fetchVars, AfterHops
  <2>3. QED
    BY <1>a, <1>b, <2>1, <2>2 DEF WithinHops
<1>11. CASE ReadBody
  <2>1. now' <= ScanLimit + MaxBodyTime
    BY <1>11, <1>a, WaitsFor DEF ReadBody, WithinHops
  <2>2. pc' \notin {"vet", "request", "body"}
    BY <1>11, EndsElsewhere DEF ReadBody
  <2>3. QED
    BY <1>a, <1>b, <2>1, <2>2, EndsInTime
<1>12. CASE Throw
  <2>1. now' <= ScanLimit + MaxBodyTime
    BY <1>12, <1>a, <1>c, WaitsFor DEF Throw, WithinHops
  <2>2. QED
    BY <1>12, <1>a, <1>b, <2>1, EndsInTime DEF Throw
<1>13. CASE UNCHANGED auditVars
  BY <1>13 DEF auditVars, fetchVars, WithinHops, AfterHops
<1>14. QED
  BY <1>1, <1>2, <1>3, <1>4, <1>5, <1>6, <1>7, <1>8, <1>9, <1>10, <1>11, <1>12,
     <1>13 DEF ScanNext

-----------------------------------------------------------------------------
(* The calls of fetch() *)

\* Hops add up to no more than a fetch makes, and fetches to no more than requests do.
LEMMA Fetching ==
    ASSUME NEW M \in Nat, NEW q \in Nat, NEW k \in 0..M
    PROVE  /\ (q + 1) * ((M + 1) * 3) = q * ((M + 1) * 3) + (M + 1) * 3
           /\ (k + 1) * 3 = k * 3 + 3 /\ (k + 1) * 3 <= (M + 1) * 3
           /\ q * ((M + 1) * 3) \in Nat
<1>1. PICK p \in Nat : p = (M + 1) * 3
  BY SMT
<1>2. (q + 1) * p = q * p + p /\ q * p \in Nat
  BY SMT
<1>3. QED
  BY <1>1, <1>2

LEMMA FetchFacts ==
    ASSUME ScanTInv
    PROVE  /\ PerFetch \in Nat /\ requests * PerFetch \in Nat /\ PerHop = 3 /\ Lookups = 2
           /\ (requests + 1) * PerFetch = requests * PerFetch + PerFetch
           /\ requests > 0 =>
                /\ (requests - 1) * PerFetch \in Nat
                /\ requests * PerFetch = (requests - 1) * PerFetch + PerFetch
           /\ redirectCount * PerHop \in Nat
           /\ (redirectCount + 1) * PerHop = redirectCount * PerHop + 3
           /\ (redirectCount + 1) * PerHop <= PerFetch
<1>1. PICK M \in Nat : M = MaxRedirects
  BY ScanConstants
<1>2. redirectCount \in 0..M /\ requests \in Nat
  BY <1>1, ScanConstants DEF ScanTInv, ScanTypeOK
<1>3. PerHop = 3 /\ Lookups = 2 /\ PerFetch = (M + 1) * 3
  BY <1>1 DEF PerHop, Lookups, PerFetch
<1>4. PICK k \in 0..M, q \in Nat : k = redirectCount /\ q = requests
  BY <1>2
<1>5. /\ (q + 1) * PerFetch = q * PerFetch + PerFetch /\ q * PerFetch \in Nat
      /\ (k + 1) * 3 = k * 3 + 3 /\ (k + 1) * 3 <= PerFetch
  BY <1>3, Fetching
<1>6. q > 0 => q - 1 \in Nat /\ (q - 1) * PerFetch \in Nat
               /\ q * PerFetch = (q - 1) * PerFetch + PerFetch
  <2>1. SUFFICES ASSUME q > 0
                 PROVE  q - 1 \in Nat /\ (q - 1) * PerFetch \in Nat
                        /\ q * PerFetch = (q - 1) * PerFetch + PerFetch
    OBVIOUS
  <2>2. PICK o \in Nat : o = q - 1 /\ o + 1 = q
    BY <2>1
  <2>3. (o + 1) * ((M + 1) * 3) = o * ((M + 1) * 3) + (M + 1) * 3 /\ o * ((M + 1) * 3) \in Nat
    BY <1>4, Fetching
  <2>4. QED
    BY <1>3, <2>2, <2>3
<1>7. PerFetch \in Nat /\ k * 3 \in Nat
  BY <1>3
<1>8. QED
  BY <1>3, <1>4, <1>5, <1>6, <1>7

\* A fetch that ends at its vetting has made two calls more.
LEMMA FetchEnds ==
    ASSUME ScanTInv, WithinFetches, pc = "vet", requests' = requests,
           subrequests \in Nat, subrequests' <= subrequests + 2, subrequests' \in Nat,
           pc' \notin {"vet", "request"}
    PROVE  WithinFetches'
<1>1. subrequests + 2 <= requests * PerFetch
  BY FetchFacts DEF WithinFetches
<1>2. subrequests' <= requests * PerFetch
  BY <1>1, FetchFacts
<1>3. PerFetch' = PerFetch
  BY DEF PerFetch, PerHop, Lookups
<1>4. QED
  BY <1>2, <1>3 DEF WithinFetches

LEMMA WithinFetchesStep ==
    ScanTInv /\ ScanTInv' /\ WithinFetches /\ [ScanNext]_auditVars => WithinFetches'
<1> SUFFICES ASSUME ScanTInv, ScanTInv', WithinFetches, [ScanNext]_auditVars
             PROVE  WithinFetches'
  OBVIOUS
<1>a. subrequests \in Nat /\ subrequests' \in Nat /\ requests \in Nat
  BY ScanConstants DEF ScanTInv, ScanTypeOK
<1>b. PerFetch' = PerFetch /\ PerHop' = PerHop
  BY DEF PerFetch, PerHop, Lookups
<1>c. ASSUME requests' = requests, subrequests' = subrequests, pc' \notin {"vet", "request"}
      PROVE  WithinFetches'
  BY <1>b, <1>c DEF WithinFetches
<1>1. CASE Attempt
  <2>1. /\ pc' = "vet" /\ redirectCount' = 0 /\ requests' = requests + 1
        /\ subrequests' = subrequests
    BY <1>1 DEF Attempt
  <2>2. subrequests <= requests * PerFetch
    BY DEF WithinFetches
  <2>3. /\ requests' > 0 /\ (requests' - 1) * PerFetch = requests * PerFetch
        /\ redirectCount' * PerHop = 0 /\ requests' * PerFetch = requests * PerFetch + PerFetch
    <3>1. requests' - 1 = requests
      BY <1>a, <2>1
    <3>2. 0 * PerHop = 0
      BY FetchFacts
    <3>3. QED
      BY <1>a, <2>1, <3>1, <3>2, FetchFacts
  <2>4. subrequests <= requests * PerFetch + 0 /\ subrequests <= requests * PerFetch + PerFetch
    <3>1. PICK n \in Nat, p \in Nat : n = requests * PerFetch /\ p = PerFetch
      BY FetchFacts
    <3>2. subrequests <= n + 0 /\ subrequests <= n + p
      BY <1>a, <2>2, <3>1
    <3>3. QED
      BY <3>1, <3>2
  <2>5. /\ pc' = "vet" /\ requests' > 0
        /\ subrequests' <= (requests' - 1) * PerFetch' + redirectCount' * PerHop'
    BY <1>b, <2>1, <2>3, <2>4
  <2>6. subrequests' <= requests' * PerFetch'
    BY <1>b, <2>1, <2>3, <2>4
  <2>7. QED
    BY <2>5, <2>6 DEF WithinFetches
<1>2. CASE GiveUpOn
  BY <1>2, <1>c DEF GiveUpOn, Concludes
<1>3. CASE Refuse
  <2>1. pc = "vet" /\ requests' = requests /\ pc' \notin {"vet", "request"}
        /\ (subrequests' = subrequests \/ subrequests' = subrequests + Lookups)
    BY <1>3, EndsElsewhere DEF Refuse, Ends, Fetches
  <2>2. QED
    BY <1>a, <2>1, FetchEnds, FetchFacts
<1>4. CASE DetectLoop
  <2>1. pc = "vet" /\ requests' = requests /\ pc' \notin {"vet", "request"}
        /\ subrequests' = subrequests + Lookups
    BY <1>4, EndsElsewhere DEF DetectLoop, Passes, Ends, Fetches
  <2>2. QED
    BY <1>a, <2>1, FetchEnds, FetchFacts
<1>5. CASE SendRequest
  <2>1. /\ pc = "vet" /\ pc' = "request" /\ requests' = requests
        /\ redirectCount' = redirectCount /\ subrequests' = subrequests + 3
    BY <1>5, FetchFacts DEF SendRequest, Passes, scanVars, Fetches
  <2>2. /\ requests > 0
        /\ subrequests + 3 <= (requests - 1) * PerFetch + (redirectCount + 1) * PerHop
    BY <1>a, <2>1, FetchFacts DEF WithinFetches
  <2>3. subrequests + 3 <= requests * PerFetch
    BY <1>a, <2>2, FetchFacts
  <2>4. QED
    BY <1>b, <2>1, <2>2, <2>3 DEF WithinFetches
<1>6. CASE TimesOut \/ ConnectionFails \/ RefuseRedirect \/ ReadBody
  BY <1>6, <1>c, EndsElsewhere DEF TimesOut, ConnectionFails, RefuseRedirect, ReadBody, Ends
<1>7. CASE FollowRedirect
  <2>1. /\ pc = "request" /\ pc' = "vet" /\ requests' = requests
        /\ redirectCount' = redirectCount + 1 /\ subrequests' = subrequests
    BY <1>7 DEF FollowRedirect, scanVars
  <2>2. QED
    BY <1>b, <2>1 DEF WithinFetches
<1>8. CASE ReceiveHeaders \/ Throw
  BY <1>8, <1>c DEF ReceiveHeaders, Throw, scanVars
<1>9. CASE UNCHANGED auditVars
  BY <1>9, <1>b DEF auditVars, scanVars, fetchVars, WithinFetches
<1>10. QED
  BY <1>1, <1>2, <1>3, <1>4, <1>5, <1>6, <1>7, <1>8, <1>9 DEF ScanNext

-----------------------------------------------------------------------------
(* The theorems *)

\* Variables keep their types, and a resource is requested at most once, so that
\* a scan sends at most one first request for each.
THEOREM ScanInvariant == ScanSpec => []ScanTInv
<1>1. ScanInit => ScanTInv
  <2> SUFFICES ASSUME ScanInit
               PROVE  ScanTInv
    OBVIOUS
  <2>1. url \in Urls
    BY FetchAssumption DEF ScanInit, RobotsTxt
  <2>2. outcome \in [DOMAIN Resources -> Categories \cup {"pending", "not_attempted", "ok"}]
    BY DEF ScanInit
  <2>3. QED
    BY <2>1, <2>2, ScanConstants DEF ScanInit, ScanTInv, ScanTypeOK, OneRequestEach
<1>2. QED
  BY <1>1, ScanTInvStep, PTL DEF ScanSpec

THEOREM ScanTypeCorrect == ScanSpec => []ScanTypeOK
<1>1. ScanTInv => ScanTypeOK
  BY DEF ScanTInv
<1>2. QED
  BY <1>1, ScanInvariant, PTL

\* Whatever the site answers and however long it takes, a scan is over in the
\* time of one fetch that follows every redirect it may, and of one body.
THEOREM ScanTimeBoundedHolds == ScanSpec => []ScanTimeBounded
<1>1. ScanInit => WithinHops
  <2>1. ScanLimit \in Nat
    <3>1. PICK R \in Nat, T \in Nat, M \in Nat :
              R = ResolveTimeout /\ T = TotalTimeout /\ M = MaxRedirects
      BY ScanConstants
    <3>2. (M + 1) * (R + T) \in Nat
      BY SMT
    <3>3. QED
      BY <3>1, <3>2 DEF ScanLimit
  <2>2. QED
    BY <2>1, ScanConstants DEF ScanInit, WithinHops
<1>2. WithinHops => ScanTimeBounded
  BY DEF WithinHops, ScanTimeBounded, ScanLimit
<1>3. QED
  BY <1>1, <1>2, ScanInvariant, WithinHopsStep, PTL DEF ScanSpec

\* Whatever the site and the resolver answer, each request that is counted stands for
\* at most so many calls of fetch() as a chain of all the redirects it may follow
\* makes, the calls of the resolver included.
THEOREM SubrequestsBoundedHolds == ScanSpec => []SubrequestsBounded
<1>1. ScanInit => WithinFetches
  <2>1. PICK M \in Nat : M = MaxRedirects
    BY ScanConstants
  <2>2. 0 * ((M + 1) * 3) = 0
    OBVIOUS
  <2>3. PerFetch = (M + 1) * 3
    BY <2>1 DEF PerFetch, PerHop, Lookups
  <2>4. QED
    BY <2>2, <2>3 DEF ScanInit, WithinFetches
<1>2. WithinFetches => SubrequestsBounded
  BY DEF WithinFetches, SubrequestsBounded, PerFetch, PerHop
<1>3. QED
  BY <1>1, <1>2, ScanInvariant, WithinFetchesStep, PTL DEF ScanSpec

-----------------------------------------------------------------------------
(* The registry: the inductive invariants *)

PublishedReleasesAreValid ==
    \A v \in Releases : release[v].state = "published" => ~ValidationErrors(v)

\* A release is validated before it is activated, and frozen from then on.
ActivationsAreValid ==
    \A r \in Requests, v \in Releases :
        request[r].pc \in {"checking", "activating", "comparing"} /\ request[r].target = v =>
            /\ release[v].state # "none"
            /\ request[r].pc = "activating" =>
                  /\ ~ValidationErrors(v)
                  /\ request[r].action = "roll_back" => release[v].state = "published"

SeenArePublished ==
    \A r \in Requests : request[r].pc \in {"checking", "activating", "comparing"} =>
        release[request[r].seen].state = "published"

AuditsArePublished ==
    \A s \in Scans : scan[s].pc \in {"claiming", "auditing"} =>
        release[scan[s].release].state = "published"

\* A domain's results are those of its release, once it has one.
ResultsAreFrozen ==
    \A d \in Domains :
        \/ domain[d].results = {}
        \/ \E v \in Releases : /\ domain[d].release = v /\ release[v].state = "published"
                              /\ domain[d].results = ResolveEvaluationRows(v)

RInv ==
    /\ TypeOK /\ PublishedReleasesAreValid /\ ActivationsAreValid
    /\ release[active].state = "published"
    /\ SeenArePublished /\ AuditsArePublished /\ ResultsAreFrozen

\* Request r is about to reschedule domain d for the sake of crawler c.
Awaited(r, d, c) ==
    \/ /\ At(r, "comparing")
       /\ \E v, w \in Releases : /\ request[r].seen = v /\ request[r].target = w
                                /\ Status(v, c) # Status(w, c)
    \/ At(r, "scheduling") /\ d \in request[r].affected

\* A result that is out of date is one an activation under way will find, or
\* has found, until it is due.
OutdatedAreAwaited ==
    \A d \in Domains \ missed : \A c \in domain[d].results : \A v, w \in Releases :
        /\ ~domain[d].due
        /\ domain[d].release = v /\ active = w /\ Status(v, c) # Status(w, c)
        => \E r \in Requests : Awaited(r, d, c)

-----------------------------------------------------------------------------
(* What kinds of request and scan there are *)

Scheduling == [pc : {"scheduling"}, affected : SUBSET Domains]
Claiming == [pc : {"claiming"}, release : Releases]
Auditing == [pc : {"auditing"}, release : Releases, batch : SUBSET Domains]

DomainRow == [release : Releases \cup {None}, results : SUBSET Crawlers, due : BOOLEAN]

LEMMA RequestFacts ==
    ASSUME NEW q \in {IdleRequest} \cup Activation \cup Scheduling
    PROVE  /\ q = IdleRequest <=> q.pc = "idle"
           /\ q.pc \in {"checking", "activating", "comparing"} <=> q \in Activation
           /\ q.pc = "scheduling" <=> q \in Scheduling
           /\ q.pc \in {"idle", "checking", "activating", "comparing", "scheduling"}
  BY DEF IdleRequest, Activation, Scheduling

LEMMA ScanFacts ==
    ASSUME NEW a \in {IdleScan} \cup Claiming \cup Auditing
    PROVE  /\ a = IdleScan <=> a.pc = "idle"
           /\ a.pc = "claiming" <=> a \in Claiming
           /\ a.pc = "auditing" <=> a \in Auditing
           /\ a.pc \in {"idle", "claiming", "auditing"}
           /\ a.pc # "idle" => a.release \in Releases
           /\ a.pc = "auditing" => a.batch \subseteq Domains
  BY DEF IdleScan, Claiming, Auditing

LEMMA ActivationFacts ==
    ASSUME NEW q \in Activation
    PROVE  q.target \in Releases /\ q.seen \in Releases
  BY DEF Activation

LEMMA TypeParts ==
    TypeOK => /\ request \in [Requests -> {IdleRequest} \cup Activation \cup Scheduling]
              /\ scan \in [Scans -> {IdleScan} \cup Claiming \cup Auditing]
  BY DEF TypeOK, Scheduling, Claiming, Auditing

LEMMA RowFacts ==
    ASSUME NEW row \in DomainRow
    PROVE  [row EXCEPT !.due = TRUE] \in DomainRow
  BY DEF DomainRow

LEMMA BoundsAreNat ==
    MaxEdits \in Nat /\ MaxActivations \in Nat /\ Statuses \subseteq LifecycleStatuses
  BY RegistryAssumption

LEMMA TypeStep == TypeOK /\ [Next]_vars => TypeOK'
<1> SUFFICES ASSUME TypeOK, [Next]_vars
             PROVE  TypeOK'
  OBVIOUS
<1>1. ASSUME NEW c \in Crawlers, CreateCrawlerDraft(c)
      PROVE  TypeOK'
  <2>1. [status |-> "unverified", verified |-> FALSE] \in CrawlerRow
    BY <1>1 DEF CreateCrawlerDraft, TypeOK, CrawlerRow, LifecycleStatuses, EvaluationEligible
  <2>2. crawler' \in [Crawlers -> CrawlerRow \cup {None}] /\ edits' \in 0..MaxEdits
    BY <1>1, <2>1, BoundsAreNat DEF CreateCrawlerDraft, Edits, TypeOK
  <2>3. QED
    BY <1>1, <2>2 DEF CreateCrawlerDraft, Edits, TypeOK
<1>2. ASSUME NEW c \in Crawlers, VerifyCrawler(c)
      PROVE  TypeOK'
  <2>1. [status |-> "active", verified |-> TRUE] \in CrawlerRow
    BY <1>2 DEF VerifyCrawler, TypeOK, CrawlerRow, LifecycleStatuses, EvaluationEligible
  <2>2. crawler' \in [Crawlers -> CrawlerRow \cup {None}] /\ edits' \in 0..MaxEdits
    BY <1>2, <2>1, BoundsAreNat DEF VerifyCrawler, Edits, TypeOK
  <2>3. QED
    BY <1>2, <2>2 DEF VerifyCrawler, Edits, TypeOK
<1>3. ASSUME NEW c \in Crawlers, NEW status \in Statuses, DeprecateCrawler(c, status)
      PROVE  TypeOK'
  <2>1. [crawler[c] EXCEPT !.status = status] \in CrawlerRow
    BY <1>3, BoundsAreNat DEF DeprecateCrawler, TypeOK, CrawlerRow
  <2>2. crawler' \in [Crawlers -> CrawlerRow \cup {None}] /\ edits' \in 0..MaxEdits
    BY <1>3, <2>1, BoundsAreNat DEF DeprecateCrawler, Edits, TypeOK
  <2>3. QED
    BY <1>3, <2>2 DEF DeprecateCrawler, Edits, TypeOK
<1>4. ASSUME NEW v \in Releases, CreateRegistryRelease(v)
      PROVE  TypeOK'
  <2>1. release' \in [Releases -> [state: {"none", "draft", "published"},
                                 entries: [Crawlers -> CrawlerRow \cup {None}]]]
    BY <1>4 DEF CreateRegistryRelease, TypeOK
  <2>2. QED
    BY <1>4, <2>1 DEF CreateRegistryRelease, bounds, TypeOK
<1>5. ASSUME NEW r \in Requests, NEW action \in {"publish", "roll_back"}, NEW v \in Releases,
             StartActivation(r, action, v)
      PROVE  TypeOK'
  <2>1. [pc |-> "checking", action |-> action, target |-> v, seen |-> active]
            \in {IdleRequest} \cup Activation \cup Scheduling
    BY <1>5, TypeParts, RequestFacts DEF StartActivation, bounds, TypeOK, Activation,
       Scheduling, IdleRequest
  <2>2. request' \in [Requests -> {IdleRequest} \cup Activation \cup Scheduling]
    BY <1>5, <2>1, TypeParts DEF StartActivation, bounds, TypeOK
  <2>3. QED
    BY <1>5, <2>2, BoundsAreNat DEF StartActivation, bounds, TypeOK, Scheduling
<1>6. ASSUME NEW r \in Requests, CheckActivation(r)
      PROVE  TypeOK'
  <2>a. request[r] \in Activation
    BY <1>6, TypeParts, RequestFacts DEF CheckActivation, At
  <2>b. [request[r] EXCEPT !.pc = "activating"] \in Activation
    BY <2>a DEF Activation
  <2>c. request' \in [Requests -> {IdleRequest} \cup Activation \cup Scheduling]
    BY <1>6, <2>b, TypeParts DEF CheckActivation, Leaves, Goes
  <2>d. QED
    BY <1>6, <2>c DEF CheckActivation, bounds, TypeOK, Scheduling
<1>7. ASSUME NEW r \in Requests, Activate(r)
      PROVE  TypeOK'
  <2>a. request[r] \in Activation
    BY <1>7, TypeParts, RequestFacts DEF Activate, At
  <2>b. [request[r] EXCEPT !.pc = "comparing"] \in Activation
    BY <2>a DEF Activation
  <2>c. request' \in [Requests -> {IdleRequest} \cup Activation \cup Scheduling]
    BY <1>7, <2>b, TypeParts DEF Activate, Leaves, Goes
  <2>d. active' \in Releases /\ missed' \subseteq Domains
    BY <1>7, <2>a, ActivationFacts DEF Activate, TypeOK
  <2>e. release' \in [Releases -> [state: {"none", "draft", "published"},
                                 entries: [Crawlers -> CrawlerRow \cup {None}]]]
    BY <1>7, <2>a, ActivationFacts DEF Activate, TypeOK
  <2>f. activations' \in 0..MaxActivations
    BY <1>7, BoundsAreNat DEF Activate, TypeOK
  <2>g. QED
    BY <1>7, <2>c, <2>d, <2>e, <2>f DEF Activate, TypeOK, Scheduling
<1>8. ASSUME NEW r \in Requests, GetAffectedDomains(r)
      PROVE  TypeOK'
  <2>1. request' \in [Requests -> {IdleRequest} \cup Activation \cup Scheduling]
    BY <1>8, TypeParts DEF GetAffectedDomains, Leaves, Scheduling
  <2>2. missed' \subseteq Domains
    BY <1>8 DEF GetAffectedDomains, TypeOK
  <2>3. QED
    BY <1>8, <2>1, <2>2 DEF GetAffectedDomains, bounds, TypeOK, Scheduling
<1>9. ASSUME NEW r \in Requests, ScheduleReEvaluation(r)
      PROVE  TypeOK'
  <2>1. request' \in [Requests -> {IdleRequest} \cup Activation \cup Scheduling]
    BY <1>9, TypeParts DEF ScheduleReEvaluation, Leaves
  <2>a. \A e \in Domains : domain[e] \in DomainRow /\ [domain[e] EXCEPT !.due = TRUE] \in DomainRow
    BY RowFacts DEF TypeOK, DomainRow
  <2>2. domain' \in [Domains -> DomainRow] /\ missed' \subseteq Domains
    <3>1. domain \in [Domains -> DomainRow] /\ missed \subseteq Domains
      BY DEF TypeOK, DomainRow
    <3>2. request[r] \in Scheduling
      BY <1>9, TypeParts, RequestFacts DEF ScheduleReEvaluation, At
    <3>3. request[r].affected \subseteq Domains
      BY <3>2 DEF Scheduling
    <3>4. QED
      BY <1>9, <2>a, <3>1, <3>3 DEF ScheduleReEvaluation
  <2>3. QED
    BY <1>9, <2>1, <2>2 DEF ScheduleReEvaluation, bounds, TypeOK, DomainRow, Scheduling
<1>10. ASSUME NEW r \in Requests, RequestDies(r)
      PROVE  TypeOK'
  <2>1. request' \in [Requests -> {IdleRequest} \cup Activation \cup Scheduling]
    BY <1>10, TypeParts DEF RequestDies, Leaves
  <2>2. missed' \subseteq Domains
    BY <1>10 DEF RequestDies, TypeOK
  <2>3. QED
    BY <1>10, <2>1, <2>2 DEF RequestDies, bounds, TypeOK, Scheduling
<1>11. ASSUME NEW s \in Scans, StartSweep(s)
      PROVE  TypeOK'
  <2>1. scan' \in [Scans -> {IdleScan} \cup Claiming \cup Auditing]
    BY <1>11, TypeParts, ScanFacts DEF StartSweep, TypeOK, Claiming, Auditing
  <2>2. QED
    BY <1>11, <2>1 DEF StartSweep, bounds, TypeOK, Claiming, Auditing
<1>12. ASSUME NEW s \in Scans, ClaimDueDomains(s)
      PROVE  TypeOK'
  <2>a. scan[s] \in Claiming
    BY <1>12, TypeParts, ScanFacts DEF ClaimDueDomains
  <2>b. [pc |-> "auditing", release |-> scan[s].release, batch |-> {e \in Domains : domain[e].due}]
            \in Auditing
    BY <2>a, ScanFacts DEF Auditing, Claiming
  <2>1. scan' \in [Scans -> {IdleScan} \cup Claiming \cup Auditing]
    BY <1>12, <2>b, TypeParts DEF ClaimDueDomains, Audits
  <2>2. QED
    BY <1>12, <2>1 DEF ClaimDueDomains, bounds, TypeOK, Claiming, Auditing
<1>13. ASSUME NEW s \in Scans, NEW d \in Domains, StartRescan(s, d)
      PROVE  TypeOK'
  <2>1. scan' \in [Scans -> {IdleScan} \cup Claiming \cup Auditing]
    BY <1>13, TypeParts, ScanFacts DEF StartRescan, Audits, TypeOK, Claiming, Auditing
  <2>2. QED
    BY <1>13, <2>1 DEF StartRescan, bounds, TypeOK, Claiming, Auditing
<1>14. ASSUME NEW s \in Scans, NEW d \in Domains, RecordScan(s, d)
      PROVE  TypeOK'
  <2>a. scan[s] \in Auditing
    BY <1>14, TypeParts, ScanFacts DEF RecordScan
  <2>b. [pc |-> "auditing", release |-> scan[s].release, batch |-> scan[s].batch \ {d}] \in Auditing
    BY <2>a, ScanFacts DEF Auditing, Auditing
  <2>1. scan' \in [Scans -> {IdleScan} \cup Claiming \cup Auditing]
    BY <1>14, <2>b, TypeParts DEF RecordScan, Audits
  <2>2. domain' \in [Domains -> DomainRow]
    BY <1>14, <2>a DEF RecordScan, TypeOK, Auditing, ResolveEvaluationRows, DomainRow
  <2>3. QED
    BY <1>14, <2>1, <2>2 DEF RecordScan, bounds, TypeOK, DomainRow, Claiming, Auditing
<1>15. ASSUME NEW s \in Scans, ScanDies(s)
      PROVE  TypeOK'
  <2>1. scan' \in [Scans -> {IdleScan} \cup Claiming \cup Auditing]
    BY <1>15, TypeParts, ScanFacts DEF ScanDies, TypeOK, Claiming, Auditing
  <2>2. QED
    BY <1>15, <2>1 DEF ScanDies, bounds, TypeOK, Claiming, Auditing
<1>16. ASSUME NEW d \in Domains, BecomesDue(d)
      PROVE  TypeOK'
  <2>a. \A e \in Domains : domain[e] \in DomainRow /\ [domain[e] EXCEPT !.due = TRUE] \in DomainRow
    BY RowFacts DEF TypeOK, DomainRow
  <2>1. domain' \in [Domains -> DomainRow]
    BY <1>16, <2>a DEF BecomesDue, TypeOK
  <2>2. QED
    BY <1>16, <2>1 DEF BecomesDue, bounds, TypeOK, DomainRow
<1>17. CASE UNCHANGED vars
  BY <1>17 DEF vars, TypeOK
<1>18. QED
  BY <1>1, <1>2, <1>3, <1>4, <1>5, <1>6, <1>7, <1>8, <1>9, <1>10, <1>11, <1>12, <1>13, <1>14,
     <1>15, <1>16, <1>17
  DEF Next, EditStep, ActivationStep, ScanStep

-----------------------------------------------------------------------------
(* Releases once made keep their entries, and once published stay so *)

Keeps ==
    \A v \in Releases :
        /\ release[v].state # "none" =>
               release'[v].state # "none" /\ release'[v].entries = release[v].entries
        /\ release[v].state = "published" => release'[v].state = "published"
        /\ release'[v].state = "published" =>
               \/ release[v].state = "published"
               \/ \E r \in Requests : request[r].pc = "activating" /\ request[r].target = v

LEMMA ReleasesKeep == TypeOK /\ [Next]_vars => Keeps
<1> SUFFICES ASSUME TypeOK, [Next]_vars
             PROVE  Keeps
  OBVIOUS
<1>1. ASSUME NEW c \in Crawlers, CreateCrawlerDraft(c)
      PROVE  Keeps
  BY <1>1 DEF CreateCrawlerDraft, Edits, Keeps
<1>2. ASSUME NEW c \in Crawlers, VerifyCrawler(c)
      PROVE  Keeps
  BY <1>2 DEF VerifyCrawler, Edits, Keeps
<1>3. ASSUME NEW c \in Crawlers, NEW status \in Statuses, DeprecateCrawler(c, status)
      PROVE  Keeps
  BY <1>3 DEF DeprecateCrawler, Edits, Keeps
<1>4. ASSUME NEW v \in Releases, CreateRegistryRelease(v)
      PROVE  Keeps
  BY <1>4 DEF CreateRegistryRelease, NoRelease, TypeOK, Keeps
<1>5. ASSUME NEW r \in Requests, NEW action \in {"publish", "roll_back"}, NEW v \in Releases,
             StartActivation(r, action, v)
      PROVE  Keeps
  BY <1>5 DEF StartActivation, Keeps
<1>6. ASSUME NEW r \in Requests, CheckActivation(r)
      PROVE  Keeps
  BY <1>6 DEF CheckActivation, Keeps
<1>7. ASSUME NEW r \in Requests, Activate(r)
      PROVE  Keeps
  <2>1. request[r] \in Activation /\ request[r].pc = "activating"
    BY <1>7, TypeParts, RequestFacts DEF Activate, At
  <2>2. \/ release' = release
        \/ release' = [release EXCEPT ![request[r].target].state = "published"]
    BY <1>7 DEF Activate
  <2>3. PICK w \in Releases : w = request[r].target
    BY <2>1, ActivationFacts
  <2>4. /\ \A v \in Releases \ {w} : release'[v] = release[v]
        /\ release'[w].entries = release[w].entries
        /\ release'[w].state = release[w].state \/ release'[w].state = "published"
    <3>1. CASE release' = release
      BY <3>1
    <3>2. CASE release' = [release EXCEPT ![w].state = "published"]
      BY <3>2 DEF TypeOK
    <3>3. QED
      BY <2>2, <2>3, <3>1, <3>2
  <2>5. QED
    BY <2>1, <2>3, <2>4 DEF Keeps
<1>8. ASSUME NEW r \in Requests, GetAffectedDomains(r)
      PROVE  Keeps
  BY <1>8 DEF GetAffectedDomains, Keeps
<1>9. ASSUME NEW r \in Requests, ScheduleReEvaluation(r)
      PROVE  Keeps
  BY <1>9 DEF ScheduleReEvaluation, Keeps
<1>10. ASSUME NEW r \in Requests, RequestDies(r)
      PROVE  Keeps
  BY <1>10 DEF RequestDies, Keeps
<1>11. ASSUME NEW s \in Scans, StartSweep(s)
      PROVE  Keeps
  BY <1>11 DEF StartSweep, Keeps
<1>12. ASSUME NEW s \in Scans, ClaimDueDomains(s)
      PROVE  Keeps
  BY <1>12 DEF ClaimDueDomains, Keeps
<1>13. ASSUME NEW s \in Scans, NEW d \in Domains, StartRescan(s, d)
      PROVE  Keeps
  BY <1>13 DEF StartRescan, Keeps
<1>14. ASSUME NEW s \in Scans, NEW d \in Domains, RecordScan(s, d)
      PROVE  Keeps
  BY <1>14 DEF RecordScan, Keeps
<1>15. ASSUME NEW s \in Scans, ScanDies(s)
      PROVE  Keeps
  BY <1>15 DEF ScanDies, Keeps
<1>16. ASSUME NEW d \in Domains, BecomesDue(d)
      PROVE  Keeps
  BY <1>16 DEF BecomesDue, Keeps
<1>17. CASE UNCHANGED vars
  BY <1>17 DEF vars, Keeps
<1>18. QED
  BY <1>1, <1>2, <1>3, <1>4, <1>5, <1>6, <1>7, <1>8, <1>9, <1>10, <1>11, <1>12, <1>13, <1>14,
     <1>15, <1>16, <1>17
  DEF Next, EditStep, ActivationStep, ScanStep

LEMMA FrozenEntries ==
    ASSUME NEW v, release'[v].entries = release[v].entries
    PROVE  /\ ValidationErrors(v)' <=> ValidationErrors(v)
           /\ ResolveEvaluationRows(v)' = ResolveEvaluationRows(v)
           /\ \A c : Status(v, c)' = Status(v, c)
  BY DEF ValidationErrors, ResolveEvaluationRows, Status

LEMMA ReleasesStayValid ==
    TypeOK /\ PublishedReleasesAreValid /\ ActivationsAreValid /\ Keeps
        => PublishedReleasesAreValid'
  BY FrozenEntries DEF PublishedReleasesAreValid, ActivationsAreValid, Keeps

\* A request that has not moved on, and one that is at neither of the steps.
LEMMA ActivationsStayValid ==
    /\ TypeOK /\ TypeOK' /\ ActivationsAreValid /\ Keeps
    /\ \A r \in Requests : \/ request'[r].pc \notin {"checking", "activating", "comparing"}
                            \/ request'[r] = request[r]
    => ActivationsAreValid'
  BY FrozenEntries DEF ActivationsAreValid, Keeps

\* What activations under way are about stays valid.
LEMMA ActivationsStep ==
    /\ TypeOK /\ TypeOK' /\ PublishedReleasesAreValid /\ ActivationsAreValid /\ Keeps /\ [Next]_vars
    => ActivationsAreValid'
<1> SUFFICES ASSUME TypeOK, TypeOK', PublishedReleasesAreValid, ActivationsAreValid, Keeps,
                    [Next]_vars
             PROVE  ActivationsAreValid'
  OBVIOUS
<1>1. ASSUME NEW c \in Crawlers, CreateCrawlerDraft(c)
      PROVE  ActivationsAreValid'
  <2>1. request' = request
    BY <1>1 DEF CreateCrawlerDraft, Edits
  <2>2. QED
    BY <2>1, ActivationsStayValid
<1>2. ASSUME NEW c \in Crawlers, VerifyCrawler(c)
      PROVE  ActivationsAreValid'
  <2>1. request' = request
    BY <1>2 DEF VerifyCrawler, Edits
  <2>2. QED
    BY <2>1, ActivationsStayValid
<1>3. ASSUME NEW c \in Crawlers, NEW status \in Statuses, DeprecateCrawler(c, status)
      PROVE  ActivationsAreValid'
  <2>1. request' = request
    BY <1>3 DEF DeprecateCrawler, Edits
  <2>2. QED
    BY <2>1, ActivationsStayValid
<1>4. ASSUME NEW v \in Releases, CreateRegistryRelease(v)
      PROVE  ActivationsAreValid'
  <2>1. request' = request
    BY <1>4 DEF CreateRegistryRelease
  <2>2. QED
    BY <2>1, ActivationsStayValid
<1>5. ASSUME NEW r \in Requests, NEW action \in {"publish", "roll_back"}, NEW v \in Releases,
             StartActivation(r, action, v)
      PROVE  ActivationsAreValid'
  <2>1. \A q \in Requests \ {r} : request'[q] = request[q]
    BY <1>5 DEF StartActivation, TypeOK
  <2>2. ASSUME NEW w \in Releases, request'[r].pc \in {"checking", "activating", "comparing"},
               request'[r].target = w
        PROVE  /\ release'[w].state # "none"
               /\ request'[r].pc = "activating" =>
                     /\ ~ValidationErrors(w)'
                     /\ request'[r].action = "roll_back" => release'[w].state = "published"
    BY <1>5, <2>2 DEF StartActivation, TypeOK
  <2>3. \A q \in Requests \ {r}, w \in Releases :
            request'[q].pc \in {"checking", "activating", "comparing"} /\ request'[q].target = w =>
                /\ release'[w].state # "none"
                /\ request'[q].pc = "activating" =>
                      /\ ~ValidationErrors(w)'
                      /\ request'[q].action = "roll_back" => release'[w].state = "published"
    BY <2>1, FrozenEntries DEF ActivationsAreValid, Keeps
  <2>4. QED
    BY <2>2, <2>3 DEF ActivationsAreValid
<1>6. ASSUME NEW r \in Requests, CheckActivation(r)
      PROVE  ActivationsAreValid'
  <2>1. \A q \in Requests \ {r} : request'[q] = request[q]
    BY <1>6 DEF CheckActivation, Leaves, Goes, TypeOK
  <2>2. ASSUME NEW w \in Releases, request'[r].pc \in {"checking", "activating", "comparing"},
               request'[r].target = w
        PROVE  /\ release'[w].state # "none"
               /\ request'[r].pc = "activating" =>
                     /\ ~ValidationErrors(w)'
                     /\ request'[r].action = "roll_back" => release'[w].state = "published"
    <3>1. request[r] \in Activation /\ request[r].pc = "checking"
      BY <1>6, TypeParts, RequestFacts DEF CheckActivation, At
    <3>2. request[r].target = w /\ request'[r].action = request[r].action /\ ~IsRefused(r)
          /\ release' = release
      BY <1>6, <2>2, <3>1 DEF CheckActivation, Leaves, Goes, IdleRequest, Activation, TypeOK
    <3>3. QED
      BY <3>1, <3>2, FrozenEntries DEF ActivationsAreValid, PublishedReleasesAreValid, Keeps,
         IsRefused, Activation
  <2>3. \A q \in Requests \ {r}, w \in Releases :
            request'[q].pc \in {"checking", "activating", "comparing"} /\ request'[q].target = w =>
                /\ release'[w].state # "none"
                /\ request'[q].pc = "activating" =>
                      /\ ~ValidationErrors(w)'
                      /\ request'[q].action = "roll_back" => release'[w].state = "published"
    BY <2>1, FrozenEntries DEF ActivationsAreValid, Keeps
  <2>4. QED
    BY <2>2, <2>3 DEF ActivationsAreValid
<1>7. ASSUME NEW r \in Requests, Activate(r)
      PROVE  ActivationsAreValid'
  <2>1. \A q \in Requests \ {r} : request'[q] = request[q]
    BY <1>7 DEF Activate, Leaves, Goes, TypeOK
  <2>2. ASSUME NEW w \in Releases, request'[r].pc \in {"checking", "activating", "comparing"},
               request'[r].target = w
        PROVE  /\ release'[w].state # "none"
               /\ request'[r].pc = "activating" =>
                     /\ ~ValidationErrors(w)'
                     /\ request'[r].action = "roll_back" => release'[w].state = "published"
    <3>1. request[r] \in Activation /\ request[r].pc = "activating"
      BY <1>7, TypeParts, RequestFacts DEF Activate, At
    <3>2. request[r].target = w /\ request'[r].pc = "comparing"
      BY <1>7, <2>2, <3>1 DEF Activate, Leaves, Goes, IdleRequest, Activation, TypeOK
    <3>3. QED
      BY <3>1, <3>2 DEF ActivationsAreValid, PublishedReleasesAreValid, Keeps
  <2>3. \A q \in Requests \ {r}, w \in Releases :
            request'[q].pc \in {"checking", "activating", "comparing"} /\ request'[q].target = w =>
                /\ release'[w].state # "none"
                /\ request'[q].pc = "activating" =>
                      /\ ~ValidationErrors(w)'
                      /\ request'[q].action = "roll_back" => release'[w].state = "published"
    BY <2>1, FrozenEntries DEF ActivationsAreValid, Keeps
  <2>4. QED
    BY <2>2, <2>3 DEF ActivationsAreValid
<1>8. ASSUME NEW r \in Requests, GetAffectedDomains(r)
      PROVE  ActivationsAreValid'
  <2>1. \A q \in Requests : \/ request'[q].pc \notin {"checking", "activating", "comparing"}
                            \/ request'[q] = request[q]
    BY <1>8 DEF GetAffectedDomains, Leaves, IdleRequest, TypeOK
  <2>2. QED
    BY <2>1, ActivationsStayValid
<1>9. ASSUME NEW r \in Requests, ScheduleReEvaluation(r)
      PROVE  ActivationsAreValid'
  <2>1. \A q \in Requests : \/ request'[q].pc \notin {"checking", "activating", "comparing"}
                            \/ request'[q] = request[q]
    BY <1>9 DEF ScheduleReEvaluation, Leaves, IdleRequest, TypeOK
  <2>2. QED
    BY <2>1, ActivationsStayValid
<1>10. ASSUME NEW r \in Requests, RequestDies(r)
      PROVE  ActivationsAreValid'
  <2>1. \A q \in Requests : \/ request'[q].pc \notin {"checking", "activating", "comparing"}
                            \/ request'[q] = request[q]
    BY <1>10 DEF RequestDies, Leaves, IdleRequest, TypeOK
  <2>2. QED
    BY <2>1, ActivationsStayValid
<1>11. ASSUME NEW s \in Scans, StartSweep(s)
      PROVE  ActivationsAreValid'
  <2>1. request' = request
    BY <1>11 DEF StartSweep
  <2>2. QED
    BY <2>1, ActivationsStayValid
<1>12. ASSUME NEW s \in Scans, ClaimDueDomains(s)
      PROVE  ActivationsAreValid'
  <2>1. request' = request
    BY <1>12 DEF ClaimDueDomains
  <2>2. QED
    BY <2>1, ActivationsStayValid
<1>13. ASSUME NEW s \in Scans, NEW d \in Domains, StartRescan(s, d)
      PROVE  ActivationsAreValid'
  <2>1. request' = request
    BY <1>13 DEF StartRescan
  <2>2. QED
    BY <2>1, ActivationsStayValid
<1>14. ASSUME NEW s \in Scans, NEW d \in Domains, RecordScan(s, d)
      PROVE  ActivationsAreValid'
  <2>1. request' = request
    BY <1>14 DEF RecordScan
  <2>2. QED
    BY <2>1, ActivationsStayValid
<1>15. ASSUME NEW s \in Scans, ScanDies(s)
      PROVE  ActivationsAreValid'
  <2>1. request' = request
    BY <1>15 DEF ScanDies
  <2>2. QED
    BY <2>1, ActivationsStayValid
<1>16. ASSUME NEW d \in Domains, BecomesDue(d)
      PROVE  ActivationsAreValid'
  <2>1. request' = request
    BY <1>16 DEF BecomesDue
  <2>2. QED
    BY <2>1, ActivationsStayValid
<1>17. CASE UNCHANGED vars
  <2>1. request' = request
    BY <1>17 DEF vars
  <2>2. QED
    BY <2>1, ActivationsStayValid
<1>18. QED
  BY <1>1, <1>2, <1>3, <1>4, <1>5, <1>6, <1>7, <1>8, <1>9, <1>10, <1>11, <1>12, <1>13, <1>14,
     <1>15, <1>16, <1>17
  DEF Next, EditStep, ActivationStep, ScanStep

-----------------------------------------------------------------------------
(* Audits and results are of published releases *)

LEMMA AuditsStep ==
    RInv /\ Keeps /\ [Next]_vars => AuditsArePublished'
<1> SUFFICES ASSUME RInv, Keeps, [Next]_vars
             PROVE  AuditsArePublished'
  OBVIOUS
<1>a. scan' = scan => AuditsArePublished'
  BY TypeParts, ScanFacts DEF RInv, AuditsArePublished, Keeps
<1>1. ASSUME NEW c \in Crawlers, CreateCrawlerDraft(c)
      PROVE  AuditsArePublished'
  <2>1. scan' = scan
    BY <1>1 DEF CreateCrawlerDraft, Edits
  <2>2. QED
    BY <1>a, <2>1
<1>2. ASSUME NEW c \in Crawlers, VerifyCrawler(c)
      PROVE  AuditsArePublished'
  <2>1. scan' = scan
    BY <1>2 DEF VerifyCrawler, Edits
  <2>2. QED
    BY <1>a, <2>1
<1>3. ASSUME NEW c \in Crawlers, NEW status \in Statuses, DeprecateCrawler(c, status)
      PROVE  AuditsArePublished'
  <2>1. scan' = scan
    BY <1>3 DEF DeprecateCrawler, Edits
  <2>2. QED
    BY <1>a, <2>1
<1>4. ASSUME NEW v \in Releases, CreateRegistryRelease(v)
      PROVE  AuditsArePublished'
  <2>1. scan' = scan
    BY <1>4 DEF CreateRegistryRelease
  <2>2. QED
    BY <1>a, <2>1
<1>5. ASSUME NEW r \in Requests, NEW action \in {"publish", "roll_back"}, NEW v \in Releases,
             StartActivation(r, action, v)
      PROVE  AuditsArePublished'
  <2>1. scan' = scan
    BY <1>5 DEF StartActivation
  <2>2. QED
    BY <1>a, <2>1
<1>6. ASSUME NEW r \in Requests, CheckActivation(r)
      PROVE  AuditsArePublished'
  <2>1. scan' = scan
    BY <1>6 DEF CheckActivation
  <2>2. QED
    BY <1>a, <2>1
<1>7. ASSUME NEW r \in Requests, Activate(r)
      PROVE  AuditsArePublished'
  <2>1. scan' = scan
    BY <1>7 DEF Activate
  <2>2. QED
    BY <1>a, <2>1
<1>8. ASSUME NEW r \in Requests, GetAffectedDomains(r)
      PROVE  AuditsArePublished'
  <2>1. scan' = scan
    BY <1>8 DEF GetAffectedDomains
  <2>2. QED
    BY <1>a, <2>1
<1>9. ASSUME NEW r \in Requests, ScheduleReEvaluation(r)
      PROVE  AuditsArePublished'
  <2>1. scan' = scan
    BY <1>9 DEF ScheduleReEvaluation
  <2>2. QED
    BY <1>a, <2>1
<1>10. ASSUME NEW r \in Requests, RequestDies(r)
      PROVE  AuditsArePublished'
  <2>1. scan' = scan
    BY <1>10 DEF RequestDies
  <2>2. QED
    BY <1>a, <2>1
<1>11. ASSUME NEW s \in Scans, StartSweep(s)
      PROVE  AuditsArePublished'
  <2>1. /\ \A t \in Scans : t # s => scan'[t] = scan[t]
        /\ scan'[s].pc \in {"claiming", "auditing"} =>
              \/ scan'[s].release = active
              \/ scan[s].pc \in {"claiming", "auditing"} /\ scan'[s].release = scan[s].release
    BY <1>11, TypeParts, ScanFacts DEF StartSweep, RInv, IdleScan
  <2>2. QED
    BY <2>1, TypeParts, ScanFacts DEF RInv, AuditsArePublished, Keeps, TypeOK
<1>12. ASSUME NEW s \in Scans, ClaimDueDomains(s)
      PROVE  AuditsArePublished'
  <2>1. /\ \A t \in Scans : t # s => scan'[t] = scan[t]
        /\ scan'[s].pc \in {"claiming", "auditing"} =>
              \/ scan'[s].release = active
              \/ scan[s].pc \in {"claiming", "auditing"} /\ scan'[s].release = scan[s].release
    BY <1>12, TypeParts, ScanFacts DEF ClaimDueDomains, Audits, RInv, IdleScan
  <2>2. QED
    BY <2>1, TypeParts, ScanFacts DEF RInv, AuditsArePublished, Keeps, TypeOK
<1>13. ASSUME NEW s \in Scans, NEW d \in Domains, StartRescan(s, d)
      PROVE  AuditsArePublished'
  <2>1. /\ \A t \in Scans : t # s => scan'[t] = scan[t]
        /\ scan'[s].pc \in {"claiming", "auditing"} =>
              \/ scan'[s].release = active
              \/ scan[s].pc \in {"claiming", "auditing"} /\ scan'[s].release = scan[s].release
    BY <1>13, TypeParts, ScanFacts DEF StartRescan, Audits, RInv, IdleScan
  <2>2. QED
    BY <2>1, TypeParts, ScanFacts DEF RInv, AuditsArePublished, Keeps, TypeOK
<1>14. ASSUME NEW s \in Scans, NEW d \in Domains, RecordScan(s, d)
      PROVE  AuditsArePublished'
  <2>1. /\ \A t \in Scans : t # s => scan'[t] = scan[t]
        /\ scan'[s].pc \in {"claiming", "auditing"} =>
              \/ scan'[s].release = active
              \/ scan[s].pc \in {"claiming", "auditing"} /\ scan'[s].release = scan[s].release
    BY <1>14, TypeParts, ScanFacts DEF RecordScan, Audits, RInv, IdleScan
  <2>2. QED
    BY <2>1, TypeParts, ScanFacts DEF RInv, AuditsArePublished, Keeps, TypeOK
<1>15. ASSUME NEW s \in Scans, ScanDies(s)
      PROVE  AuditsArePublished'
  <2>1. /\ \A t \in Scans : t # s => scan'[t] = scan[t]
        /\ scan'[s].pc \in {"claiming", "auditing"} =>
              \/ scan'[s].release = active
              \/ scan[s].pc \in {"claiming", "auditing"} /\ scan'[s].release = scan[s].release
    BY <1>15, TypeParts, ScanFacts DEF ScanDies, RInv, IdleScan
  <2>2. QED
    BY <2>1, TypeParts, ScanFacts DEF RInv, AuditsArePublished, Keeps, TypeOK
<1>16. ASSUME NEW d \in Domains, BecomesDue(d)
      PROVE  AuditsArePublished'
  <2>1. scan' = scan
    BY <1>16 DEF BecomesDue
  <2>2. QED
    BY <1>a, <2>1
<1>17. CASE UNCHANGED vars
  <2>1. scan' = scan
    BY <1>17 DEF vars
  <2>2. QED
    BY <1>a, <2>1
<1>18. QED
  BY <1>1, <1>2, <1>3, <1>4, <1>5, <1>6, <1>7, <1>8, <1>9, <1>10, <1>11, <1>12, <1>13, <1>14,
     <1>15, <1>16, <1>17
  DEF Next, EditStep, ActivationStep, ScanStep

LEMMA SeenStep ==
    RInv /\ Keeps /\ [Next]_vars => SeenArePublished'
<1> SUFFICES ASSUME RInv, Keeps, [Next]_vars
             PROVE  SeenArePublished'
  OBVIOUS
<1>a. (\A q \in Requests : request'[q].pc \in {"checking", "activating", "comparing"} =>
            \/ request'[q].seen = active
            \/ /\ request[q].pc \in {"checking", "activating", "comparing"}
               /\ request'[q].seen = request[q].seen) => SeenArePublished'
  BY TypeParts, RequestFacts, ActivationFacts DEF RInv, TypeOK, SeenArePublished, Keeps
<1>1. ASSUME NEW c \in Crawlers, CreateCrawlerDraft(c)
      PROVE  SeenArePublished'
  <2>1. request' = request
    BY <1>1 DEF CreateCrawlerDraft, Edits
  <2>2. QED
    BY <1>a, <2>1
<1>2. ASSUME NEW c \in Crawlers, VerifyCrawler(c)
      PROVE  SeenArePublished'
  <2>1. request' = request
    BY <1>2 DEF VerifyCrawler, Edits
  <2>2. QED
    BY <1>a, <2>1
<1>3. ASSUME NEW c \in Crawlers, NEW status \in Statuses, DeprecateCrawler(c, status)
      PROVE  SeenArePublished'
  <2>1. request' = request
    BY <1>3 DEF DeprecateCrawler, Edits
  <2>2. QED
    BY <1>a, <2>1
<1>4. ASSUME NEW v \in Releases, CreateRegistryRelease(v)
      PROVE  SeenArePublished'
  <2>1. request' = request
    BY <1>4 DEF CreateRegistryRelease
  <2>2. QED
    BY <1>a, <2>1
<1>5. ASSUME NEW r \in Requests, NEW action \in {"publish", "roll_back"}, NEW v \in Releases,
             StartActivation(r, action, v)
      PROVE  SeenArePublished'
  BY <1>5, <1>a, TypeParts, RequestFacts
  DEF StartActivation, At, Leaves, Goes, IdleRequest, Activation, RInv
<1>6. ASSUME NEW r \in Requests, CheckActivation(r)
      PROVE  SeenArePublished'
  BY <1>6, <1>a, TypeParts, RequestFacts
  DEF CheckActivation, At, Leaves, Goes, IdleRequest, Activation, RInv
<1>7. ASSUME NEW r \in Requests, Activate(r)
      PROVE  SeenArePublished'
  BY <1>7, <1>a, TypeParts, RequestFacts
  DEF Activate, At, Leaves, Goes, IdleRequest, Activation, RInv
<1>8. ASSUME NEW r \in Requests, GetAffectedDomains(r)
      PROVE  SeenArePublished'
  BY <1>8, <1>a, TypeParts, RequestFacts
  DEF GetAffectedDomains, At, Leaves, Goes, IdleRequest, Activation, RInv
<1>9. ASSUME NEW r \in Requests, ScheduleReEvaluation(r)
      PROVE  SeenArePublished'
  BY <1>9, <1>a, TypeParts, RequestFacts
  DEF ScheduleReEvaluation, At, Leaves, Goes, IdleRequest, Activation, RInv
<1>10. ASSUME NEW r \in Requests, RequestDies(r)
      PROVE  SeenArePublished'
  BY <1>10, <1>a, TypeParts, RequestFacts
  DEF RequestDies, At, Leaves, Goes, IdleRequest, Activation, RInv
<1>11. ASSUME NEW s \in Scans, StartSweep(s)
      PROVE  SeenArePublished'
  <2>1. request' = request
    BY <1>11 DEF StartSweep
  <2>2. QED
    BY <1>a, <2>1
<1>12. ASSUME NEW s \in Scans, ClaimDueDomains(s)
      PROVE  SeenArePublished'
  <2>1. request' = request
    BY <1>12 DEF ClaimDueDomains
  <2>2. QED
    BY <1>a, <2>1
<1>13. ASSUME NEW s \in Scans, NEW d \in Domains, StartRescan(s, d)
      PROVE  SeenArePublished'
  <2>1. request' = request
    BY <1>13 DEF StartRescan
  <2>2. QED
    BY <1>a, <2>1
<1>14. ASSUME NEW s \in Scans, NEW d \in Domains, RecordScan(s, d)
      PROVE  SeenArePublished'
  <2>1. request' = request
    BY <1>14 DEF RecordScan
  <2>2. QED
    BY <1>a, <2>1
<1>15. ASSUME NEW s \in Scans, ScanDies(s)
      PROVE  SeenArePublished'
  <2>1. request' = request
    BY <1>15 DEF ScanDies
  <2>2. QED
    BY <1>a, <2>1
<1>16. ASSUME NEW d \in Domains, BecomesDue(d)
      PROVE  SeenArePublished'
  <2>1. request' = request
    BY <1>16 DEF BecomesDue
  <2>2. QED
    BY <1>a, <2>1
<1>17. CASE UNCHANGED vars
  <2>1. request' = request
    BY <1>17 DEF vars
  <2>2. QED
    BY <1>a, <2>1
<1>18. QED
  BY <1>1, <1>2, <1>3, <1>4, <1>5, <1>6, <1>7, <1>8, <1>9, <1>10, <1>11, <1>12, <1>13, <1>14,
     <1>15, <1>16, <1>17
  DEF Next, EditStep, ActivationStep, ScanStep

LEMMA ResultsStep ==
    RInv /\ Keeps /\ [Next]_vars => ResultsAreFrozen'
<1> SUFFICES ASSUME RInv, Keeps, [Next]_vars
             PROVE  ResultsAreFrozen'
  OBVIOUS
<1>a. ASSUME NEW d \in Domains,
             domain'[d].release = domain[d].release /\ domain'[d].results = domain[d].results
      PROVE  \/ domain'[d].results = {}
             \/ \E v \in Releases : /\ domain'[d].release = v /\ release'[v].state = "published"
                                    /\ domain'[d].results = ResolveEvaluationRows(v)'
  BY <1>a, FrozenEntries DEF RInv, ResultsAreFrozen, Keeps
<1>b. (\A d \in Domains : domain'[d].release = domain[d].release
                          /\ domain'[d].results = domain[d].results) => ResultsAreFrozen'
  BY <1>a DEF ResultsAreFrozen
<1>1. ASSUME NEW c \in Crawlers, CreateCrawlerDraft(c)
      PROVE  ResultsAreFrozen'
  <2>1. domain' = domain
    BY <1>1 DEF CreateCrawlerDraft, Edits
  <2>2. QED
    BY <1>b, <2>1
<1>2. ASSUME NEW c \in Crawlers, VerifyCrawler(c)
      PROVE  ResultsAreFrozen'
  <2>1. domain' = domain
    BY <1>2 DEF VerifyCrawler, Edits
  <2>2. QED
    BY <1>b, <2>1
<1>3. ASSUME NEW c \in Crawlers, NEW status \in Statuses, DeprecateCrawler(c, status)
      PROVE  ResultsAreFrozen'
  <2>1. domain' = domain
    BY <1>3 DEF DeprecateCrawler, Edits
  <2>2. QED
    BY <1>b, <2>1
<1>4. ASSUME NEW v \in Releases, CreateRegistryRelease(v)
      PROVE  ResultsAreFrozen'
  <2>1. domain' = domain
    BY <1>4 DEF CreateRegistryRelease
  <2>2. QED
    BY <1>b, <2>1
<1>5. ASSUME NEW r \in Requests, NEW action \in {"publish", "roll_back"}, NEW v \in Releases,
             StartActivation(r, action, v)
      PROVE  ResultsAreFrozen'
  <2>1. domain' = domain
    BY <1>5 DEF StartActivation
  <2>2. QED
    BY <1>b, <2>1
<1>6. ASSUME NEW r \in Requests, CheckActivation(r)
      PROVE  ResultsAreFrozen'
  <2>1. domain' = domain
    BY <1>6 DEF CheckActivation
  <2>2. QED
    BY <1>b, <2>1
<1>7. ASSUME NEW r \in Requests, Activate(r)
      PROVE  ResultsAreFrozen'
  <2>1. domain' = domain
    BY <1>7 DEF Activate
  <2>2. QED
    BY <1>b, <2>1
<1>8. ASSUME NEW r \in Requests, GetAffectedDomains(r)
      PROVE  ResultsAreFrozen'
  <2>1. domain' = domain
    BY <1>8 DEF GetAffectedDomains
  <2>2. QED
    BY <1>b, <2>1
<1>9. ASSUME NEW r \in Requests, ScheduleReEvaluation(r)
      PROVE  ResultsAreFrozen'
  <2>1. \A e \in Domains : domain'[e].release = domain[e].release
                          /\ domain'[e].results = domain[e].results
    <3>1. \/ domain' = domain
          \/ domain' = [e \in Domains |-> IF e \in request[r].affected
                                         THEN [domain[e] EXCEPT !.due = TRUE] ELSE domain[e]]
      BY <1>9 DEF ScheduleReEvaluation
    <3>2. QED
      BY <3>1 DEF RInv, TypeOK
  <2>2. QED
    BY <1>b, <2>1
<1>10. ASSUME NEW r \in Requests, RequestDies(r)
      PROVE  ResultsAreFrozen'
  <2>1. domain' = domain
    BY <1>10 DEF RequestDies
  <2>2. QED
    BY <1>b, <2>1
<1>11. ASSUME NEW s \in Scans, StartSweep(s)
      PROVE  ResultsAreFrozen'
  <2>1. domain' = domain
    BY <1>11 DEF StartSweep
  <2>2. QED
    BY <1>b, <2>1
<1>12. ASSUME NEW s \in Scans, ClaimDueDomains(s)
      PROVE  ResultsAreFrozen'
  <2>1. domain' = domain
    BY <1>12 DEF ClaimDueDomains
  <2>2. QED
    BY <1>b, <2>1
<1>13. ASSUME NEW s \in Scans, NEW d \in Domains, StartRescan(s, d)
      PROVE  ResultsAreFrozen'
  <2>1. domain' = domain
    BY <1>13 DEF StartRescan
  <2>2. QED
    BY <1>b, <2>1
<1>14. ASSUME NEW s \in Scans, NEW d \in Domains, RecordScan(s, d)
      PROVE  ResultsAreFrozen'
  <2>1. \A e \in Domains : e # d => domain'[e] = domain[e]
    BY <1>14 DEF RecordScan, RInv, TypeOK
  <2>2. PICK v \in Releases : v = scan[s].release
    BY <1>14, TypeParts, ScanFacts DEF RecordScan, RInv
  <2>3. /\ domain'[d].release = v /\ domain'[d].results = ResolveEvaluationRows(v)
        /\ release' = release
    BY <1>14, <2>2 DEF RecordScan, RInv, TypeOK
  <2>4. release[v].state = "published"
    BY <1>14, <2>2 DEF RecordScan, RInv, AuditsArePublished
  <2>5. ResolveEvaluationRows(v)' = ResolveEvaluationRows(v)
    BY <2>3, FrozenEntries
  <2>6. QED
    BY <2>1, <2>3, <2>4, <2>5, <1>a DEF ResultsAreFrozen
<1>15. ASSUME NEW s \in Scans, ScanDies(s)
      PROVE  ResultsAreFrozen'
  <2>1. domain' = domain
    BY <1>15 DEF ScanDies
  <2>2. QED
    BY <1>b, <2>1
<1>16. ASSUME NEW d \in Domains, BecomesDue(d)
      PROVE  ResultsAreFrozen'
  <2>1. \A e \in Domains : domain'[e].release = domain[e].release
                          /\ domain'[e].results = domain[e].results
    BY <1>16 DEF BecomesDue, RInv, TypeOK
  <2>2. QED
    BY <1>b, <2>1
<1>17. CASE UNCHANGED vars
  <2>1. domain' = domain
    BY <1>17 DEF vars
  <2>2. QED
    BY <1>b, <2>1
<1>18. QED
  BY <1>1, <1>2, <1>3, <1>4, <1>5, <1>6, <1>7, <1>8, <1>9, <1>10, <1>11, <1>12, <1>13, <1>14,
     <1>15, <1>16, <1>17
  DEF Next, EditStep, ActivationStep, ScanStep

LEMMA ActiveStep ==
    RInv /\ Keeps /\ [Next]_vars => release'[active'].state = "published"
<1> SUFFICES ASSUME RInv, Keeps, [Next]_vars
             PROVE  release'[active'].state = "published"
  OBVIOUS
<1>a. active' = active => release'[active'].state = "published"
  BY DEF RInv, TypeOK, Keeps
<1>1. ASSUME NEW c \in Crawlers, CreateCrawlerDraft(c)
      PROVE  release'[active'].state = "published"
  BY <1>1, <1>a DEF CreateCrawlerDraft, Edits
<1>2. ASSUME NEW c \in Crawlers, VerifyCrawler(c)
      PROVE  release'[active'].state = "published"
  BY <1>2, <1>a DEF VerifyCrawler, Edits
<1>3. ASSUME NEW c \in Crawlers, NEW status \in Statuses, DeprecateCrawler(c, status)
      PROVE  release'[active'].state = "published"
  BY <1>3, <1>a DEF DeprecateCrawler, Edits
<1>4. ASSUME NEW v \in Releases, CreateRegistryRelease(v)
      PROVE  release'[active'].state = "published"
  BY <1>4, <1>a DEF CreateRegistryRelease
<1>5. ASSUME NEW r \in Requests, NEW action \in {"publish", "roll_back"}, NEW v \in Releases,
             StartActivation(r, action, v)
      PROVE  release'[active'].state = "published"
  BY <1>5, <1>a DEF StartActivation
<1>6. ASSUME NEW r \in Requests, CheckActivation(r)
      PROVE  release'[active'].state = "published"
  BY <1>6, <1>a DEF CheckActivation
<1>7. ASSUME NEW r \in Requests, Activate(r)
      PROVE  release'[active'].state = "published"
  <2>1. request[r] \in Activation /\ request[r].pc = "activating"
    BY <1>7, TypeParts, RequestFacts DEF Activate, At, RInv
  <2>2. PICK v \in Releases : v = request[r].target
    BY <2>1, ActivationFacts
  <2>3. request[r].action = "roll_back" => release[v].state = "published"
    BY <2>1, <2>2 DEF RInv, ActivationsAreValid
  <2>4. active' = v /\ (request[r].action = "publish" => release'[v].state = "published")
    BY <1>7, <2>2 DEF Activate, RInv, TypeOK
  <2>5. QED
    BY <2>1, <2>3, <2>4 DEF Keeps, Activation
<1>8. ASSUME NEW r \in Requests, GetAffectedDomains(r)
      PROVE  release'[active'].state = "published"
  BY <1>8, <1>a DEF GetAffectedDomains
<1>9. ASSUME NEW r \in Requests, ScheduleReEvaluation(r)
      PROVE  release'[active'].state = "published"
  BY <1>9, <1>a DEF ScheduleReEvaluation
<1>10. ASSUME NEW r \in Requests, RequestDies(r)
      PROVE  release'[active'].state = "published"
  BY <1>10, <1>a DEF RequestDies
<1>11. ASSUME NEW s \in Scans, StartSweep(s)
      PROVE  release'[active'].state = "published"
  BY <1>11, <1>a DEF StartSweep
<1>12. ASSUME NEW s \in Scans, ClaimDueDomains(s)
      PROVE  release'[active'].state = "published"
  BY <1>12, <1>a DEF ClaimDueDomains
<1>13. ASSUME NEW s \in Scans, NEW d \in Domains, StartRescan(s, d)
      PROVE  release'[active'].state = "published"
  BY <1>13, <1>a DEF StartRescan
<1>14. ASSUME NEW s \in Scans, NEW d \in Domains, RecordScan(s, d)
      PROVE  release'[active'].state = "published"
  BY <1>14, <1>a DEF RecordScan
<1>15. ASSUME NEW s \in Scans, ScanDies(s)
      PROVE  release'[active'].state = "published"
  BY <1>15, <1>a DEF ScanDies
<1>16. ASSUME NEW d \in Domains, BecomesDue(d)
      PROVE  release'[active'].state = "published"
  BY <1>16, <1>a DEF BecomesDue
<1>17. CASE UNCHANGED vars
  BY <1>17, <1>a DEF vars
<1>18. QED
  BY <1>1, <1>2, <1>3, <1>4, <1>5, <1>6, <1>7, <1>8, <1>9, <1>10, <1>11, <1>12, <1>13, <1>14,
     <1>15, <1>16, <1>17
  DEF Next, EditStep, ActivationStep, ScanStep

LEMMA RInvStep == RInv /\ [Next]_vars => RInv'
<1> SUFFICES ASSUME RInv, [Next]_vars
             PROVE  RInv'
  OBVIOUS
<1>1. TypeOK' /\ Keeps
  BY TypeStep, ReleasesKeep DEF RInv
<1>2. PublishedReleasesAreValid' /\ ActivationsAreValid'
  BY <1>1, ReleasesStayValid, ActivationsStep DEF RInv
<1>3. release'[active'].state = "published" /\ AuditsArePublished' /\ SeenArePublished'
      /\ ResultsAreFrozen'
  BY <1>1, ActiveStep, AuditsStep, SeenStep, ResultsStep
<1>4. QED
  BY <1>1, <1>2, <1>3 DEF RInv

-----------------------------------------------------------------------------
(* Outdated results are awaited *)

LEMMA AwaitedKeeps ==
    ASSUME RInv, Keeps, NEW r \in Requests, NEW d, NEW c, Awaited(r, d, c),
           request'[r] = request[r]
    PROVE  Awaited(r, d, c)'
<1>1. CASE At(r, "comparing")
  <2>1. PICK v \in Releases, w \in Releases :
            /\ request[r].seen = v /\ request[r].target = w /\ Status(v, c) # Status(w, c)
    BY <1>1 DEF Awaited, At
  <2>2. release[v].state # "none" /\ release[w].state # "none"
    BY <1>1, <2>1 DEF RInv, ActivationsAreValid, SeenArePublished, At
  <2>3. Status(v, c)' = Status(v, c) /\ Status(w, c)' = Status(w, c)
    BY <2>2, FrozenEntries DEF Keeps
  <2>4. QED
    BY <1>1, <2>1, <2>3 DEF Awaited, At
<1>2. QED
  BY <1>1 DEF Awaited, At

\* The active release stays, and whoever was to reschedule a domain still is.
LEMMA AwaitedStay ==
    /\ RInv /\ Keeps /\ OutdatedAreAwaited /\ active' = active
    /\ \A d \in Domains \ missed' : ~domain'[d].due =>
          /\ d \notin missed /\ domain'[d] = domain[d]
          /\ \A c \in domain[d].results : \A r \in Requests :
                Awaited(r, d, c) => Awaited(r, d, c)'
    => OutdatedAreAwaited'
<1> SUFFICES ASSUME RInv, Keeps, OutdatedAreAwaited, active' = active,
                    NEW d \in Domains \ missed', ~domain'[d].due,
                    d \notin missed, domain'[d] = domain[d],
                    \A c \in domain[d].results : \A r \in Requests :
                        Awaited(r, d, c) => Awaited(r, d, c)',
                    NEW c \in domain[d].results, NEW v \in Releases, NEW w \in Releases,
                    domain[d].release = v, active = w, Status(v, c)' # Status(w, c)'
             PROVE  \E r \in Requests : Awaited(r, d, c)'
  BY DEF OutdatedAreAwaited
<1>1. release[v].state = "published" /\ release[w].state = "published"
  BY DEF RInv, ResultsAreFrozen
<1>2. Status(v, c)' = Status(v, c) /\ Status(w, c)' = Status(w, c)
  BY <1>1, FrozenEntries DEF Keeps
<1>3. QED
  BY <1>2 DEF OutdatedAreAwaited

LEMMA AwaitedStep ==
    RInv /\ Keeps /\ OutdatedAreAwaited /\ [Next]_vars => OutdatedAreAwaited'
<1> SUFFICES ASSUME RInv, Keeps, OutdatedAreAwaited, [Next]_vars
             PROVE  OutdatedAreAwaited'
  OBVIOUS
<1>a. /\ active' = active /\ request' = request
      /\ \A d \in Domains \ missed' : ~domain'[d].due => d \notin missed /\ domain'[d] = domain[d]
      => OutdatedAreAwaited'
  BY AwaitedKeeps, AwaitedStay
<1>1. ASSUME NEW c \in Crawlers, CreateCrawlerDraft(c)
      PROVE  OutdatedAreAwaited'
  <2>1. UNCHANGED <<active, request, domain, missed>>
    BY <1>1 DEF CreateCrawlerDraft, Edits
  <2>2. QED
    BY <1>a, <2>1
<1>2. ASSUME NEW c \in Crawlers, VerifyCrawler(c)
      PROVE  OutdatedAreAwaited'
  <2>1. UNCHANGED <<active, request, domain, missed>>
    BY <1>2 DEF VerifyCrawler, Edits
  <2>2. QED
    BY <1>a, <2>1
<1>3. ASSUME NEW c \in Crawlers, NEW status \in Statuses, DeprecateCrawler(c, status)
      PROVE  OutdatedAreAwaited'
  <2>1. UNCHANGED <<active, request, domain, missed>>
    BY <1>3 DEF DeprecateCrawler, Edits
  <2>2. QED
    BY <1>a, <2>1
<1>4. ASSUME NEW v \in Releases, CreateRegistryRelease(v)
      PROVE  OutdatedAreAwaited'
  <2>1. UNCHANGED <<active, request, domain, missed>>
    BY <1>4 DEF CreateRegistryRelease
  <2>2. QED
    BY <1>a, <2>1
<1>5. ASSUME NEW r \in Requests, NEW action \in {"publish", "roll_back"}, NEW v \in Releases,
             StartActivation(r, action, v)
      PROVE  OutdatedAreAwaited'
  <2>1. UNCHANGED <<active, domain, missed>> /\ \A q \in Requests \ {r} : request'[q] = request[q]
    BY <1>5 DEF StartActivation, RInv, TypeOK
  <2>2. ~At(r, "comparing") /\ ~At(r, "scheduling")
    BY <1>5 DEF StartActivation, At, IdleRequest
  <2>3. \A q \in Requests : \A d, c : Awaited(q, d, c) => Awaited(q, d, c)'
    BY <2>1, <2>2, AwaitedKeeps DEF Awaited
  <2>4. QED
    BY <2>1, <2>3, AwaitedStay
<1>6. ASSUME NEW r \in Requests, CheckActivation(r)
      PROVE  OutdatedAreAwaited'
  <2>1. UNCHANGED <<active, domain, missed>> /\ \A q \in Requests \ {r} : request'[q] = request[q]
    BY <1>6 DEF CheckActivation, Leaves, Goes, RInv, TypeOK
  <2>2. ~At(r, "comparing") /\ ~At(r, "scheduling")
    BY <1>6 DEF CheckActivation, At
  <2>3. \A q \in Requests : \A d, c : Awaited(q, d, c) => Awaited(q, d, c)'
    BY <2>1, <2>2, AwaitedKeeps DEF Awaited
  <2>4. QED
    BY <2>1, <2>3, AwaitedStay
<1>7. ASSUME NEW r \in Requests, Activate(r)
      PROVE  OutdatedAreAwaited'
  <2>a. request[r] \in Activation /\ request[r].pc = "activating"
    BY <1>7, TypeParts, RequestFacts DEF Activate, At, RInv
  <2>b. \A q \in Requests \ {r} : request'[q] = request[q]
    BY <1>7 DEF Activate, Leaves, Goes, RInv, TypeOK
  <2> SUFFICES ASSUME NEW d \in Domains \ missed', NEW c \in domain'[d].results,
                      NEW v \in Releases, NEW w \in Releases, ~domain'[d].due,
                      domain'[d].release = v, active' = w, Status(v, c)' # Status(w, c)'
               PROVE  \E q \in Requests : Awaited(q, d, c)'
    BY DEF OutdatedAreAwaited
  <2>1. /\ domain' = domain /\ missed' = missed /\ request[r].target = w
        /\ request[r].seen = active /\ active \in Releases
    BY <1>7 DEF Activate, RInv, TypeOK
  <2>2. PICK o \in Releases : o = active
    BY <2>1
  <2>3. /\ release[v].state = "published" /\ release[o].state = "published"
        /\ release[w].state # "none"
    BY <2>a, <2>1, <2>2 DEF RInv, ResultsAreFrozen, ActivationsAreValid
  <2>4. /\ Status(v, c)' = Status(v, c) /\ Status(o, c)' = Status(o, c)
        /\ Status(w, c)' = Status(w, c)
    BY <2>3, FrozenEntries DEF Keeps
  <2>5. CASE Status(v, c) # Status(o, c)
    <3>1. PICK q \in Requests : Awaited(q, d, c)
      BY <2>1, <2>2, <2>5 DEF OutdatedAreAwaited
    <3>2. q # r
      BY <2>a, <3>1 DEF Awaited, At
    <3>3. QED
      BY <2>b, <3>1, <3>2, AwaitedKeeps
  <2>6. CASE Status(v, c) = Status(o, c)
    <3>1. o # w /\ request'[r] = [request[r] EXCEPT !.pc = "comparing"]
      BY <1>7, <2>1, <2>2, <2>4, <2>6 DEF Activate, Goes, RInv, TypeOK
    <3>2. request'[r].pc = "comparing" /\ request'[r].seen = o /\ request'[r].target = w
      BY <2>a, <2>1, <2>2, <3>1 DEF Activation
    <3>3. QED
      BY <2>4, <2>6, <3>2 DEF Awaited, At
  <2>7. QED
    BY <2>5, <2>6
<1>8. ASSUME NEW r \in Requests, GetAffectedDomains(r)
      PROVE  OutdatedAreAwaited'
  <2>1. UNCHANGED <<active, domain>> /\ \A q \in Requests \ {r} : request'[q] = request[q]
    BY <1>8 DEF GetAffectedDomains, Leaves, RInv, TypeOK
  <2>2. CASE Cardinality(Changed(r)) <= MaxParameters
    <3>1. /\ missed' = missed
          /\ request' = [request EXCEPT ![r] =
                [pc |-> "scheduling",
                 affected |-> {d \in Domains : domain[d].results \cap Changed(r) # {}}]]
      BY <1>8, <2>2 DEF GetAffectedDomains
    <3>2. ASSUME NEW d \in Domains, NEW c \in domain[d].results, Awaited(r, d, c)
          PROVE  Awaited(r, d, c)'
      <4>1. c \in Crawlers /\ c \in Changed(r)
        BY <1>8, <3>2 DEF GetAffectedDomains, Awaited, At, Changed, SemanticDiff, RInv, TypeOK
      <4>2. request'[r].pc = "scheduling" /\ d \in request'[r].affected
        BY <3>1, <4>1 DEF RInv, TypeOK
      <4>3. QED
        BY <4>2 DEF Awaited, At
    <3>3. \A q \in Requests \ {r} : \A d, c : Awaited(q, d, c) => Awaited(q, d, c)'
      BY <2>1, AwaitedKeeps
    <3>4. QED
      BY <2>1, <3>1, <3>2, <3>3, AwaitedStay
  <2>3. CASE ~(Cardinality(Changed(r)) <= MaxParameters)
    BY <1>8, <2>3 DEF GetAffectedDomains, OutdatedAreAwaited
  <2>4. QED
    BY <2>2, <2>3
<1>9. ASSUME NEW r \in Requests, ScheduleReEvaluation(r)
      PROVE  OutdatedAreAwaited'
  <2>1. active' = active /\ \A q \in Requests \ {r} : request'[q] = request[q]
    BY <1>9 DEF ScheduleReEvaluation, Leaves, RInv, TypeOK
  <2>2. ASSUME NEW d \in Domains \ missed', ~domain'[d].due
        PROVE  d \notin missed /\ domain'[d] = domain[d] /\ \A c : ~Awaited(r, d, c)
    <3>1. d \notin request[r].affected /\ d \notin missed
      BY <1>9, <2>2 DEF ScheduleReEvaluation, RInv, TypeOK
    <3>2. QED
      BY <1>9, <3>1 DEF ScheduleReEvaluation, Awaited, At
  <2>3. \A q \in Requests \ {r} : \A d, c : Awaited(q, d, c) => Awaited(q, d, c)'
    BY <2>1, AwaitedKeeps
  <2>4. QED
    BY <2>1, <2>2, <2>3, AwaitedStay
<1>10. ASSUME NEW r \in Requests, RequestDies(r)
      PROVE  OutdatedAreAwaited'
  <2>1. UNCHANGED <<active, domain>> /\ \A q \in Requests \ {r} : request'[q] = request[q]
    BY <1>10 DEF RequestDies, Leaves, RInv, TypeOK
  <2>2. CASE request[r].pc \in {"comparing", "scheduling"}
    BY <1>10, <2>2 DEF RequestDies, OutdatedAreAwaited
  <2>3. CASE request[r].pc \notin {"comparing", "scheduling"}
    <3>1. missed' = missed
      BY <1>10, <2>3 DEF RequestDies
    <3>2. \A q \in Requests : \A d, c : Awaited(q, d, c) => Awaited(q, d, c)'
      BY <2>1, <2>3, AwaitedKeeps DEF Awaited, At
    <3>3. QED
      BY <2>1, <3>1, <3>2, AwaitedStay
  <2>4. QED
    BY <2>2, <2>3
<1>11. ASSUME NEW s \in Scans, StartSweep(s)
      PROVE  OutdatedAreAwaited'
  <2>1. UNCHANGED <<active, request, domain, missed>>
    BY <1>11 DEF StartSweep
  <2>2. QED
    BY <1>a, <2>1
<1>12. ASSUME NEW s \in Scans, ClaimDueDomains(s)
      PROVE  OutdatedAreAwaited'
  <2>1. UNCHANGED <<active, request, domain, missed>>
    BY <1>12 DEF ClaimDueDomains
  <2>2. QED
    BY <1>a, <2>1
<1>13. ASSUME NEW s \in Scans, NEW d \in Domains, StartRescan(s, d)
      PROVE  OutdatedAreAwaited'
  <2>1. UNCHANGED <<active, request, domain, missed>>
    BY <1>13 DEF StartRescan
  <2>2. QED
    BY <1>a, <2>1
<1>14. ASSUME NEW s \in Scans, NEW d \in Domains, RecordScan(s, d)
      PROVE  OutdatedAreAwaited'
  <2>1. active' = active /\ request' = request /\ release' = release
    BY <1>14 DEF RecordScan
  <2>2. CASE scan[s].release # active
    <3>1. d \in missed' /\ missed \subseteq missed'
          /\ \A e \in Domains \ {d} : domain'[e] = domain[e]
      BY <1>14, <2>2 DEF RecordScan, RInv, TypeOK
    <3>2. QED
      BY <1>a, <2>1, <3>1
  <2>3. CASE scan[s].release = active
    <3>1. domain'[d].release = active /\ missed' = missed \ {d}
          /\ \A e \in Domains \ {d} : domain'[e] = domain[e]
      BY <1>14, <2>3 DEF RecordScan, RInv, TypeOK
    <3>2. SUFFICES ASSUME NEW e \in Domains \ missed', NEW c \in domain'[e].results,
                          NEW v \in Releases, NEW w \in Releases, ~domain'[e].due,
                          domain'[e].release = v, active' = w, Status(v, c)' # Status(w, c)'
                   PROVE  \E r \in Requests : Awaited(r, e, c)'
      BY DEF OutdatedAreAwaited
    <3>3. e # d
      BY <2>1, <3>1, <3>2
    <3>4. Status(v, c)' = Status(v, c) /\ Status(w, c)' = Status(w, c)
      BY <2>1, FrozenEntries
    <3>5. PICK r \in Requests : Awaited(r, e, c)
      BY <2>1, <3>1, <3>2, <3>3, <3>4 DEF OutdatedAreAwaited
    <3>6. QED
      BY <2>1, <3>5, AwaitedKeeps
  <2>4. QED
    BY <2>2, <2>3
<1>15. ASSUME NEW s \in Scans, ScanDies(s)
      PROVE  OutdatedAreAwaited'
  <2>1. UNCHANGED <<active, request, domain, missed>>
    BY <1>15 DEF ScanDies
  <2>2. QED
    BY <1>a, <2>1
<1>16. ASSUME NEW d \in Domains, BecomesDue(d)
      PROVE  OutdatedAreAwaited'
  <2>1. UNCHANGED <<active, request, missed>>
        /\ \A e \in Domains : ~domain'[e].due => domain'[e] = domain[e]
    BY <1>16 DEF BecomesDue, RInv, TypeOK
  <2>2. QED
    BY <1>a, <2>1
<1>17. CASE UNCHANGED vars
  <2>1. UNCHANGED <<active, request, domain, missed>>
    BY <1>17 DEF vars
  <2>2. QED
    BY <1>a, <2>1
<1>18. QED
  BY <1>1, <1>2, <1>3, <1>4, <1>5, <1>6, <1>7, <1>8, <1>9, <1>10, <1>11, <1>12, <1>13, <1>14,
     <1>15, <1>16, <1>17
  DEF Next, EditStep, ActivationStep, ScanStep

-----------------------------------------------------------------------------
(* The theorems *)

\* Rows, requests and audits keep their types; a release is published only if it
\* was validated, and audits and results are only ever of published releases.
THEOREM RegistryInvariant == Spec => []RInv
<1>1. Init => RInv
  <2> SUFFICES ASSUME Init
               PROVE  RInv
    OBVIOUS
  <2>1. TypeOK
    <3>1. crawler \in [Crawlers -> CrawlerRow \cup {None}]
      BY DEF Init, CrawlerRow, LifecycleStatuses, EvaluationEligible
    <3>2. release \in [Releases -> [state: {"none", "draft", "published"},
                                    entries: [Crawlers -> CrawlerRow \cup {None}]]]
      BY <3>1 DEF Init, NoRelease
    <3>3. domain \in [Domains -> DomainRow]
      BY DEF Init, NeverScanned, DomainRow
    <3>4. QED
      BY <3>1, <3>2, <3>3, RegistryAssumption, BoundsAreNat DEF Init, TypeOK, DomainRow
  <2>2. release[active].state = "published" /\ active \in Releases
    BY RegistryAssumption DEF Init
  <2>3. \A v \in Releases : release[v].state = "published" => v = SeedRelease
    BY DEF Init, NoRelease
  <2>4. ~ValidationErrors(SeedRelease)
    <3>1. release[SeedRelease].entries = crawler
      BY RegistryAssumption DEF Init
    <3>2. \A c \in Crawlers : crawler[c] # None => c \in SeedCrawlers
                              /\ crawler[c] = [status |-> "active", verified |-> TRUE]
      BY DEF Init
    <3>3. \A c \in Crawlers : crawler[c] # None => crawler[c].verified
      BY <3>2
    <3>4. QED
      BY <3>1, <3>2, <3>3, RegistryAssumption DEF ValidationErrors
  <2>5. PublishedReleasesAreValid
    BY <2>3, <2>4 DEF PublishedReleasesAreValid
  <2>6. ActivationsAreValid /\ SeenArePublished /\ AuditsArePublished /\ ResultsAreFrozen
    BY DEF Init, IdleRequest, IdleScan, NeverScanned, ActivationsAreValid, SeenArePublished,
       AuditsArePublished, ResultsAreFrozen
  <2>7. QED
    BY <2>1, <2>2, <2>5, <2>6 DEF RInv
<1>2. QED
  BY <1>1, RInvStep, PTL DEF Spec

\* Nothing edited, published or rolled back, in whatever order and at whatever
\* step of an audit, gives a domain a result for a crawler that was not verified
\* in the release it was audited with, or two results for one token.
THEOREM EvaluatedCrawlersAreVerifiedHolds == Spec => []EvaluatedCrawlersAreVerified
<1>1. RInv => EvaluatedCrawlersAreVerified
  <2> SUFFICES ASSUME RInv, NEW d \in Domains,
                      NEW c \in domain[d].results, NEW k \in domain[d].results
               PROVE  /\ release[domain[d].release].entries[c].verified
                      /\ TokenOf[c] = TokenOf[k] => c = k
    BY DEF EvaluatedCrawlersAreVerified
  <2>1. PICK v \in Releases : /\ domain[d].release = v /\ release[v].state = "published"
                              /\ domain[d].results = ResolveEvaluationRows(v)
    BY DEF RInv, ResultsAreFrozen
  <2>2. ~ValidationErrors(v)
    BY <2>1 DEF RInv, PublishedReleasesAreValid
  <2>3. QED
    BY <2>1, <2>2 DEF ValidationErrors, ResolveEvaluationRows
<1>2. QED
  BY <1>1, RegistryInvariant, PTL

\* For any number of overlapping activations and audits: where no activation
\* overtook another, none was killed after the pointer moved, no audit ended with a
\* former release, and the domains and crawlers concerned fitted the statements of
\* the activation, outdated results are due again once all are done.  How many fit is
\* any number: with those that do not, nothing is said of the domains concerned.
THEOREM OutdatedDomainsAreDueHolds == Spec => []OutdatedDomainsAreDue
<1>1. Init => OutdatedAreAwaited
  BY DEF Init, NeverScanned, OutdatedAreAwaited
<1>2. RInv /\ OutdatedAreAwaited => OutdatedDomainsAreDue
  <2> SUFFICES ASSUME RInv, OutdatedAreAwaited, Quiet, NEW d \in Domains \ missed,
                      IsOutdated(d), ~domain[d].due
               PROVE  FALSE
    BY DEF OutdatedDomainsAreDue
  <2>1. PICK c \in domain[d].results : Status(domain[d].release, c) # Status(active, c)
    BY DEF IsOutdated
  <2>2. domain[d].release \in Releases /\ active \in Releases
    BY <2>1 DEF RInv, TypeOK, ResultsAreFrozen
  <2>3. PICK r \in Requests : Awaited(r, d, c)
    BY <2>1, <2>2 DEF OutdatedAreAwaited
  <2>4. QED
    BY <2>3 DEF Quiet, Awaited, At, IdleRequest
<1>3. RInv /\ OutdatedAreAwaited /\ [Next]_vars => OutdatedAreAwaited'
  BY ReleasesKeep, AwaitedStep DEF RInv
<1>4. QED
  BY <1>1, <1>2, <1>3, RegistryInvariant, PTL DEF Spec

-----------------------------------------------------------------------------
(* Robots: induction over the lines *)

LEMMA Smallest ==
    ASSUME NEW T \in SUBSET Nat, T # {}
    PROVE  \E x \in T : \A y \in T : x <= y
<1> DEFINE R == {ss \in Nat \X Nat : ss[1] < ss[2]}
<1>1. IsWellFoundedOn(R, Nat)
  BY NatLessThanWellFounded DEF OpToRel
<1>2. \A x, y \in Nat : y < x => <<y, x>> \in R
  OBVIOUS
<1> HIDE DEF R
<1>3. \E x \in T : \A y \in T : <<y, x>> \notin R
  BY <1>1, WFMin
<1>4. PICK x \in T : \A y \in T : <<y, x>> \notin R
  BY <1>3
<1>5. \A y \in T : ~(y < x)
  BY <1>2, <1>4
<1>6. QED
  BY <1>5

\* Induction from 0 to n, for what is a set.
LEMMA CountingUp ==
    ASSUME NEW n \in Nat, NEW S, 0 \in S, \A i \in 1..n : i - 1 \in S => i \in S
    PROVE  \A i \in 0..n : i \in S
<1> SUFFICES ASSUME NEW j \in 0..n, j \notin S
             PROVE  FALSE
  OBVIOUS
<1>1. PICK x \in {i \in 0..n : i \notin S} : \A y \in {i \in 0..n : i \notin S} : x <= y
  <2>1. {i \in 0..n : i \notin S} \in SUBSET Nat /\ {i \in 0..n : i \notin S} # {}
    OBVIOUS
  <2>2. QED
    BY <2>1, Smallest
<1>2. x \in 1..n /\ x - 1 \in 0..n /\ ~(x <= x - 1)
  BY <1>1
<1>3. x - 1 \in S
  BY <1>1, <1>2
<1>4. QED
  BY <1>1, <1>2, <1>3

Recurs(g, n, c, F) == g = [i \in 0..n |-> IF i = 0 THEN c ELSE F[i][g[i - 1]]]

\* A function that is defined by recursion from 0 to n is there.
LEMMA Recursion ==
    ASSUME NEW n \in Nat, NEW V, NEW c \in V, NEW F \in [1..n -> [V -> V]]
    PROVE  \E g \in [0..n -> V] : Recurs(g, n, c, F)
<1> DEFINE G(m, g) == g = [i \in 0..m |-> IF i = 0 THEN c ELSE F[i][g[i - 1]]]
           S == {m \in 0..n : \E g \in [0..m -> V] : G(m, g)}
<1>1. 0 \in S
  <2> DEFINE h == [i \in 0..0 |-> c]
  <2>1. G(0, h) /\ h \in [0..0 -> V]
    OBVIOUS
  <2> HIDE DEF G, h
  <2>2. QED
    BY <2>1
<1>2. ASSUME NEW m \in 1..n, m - 1 \in S
      PROVE  m \in S
  <2>1. PICK g \in [0..m - 1 -> V] : G(m - 1, g)
    <3> HIDE DEF G
    <3>1. QED
      BY <1>2
  <2> DEFINE h == [i \in 0..m |-> IF i = m THEN F[m][g[m - 1]] ELSE g[i]]
  <2>2. h \in [0..m -> V]
    <3>1. F[m][g[m - 1]] \in V
      OBVIOUS
    <3>2. QED
      BY <3>1
  <2>3. ASSUME NEW i \in 0..m
        PROVE  h[i] = IF i = 0 THEN c ELSE F[i][h[i - 1]]
    <3>1. CASE i = m
      BY <3>1
    <3>2. CASE i # m
      <4>1. i \in 0..m - 1 /\ h[i] = g[i]
            /\ (i # 0 => i - 1 \in 0..m /\ i - 1 # m /\ h[i - 1] = g[i - 1])
        BY <3>2
      <4>2. g[i] = IF i = 0 THEN c ELSE F[i][g[i - 1]]
        BY <4>1, <2>1
      <4>3. QED
        BY <4>1, <4>2
    <3>3. QED
      BY <3>1, <3>2
  <2>4. m \in 0..n
    OBVIOUS
  <2> HIDE DEF h
  <2>5. G(m, h)
    <3>1. h = [i \in 0..m |-> h[i]]
      BY <2>2
    <3>2. [i \in 0..m |-> h[i]] = [i \in 0..m |-> IF i = 0 THEN c ELSE F[i][h[i - 1]]]
      BY <2>3
    <3>3. QED
      BY <3>1, <3>2
  <2> HIDE DEF G
  <2>6. QED
    BY <2>2, <2>4, <2>5
<1>3. \A m \in 0..n : m \in S
  <2> HIDE DEF S
  <2>1. QED
    BY <1>1, <1>2, CountingUp
<1>4. QED
  <2> HIDE DEF G
  <2>1. \E g \in [0..n -> V] : G(n, g)
    BY <1>3
  <2>2. QED
    BY <2>1 DEF G, Recurs

-----------------------------------------------------------------------------
(* Robots: the parser *)

Agents == Tokens \cup {AnyAgent}
Rule == [type : RuleFields, pattern : Patterns, lineNumber : Nat]
Group == [agents : SUBSET Agents, rules : Seq(Rule)]
Parsed == [groups : Seq(Group), hasRules : BOOLEAN]

\* The agents a line names.
NamedBy(agent) == IF agent = Empty THEN {} ELSE {agent}

LEMMA LineFacts ==
    ASSUME NEW line \in Line
    PROVE  /\ line = [field |-> line.field, value |-> line.value]
           /\ line.field \in {"user-agent", "other"} \cup RuleFields
           /\ line.field = "user-agent" => line.value \in Agents \cup {Empty}
           /\ line.field \in RuleFields => line.value \in Patterns
  BY DEF Line, Agents, RuleFields

\* The open group takes another's place, and the others stay.
LEMMA OpenGroupReplaced ==
    ASSUME NEW parsed \in Parsed, parsed.groups # <<>>, NEW group \in Group
    PROVE  /\ WithOpenGroup(parsed, group) \in Parsed
           /\ Len(WithOpenGroup(parsed, group).groups) = Len(parsed.groups)
           /\ \A k \in 1..Len(parsed.groups) : k # Len(parsed.groups) =>
                WithOpenGroup(parsed, group).groups[k] = parsed.groups[k]
           /\ OpenGroup(WithOpenGroup(parsed, group)) = group
           /\ WithOpenGroup(parsed, group).hasRules = parsed.hasRules
<1>1. Len(parsed.groups) \in 1..Len(parsed.groups) /\ parsed.groups \in Seq(Group)
  BY DEF Parsed
<1>2. PICK gs : gs = [parsed.groups EXCEPT ![Len(parsed.groups)] = group]
  OBVIOUS
<1>3. /\ gs \in Seq(Group) /\ Len(gs) = Len(parsed.groups)
      /\ gs[Len(parsed.groups)] = group
      /\ \A k \in 1..Len(parsed.groups) : k # Len(parsed.groups) => gs[k] = parsed.groups[k]
  BY <1>1, <1>2
<1>4. PICK q : q = [parsed EXCEPT !.groups[Len(parsed.groups)] = group]
  OBVIOUS
<1>5. q = [parsed EXCEPT !.groups = gs]
  BY <1>2, <1>4
<1>6. q \in Parsed /\ q.groups = gs /\ q.hasRules = parsed.hasRules
  BY <1>3, <1>5 DEF Parsed
<1>7. WithOpenGroup(parsed, group) = q
  BY <1>4 DEF WithOpenGroup
<1>8. QED
  BY <1>3, <1>6, <1>7 DEF OpenGroup

LEMMA OpenGroupType ==
    ASSUME NEW parsed \in Parsed, parsed.groups # <<>>
    PROVE  OpenGroup(parsed) \in Group /\ Len(parsed.groups) \in Nat \ {0}
  BY DEF Parsed, OpenGroup

\* What an agent line does: it begins a group, or joins the open one.
AgentBegins(parsed, q, agent) ==
    /\ Len(q.groups) = Len(parsed.groups) + 1
    /\ \A k \in 1..Len(parsed.groups) : q.groups[k] = parsed.groups[k]
    /\ OpenGroup(q).agents = NamedBy(agent) /\ OpenGroup(q).rules = <<>>

AgentJoins(parsed, q, agent) ==
    /\ Len(q.groups) = Len(parsed.groups)
    /\ \A k \in 1..Len(parsed.groups) : k # Len(parsed.groups) => q.groups[k] = parsed.groups[k]
    /\ OpenGroup(q).agents = OpenGroup(parsed).agents \cup NamedBy(agent)
    /\ OpenGroup(q).rules = OpenGroup(parsed).rules

LEMMA ReadAgentFacts ==
    ASSUME NEW parsed \in Parsed, NEW agent \in Agents \cup {Empty},
           NEW q, q = ReadAgent(parsed, agent)
    PROVE  /\ q \in Parsed /\ q.groups # <<>> /\ q.hasRules = FALSE
           /\ ClosesGroup(parsed) => AgentBegins(parsed, q, agent)
           /\ ~ClosesGroup(parsed) => AgentJoins(parsed, q, agent)
<1>1. NewGroup \in Group /\ NewGroup.agents = {} /\ NewGroup.rules = <<>>
  BY DEF NewGroup, Group
<1>2. PICK open : open = IF ClosesGroup(parsed)
                         THEN [groups |-> Append(parsed.groups, NewGroup), hasRules |-> FALSE]
                         ELSE parsed
  OBVIOUS
<1>3. /\ open \in Parsed /\ open.groups # <<>> /\ open.hasRules = FALSE
      /\ ClosesGroup(parsed) =>
            /\ Len(open.groups) = Len(parsed.groups) + 1
            /\ \A k \in 1..Len(parsed.groups) : open.groups[k] = parsed.groups[k]
            /\ OpenGroup(open) = NewGroup
      /\ ~ClosesGroup(parsed) => open = parsed
  <2>1. parsed.groups \in Seq(Group) /\ parsed.hasRules \in BOOLEAN
    BY DEF Parsed
  <2>2. CASE ClosesGroup(parsed)
    <3>1. PICK gs : gs = Append(parsed.groups, NewGroup)
      OBVIOUS
    <3>2. /\ gs \in Seq(Group) /\ Len(gs) = Len(parsed.groups) + 1 /\ gs # <<>>
          /\ gs[Len(gs)] = NewGroup
          /\ \A k \in 1..Len(parsed.groups) : gs[k] = parsed.groups[k]
      BY <1>1, <2>1, <3>1
    <3>3. open = [groups |-> gs, hasRules |-> FALSE]
      BY <1>2, <2>2, <3>1
    <3>4. QED
      BY <2>2, <3>2, <3>3 DEF Parsed, OpenGroup
  <2>3. CASE ~ClosesGroup(parsed)
    BY <1>2, <2>1, <2>3 DEF ClosesGroup
  <2>4. QED
    BY <2>2, <2>3
<1>4. q = IF agent = Empty THEN open
          ELSE WithOpenGroup(open, [OpenGroup(open) EXCEPT !.agents = @ \cup {agent}])
  BY <1>2 DEF ReadAgent
<1>5. CASE agent = Empty
  <2>1. q = open /\ NamedBy(agent) = {}
    BY <1>4, <1>5 DEF NamedBy
  <2>2. QED
    BY <1>1, <1>3, <2>1 DEF AgentBegins, AgentJoins
<1>6. CASE agent # Empty
  <2>1. PICK g : g = [OpenGroup(open) EXCEPT !.agents = @ \cup {agent}]
    OBVIOUS
  <2>2. g \in Group /\ g.agents = OpenGroup(open).agents \cup {agent} /\ g.rules = OpenGroup(open).rules
    <3>1. OpenGroup(open) \in Group
      BY <1>3, OpenGroupType
    <3>2. QED
      BY <2>1, <3>1, <1>6 DEF Group
  <2>3. q = WithOpenGroup(open, g) /\ NamedBy(agent) = {agent}
    BY <1>4, <1>6, <2>1 DEF NamedBy
  <2>4. /\ q \in Parsed /\ Len(q.groups) = Len(open.groups)
        /\ \A k \in 1..Len(open.groups) : k # Len(open.groups) => q.groups[k] = open.groups[k]
        /\ OpenGroup(q) = g /\ q.hasRules = FALSE
    BY <1>3, <2>2, <2>3, OpenGroupReplaced
  <2>5. Len(open.groups) \in Nat \ {0} /\ Len(parsed.groups) \in Nat /\ q.groups # <<>>
    BY <1>3, <2>4, OpenGroupType DEF Parsed
  <2>6. QED
    BY <1>1, <1>3, <2>2, <2>3, <2>4, <2>5 DEF AgentBegins, AgentJoins
<1>7. QED
  BY <1>5, <1>6

\* What an allow or disallow line does: it is dropped, or joins the open group.
RuleOf(line, i) == [type |-> line.field, pattern |-> line.value, lineNumber |-> i]

Drops(parsed) == parsed.groups = <<>> \/ OpenGroup(parsed).agents = {}

RuleJoins(parsed, q, rule) ==
    /\ q.groups # <<>> /\ q.hasRules = TRUE /\ Len(q.groups) = Len(parsed.groups)
    /\ \A k \in 1..Len(parsed.groups) : k # Len(parsed.groups) => q.groups[k] = parsed.groups[k]
    /\ OpenGroup(q).agents = OpenGroup(parsed).agents
    /\ OpenGroup(q).rules = Append(OpenGroup(parsed).rules, rule)

LEMMA ReadRuleFacts ==
    ASSUME NEW parsed \in Parsed, NEW line \in Line, line.field \in RuleFields,
           NEW i \in Nat, NEW q, q = ReadRule(parsed, line, i)
    PROVE  /\ q \in Parsed
           /\ Drops(parsed) => q = parsed
           /\ ~Drops(parsed) => RuleJoins(parsed, q, RuleOf(line, i))
<1>1. CASE Drops(parsed)
  BY <1>1 DEF ReadRule, Drops
<1>2. CASE ~Drops(parsed)
  <2>1. PICK rule \in Rule : rule = RuleOf(line, i)
    BY LineFacts DEF Rule, RuleOf
  <2>2. parsed.groups # <<>> /\ OpenGroup(parsed) \in Group
    BY <1>2, OpenGroupType DEF Drops
  <2>3. PICK g : g = [OpenGroup(parsed) EXCEPT !.rules = Append(@, rule)]
    OBVIOUS
  <2>4. /\ g \in Group /\ g.agents = OpenGroup(parsed).agents
        /\ g.rules = Append(OpenGroup(parsed).rules, rule)
    <3>1. Append(OpenGroup(parsed).rules, rule) \in Seq(Rule)
      BY <2>1, <2>2 DEF Group
    <3>2. QED
      BY <2>2, <2>3, <3>1 DEF Group
  <2>5. PICK w : w = WithOpenGroup(parsed, g)
    OBVIOUS
  <2>6. /\ w \in Parsed /\ Len(w.groups) = Len(parsed.groups)
        /\ \A k \in 1..Len(parsed.groups) : k # Len(parsed.groups) => w.groups[k] = parsed.groups[k]
        /\ OpenGroup(w) = g
    BY <2>2, <2>4, <2>5, OpenGroupReplaced
  <2>7. q = [w EXCEPT !.hasRules = TRUE]
    BY <1>2, <2>1, <2>3, <2>5 DEF ReadRule, Drops, RuleOf
  <2>8. q \in Parsed /\ q.groups = w.groups /\ q.hasRules = TRUE
    BY <2>6, <2>7 DEF Parsed
  <2>9. OpenGroup(q) = g /\ q.groups # <<>>
    <3>1. Len(q.groups) \in Nat \ {0}
      BY <2>2, <2>6, <2>8, OpenGroupType
    <3>2. QED
      BY <2>6, <2>8, <3>1 DEF OpenGroup
  <2>10. QED
    BY <1>2, <2>1, <2>4, <2>6, <2>8, <2>9 DEF RuleJoins
<1>3. QED
  BY <1>1, <1>2

LEMMA ReadLineType ==
    ASSUME NEW parsed \in Parsed, NEW line \in Line, NEW i \in Nat
    PROVE  ReadLine(parsed, line, i) \in Parsed
<1>1. CASE line.field = "user-agent"
  <2>1. ReadAgent(parsed, line.value) \in Parsed
    BY <1>1, LineFacts, ReadAgentFacts
  <2>2. ReadLine(parsed, line, i) = ReadAgent(parsed, line.value)
    BY <1>1 DEF ReadLine, RuleFields
  <2>3. QED
    BY <2>1, <2>2
<1>2. CASE line.field \in RuleFields
  <2>1. ReadRule(parsed, line, i) \in Parsed
    BY <1>2, ReadRuleFacts
  <2>2. QED
    BY <1>2, <2>1 DEF ReadLine, RuleFields
<1>3. CASE line.field \notin RuleFields /\ line.field # "user-agent"
  BY <1>3 DEF ReadLine
<1>4. QED
  BY <1>1, <1>2, <1>3

\* What has been read is what the line before left, and the line.
LEMMA ReadingsFacts ==
    ASSUME NEW text \in Seq(Line)
    PROVE  /\ Readings(text) \in [0..Len(text) -> Parsed]
           /\ Readings(text)[0] = NothingRead
           /\ \A i \in 1..Len(text) :
                Readings(text)[i] = ReadLine(Readings(text)[i - 1], text[i], i)
<1>1. NothingRead \in Parsed
  BY DEF NothingRead, Parsed
<1>2. PICK F : F = [i \in 1..Len(text) |-> [q \in Parsed |-> ReadLine(q, text[i], i)]]
  OBVIOUS
<1>3. F \in [1..Len(text) -> [Parsed -> Parsed]]
  BY <1>2, ReadLineType
<1>4. PICK g \in [0..Len(text) -> Parsed] :
          g = [i \in 0..Len(text) |-> IF i = 0 THEN NothingRead ELSE F[i][g[i - 1]]]
  <2>1. PICK n \in Nat : n = Len(text)
    OBVIOUS
  <2>2. F \in [1..n -> [Parsed -> Parsed]]
    BY <1>3, <2>1
  <2>3. \E g \in [0..n -> Parsed] : Recurs(g, n, NothingRead, F)
    <3> HIDE <1>2
    <3>1. QED
      BY <1>1, <2>2, Recursion
  <2>4. QED
    BY <2>1, <2>3 DEF Recurs
<1>5. ASSUME NEW i \in 0..Len(text), i # 0
      PROVE  F[i][g[i - 1]] = ReadLine(g[i - 1], text[i], i)
  <2>1. i \in 1..Len(text) /\ g[i - 1] \in Parsed
    BY <1>5
  <2>2. QED
    BY <1>2, <2>1
<1>6. g = [i \in 0..Len(text) |-> IF i = 0 THEN NothingRead ELSE ReadLine(g[i - 1], text[i], i)]
  <2>1. [i \in 0..Len(text) |-> IF i = 0 THEN NothingRead ELSE F[i][g[i - 1]]] =
            [i \in 0..Len(text) |-> IF i = 0 THEN NothingRead ELSE ReadLine(g[i - 1], text[i], i)]
    BY <1>5
  <2>2. QED
    BY <1>4, <2>1
<1>7. Readings(text) = [i \in 0..Len(text) |->
          IF i = 0 THEN NothingRead ELSE ReadLine(Readings(text)[i - 1], text[i], i)]
  BY <1>6 DEF Readings
<1>8. /\ Readings(text)[0] = NothingRead
      /\ \A i \in 1..Len(text) : Readings(text)[i] = ReadLine(Readings(text)[i - 1], text[i], i)
  BY <1>7
<1>9. \A i \in 0..Len(text) : Readings(text)[i] \in Parsed
  <2> DEFINE S == {k \in 0..Len(text) : Readings(text)[k] \in Parsed}
  <2>1. 0 \in S
    BY <1>1, <1>8
  <2>2. ASSUME NEW i \in 1..Len(text), i - 1 \in S
        PROVE  i \in S
    <3>1. text[i] \in Line /\ Readings(text)[i - 1] \in Parsed /\ i \in Nat
      BY <2>2
    <3>2. QED
      BY <1>8, <3>1, ReadLineType
  <2> HIDE DEF S
  <2>3. \A i \in 0..Len(text) : i \in S
    <3>1. Len(text) \in Nat /\ \A i \in 1..Len(text) : i - 1 \in S => i \in S
      BY <2>2
    <3>2. QED
      BY <2>1, <3>1, CountingUp
  <2>4. QED
    BY <2>3 DEF S
<1>10. QED
  BY <1>7, <1>8, <1>9

-----------------------------------------------------------------------------
(* Robots: the groups are those of the RFC *)

RuleAt(text, i) == RuleOf(text[i], i)
IsRule(text, i) == text[i].field \in RuleFields
IsAgent(text, j, agent) == text[j] = [field |-> "user-agent", value |-> agent]

\* No other group has begun since line j.
StillOpen(text, j, n) ==
    \A k, l \in (j + 1)..n : k < l /\ IsRule(text, k) => text[l].field # "user-agent"

\* Of the first n lines and what was read of them: the agents named are those
\* of the groups.
NamesAreKept(text, n, parsed) ==
    \A a \in Agents : (\E k \in DOMAIN parsed.groups : a \in parsed.groups[k].agents)
                        <=> (\E j \in 1..n : IsAgent(text, j, a))

\* A rule of a group is a line that binds each agent of the group.
RulesAreBound(text, n, parsed) ==
    \A k \in DOMAIN parsed.groups : \A m \in DOMAIN parsed.groups[k].rules :
        \E i \in 1..n :
            /\ parsed.groups[k].rules[m] = RuleAt(text, i) /\ IsRule(text, i)
            /\ \A a \in parsed.groups[k].agents :
                \E j \in 1..n : IsAgent(text, j, a) /\ Governs(text, j, i)

\* A line that binds an agent is a rule of one of its groups.
RulesAreKept(text, n, parsed) ==
    \A i, j \in 1..n : \A a \in Agents :
        IsAgent(text, j, a) /\ Governs(text, j, i) =>
            \E k \in DOMAIN parsed.groups :
                /\ a \in parsed.groups[k].agents
                /\ \E m \in DOMAIN parsed.groups[k].rules :
                    parsed.groups[k].rules[m] = RuleAt(text, i)

\* The open group's agents are those of the lines still open.
OpenAgentsAreNamed(text, n, parsed) ==
    /\ parsed.groups = <<>> => \A j \in 1..n : text[j].field # "user-agent"
    /\ parsed.groups # <<>> => \A a \in Agents :
            a \in OpenGroup(parsed).agents
                <=> \E j \in 1..n : IsAgent(text, j, a) /\ StillOpen(text, j, n)

\* hasRules tells whether the open group has one.
RulesAreNoticed(text, n, parsed) ==
    /\ parsed.hasRules => \E k \in 1..n :
            IsRule(text, k) /\ \A l \in (k + 1)..n : text[l].field # "user-agent"
    /\ ~parsed.hasRules =>
        /\ \A j \in 1..n : \A a \in Agents : IsAgent(text, j, a) /\ StillOpen(text, j, n) =>
                \A k \in (j + 1)..n : ~IsRule(text, k)
        /\ parsed.groups # <<>> => OpenGroup(parsed).rules = <<>>

ReadFaithfully(text, n, parsed) ==
    /\ NamesAreKept(text, n, parsed) /\ RulesAreBound(text, n, parsed)
    /\ RulesAreKept(text, n, parsed) /\ OpenAgentsAreNamed(text, n, parsed)
    /\ RulesAreNoticed(text, n, parsed)

LEMMA GovernsFacts ==
    ASSUME NEW text, NEW j \in Nat, NEW i \in Nat
    PROVE  Governs(text, j, i) <=> j < i /\ IsRule(text, i) /\ StillOpen(text, j, i - 1)
  BY DEF Governs, IsRule, StillOpen

LEMMA StillOpenFacts ==
    ASSUME NEW text, NEW n \in Nat \ {0}
    PROVE  /\ StillOpen(text, n, n)
           /\ \A j \in 1..(n - 1) : StillOpen(text, j, n) <=>
                /\ StillOpen(text, j, n - 1)
                /\ \/ text[n].field # "user-agent"
                   \/ \A k \in (j + 1)..(n - 1) : ~IsRule(text, k)
<1>1. StillOpen(text, n, n)
  BY DEF StillOpen
<1>2. ASSUME NEW j \in 1..(n - 1)
      PROVE  StillOpen(text, j, n) <=>
                /\ StillOpen(text, j, n - 1)
                /\ \/ text[n].field # "user-agent"
                   \/ \A k \in (j + 1)..(n - 1) : ~IsRule(text, k)
  <2>1. \A k, l \in (j + 1)..n : k < l <=>
            /\ k \in (j + 1)..(n - 1)
            /\ (l \in (j + 1)..(n - 1) /\ k < l) \/ l = n
    OBVIOUS
  <2>2. (j + 1)..(n - 1) \subseteq (j + 1)..n /\ n \in (j + 1)..n
    OBVIOUS
  <2>3. QED
    BY <2>1, <2>2 DEF StillOpen
<1>3. QED
  BY <1>1, <1>2

\* Lines that leave the groups alone.
LEMMA OtherLineFaithful ==
    ASSUME NEW text \in Seq(Line), NEW n \in 1..Len(text), NEW parsed \in Parsed,
           ReadFaithfully(text, n - 1, parsed), text[n].field # "user-agent",
           IsRule(text, n) => Drops(parsed)
    PROVE  ReadFaithfully(text, n, parsed)
<1>1. /\ n \in Nat \ {0} /\ 1..(n - 1) \subseteq 1..n /\ n \in 1..n
      /\ \A j \in 1..n : j # n => j \in 1..(n - 1)
      /\ \A a \in Agents : ~IsAgent(text, n, a)
  BY DEF IsAgent
<1>2. \A j \in 1..(n - 1) : StillOpen(text, j, n) <=> StillOpen(text, j, n - 1)
  BY <1>1, StillOpenFacts
<1>3. NamesAreKept(text, n, parsed)
  BY <1>1 DEF ReadFaithfully, NamesAreKept
<1>4. RulesAreBound(text, n, parsed)
  <2> SUFFICES ASSUME NEW k \in DOMAIN parsed.groups, NEW m \in DOMAIN parsed.groups[k].rules
               PROVE  \E i \in 1..n :
                        /\ parsed.groups[k].rules[m] = RuleAt(text, i) /\ IsRule(text, i)
                        /\ \A a \in parsed.groups[k].agents :
                            \E j \in 1..n : IsAgent(text, j, a) /\ Governs(text, j, i)
    BY DEF RulesAreBound
  <2>1. PICK i \in 1..(n - 1) :
            /\ parsed.groups[k].rules[m] = RuleAt(text, i) /\ IsRule(text, i)
            /\ \A a \in parsed.groups[k].agents :
                \E j \in 1..(n - 1) : IsAgent(text, j, a) /\ Governs(text, j, i)
    BY DEF ReadFaithfully, RulesAreBound
  <2>2. i \in 1..n /\ \A a \in parsed.groups[k].agents :
                \E j \in 1..n : IsAgent(text, j, a) /\ Governs(text, j, i)
    BY <1>1, <2>1
  <2>3. QED
    BY <2>1, <2>2
<1>5. OpenAgentsAreNamed(text, n, parsed)
  BY <1>1, <1>2 DEF ReadFaithfully, OpenAgentsAreNamed
\* A rule that is dropped binds no one.
<1>6. IsRule(text, n) => \A j \in 1..(n - 1) : \A a \in Agents :
            ~(IsAgent(text, j, a) /\ StillOpen(text, j, n - 1))
  <2>1. \A j \in 1..(n - 1) : \A a \in Agents : IsAgent(text, j, a) => text[j].field = "user-agent"
    BY DEF IsAgent
  <2>2. QED
    BY <2>1 DEF ReadFaithfully, OpenAgentsAreNamed, Drops
<1>7. RulesAreKept(text, n, parsed)
  <2> SUFFICES ASSUME NEW i \in 1..n, NEW j \in 1..n, NEW a \in Agents,
                      IsAgent(text, j, a), Governs(text, j, i)
               PROVE  \E k \in DOMAIN parsed.groups :
                        /\ a \in parsed.groups[k].agents
                        /\ \E m \in DOMAIN parsed.groups[k].rules :
                            parsed.groups[k].rules[m] = RuleAt(text, i)
    BY DEF RulesAreKept
  <2>1. j < i /\ IsRule(text, i) /\ StillOpen(text, j, i - 1)
    BY GovernsFacts
  <2>2. i # n
    BY <1>1, <1>6, <2>1
  <2>3. i \in 1..(n - 1) /\ j \in 1..(n - 1)
    BY <1>1, <2>1, <2>2
  <2>4. QED
    BY <2>3 DEF ReadFaithfully, RulesAreKept
<1>8. RulesAreNoticed(text, n, parsed)
  <2>1. ASSUME parsed.hasRules
        PROVE  \E k \in 1..n :
                IsRule(text, k) /\ \A l \in (k + 1)..n : text[l].field # "user-agent"
    <3>1. PICK k \in 1..(n - 1) :
              IsRule(text, k) /\ \A l \in (k + 1)..(n - 1) : text[l].field # "user-agent"
      BY <2>1 DEF ReadFaithfully, RulesAreNoticed
    <3>2. \A l \in (k + 1)..n : l = n \/ l \in (k + 1)..(n - 1)
      OBVIOUS
    <3>3. QED
      BY <1>1, <3>1, <3>2
  <2>2. ASSUME ~parsed.hasRules, NEW j \in 1..n, NEW a \in Agents,
               IsAgent(text, j, a), StillOpen(text, j, n), NEW k \in (j + 1)..n
        PROVE  ~IsRule(text, k)
    <3>1. j \in 1..(n - 1) /\ StillOpen(text, j, n - 1)
      BY <1>1, <1>2, <2>2
    <3>2. CASE k = n
      BY <1>6, <2>2, <3>1, <3>2
    <3>3. CASE k # n
      <4>1. k \in (j + 1)..(n - 1)
        BY <3>3
      <4>2. QED
        BY <2>2, <3>1, <4>1 DEF ReadFaithfully, RulesAreNoticed
    <3>4. QED
      BY <3>2, <3>3
  <2>3. QED
    BY <2>1, <2>2 DEF ReadFaithfully, RulesAreNoticed
<1>9. QED
  BY <1>3, <1>4, <1>5, <1>7, <1>8 DEF ReadFaithfully

\* A rule joins the open group, whose agents it binds.
LEMMA RuleLineFaithful ==
    ASSUME NEW text \in Seq(Line), NEW n \in 1..Len(text), NEW parsed \in Parsed,
           ReadFaithfully(text, n - 1, parsed), IsRule(text, n), ~Drops(parsed),
           NEW q, q = ReadRule(parsed, text[n], n)
    PROVE  ReadFaithfully(text, n, q)
<1> DEFINE last == Len(parsed.groups)
<1>1. /\ n \in Nat \ {0} /\ 1..(n - 1) \subseteq 1..n /\ n \in 1..n
      /\ \A j \in 1..n : j # n => j \in 1..(n - 1)
      /\ text[n].field # "user-agent" /\ text[n] \in Line
      /\ \A a \in Agents : ~IsAgent(text, n, a)
  BY DEF IsAgent, IsRule, RuleFields
<1>2. \A j \in 1..(n - 1) : StillOpen(text, j, n) <=> StillOpen(text, j, n - 1)
  BY <1>1, StillOpenFacts
<1>3. /\ q \in Parsed /\ q.groups # <<>> /\ q.hasRules = TRUE /\ Len(q.groups) = last
      /\ \A k \in 1..last : k # last => q.groups[k] = parsed.groups[k]
      /\ OpenGroup(q).agents = OpenGroup(parsed).agents
      /\ OpenGroup(q).rules = Append(OpenGroup(parsed).rules, RuleAt(text, n))
  <2>1. PICK line \in Line, i \in Nat : line = text[n] /\ i = n
    BY <1>1
  <2>2. line.field \in RuleFields /\ RuleAt(text, n) = RuleOf(line, i) /\ q = ReadRule(parsed, line, i)
    BY <2>1 DEF RuleAt, IsRule
  <2>3. q \in Parsed /\ RuleJoins(parsed, q, RuleOf(line, i))
    BY <2>2, ReadRuleFacts
  <2>4. QED
    BY <2>2, <2>3 DEF RuleJoins
<1>4. /\ parsed.groups # <<>> /\ last \in Nat \ {0} /\ OpenGroup(parsed) \in Group
      /\ DOMAIN parsed.groups = 1..last /\ DOMAIN q.groups = 1..last
      /\ OpenGroup(parsed) = parsed.groups[last] /\ OpenGroup(q) = q.groups[last]
  BY <1>3, OpenGroupType DEF Drops, OpenGroup, Parsed
<1>5. /\ \A k \in 1..last : q.groups[k].agents = parsed.groups[k].agents
      /\ \A k \in 1..last : k # last => q.groups[k].rules = parsed.groups[k].rules
  BY <1>3, <1>4
<1>6. PICK size \in Nat : size = Len(parsed.groups[last].rules)
  BY <1>4 DEF Group
<1>7. /\ DOMAIN parsed.groups[last].rules = 1..size
      /\ DOMAIN q.groups[last].rules = 1..(size + 1)
      /\ \A m \in 1..size : q.groups[last].rules[m] = parsed.groups[last].rules[m]
      /\ q.groups[last].rules[size + 1] = RuleAt(text, n)
  <2>1. PICK rs \in Seq(Rule) : rs = parsed.groups[last].rules
    BY <1>4 DEF Group
  <2>2. q.groups[last].rules = Append(rs, RuleAt(text, n))
    BY <1>3, <1>4, <2>1
  <2>3. Len(rs) = size
    BY <1>6, <2>1
  <2>4. PICK us : us = Append(rs, RuleAt(text, n))
    OBVIOUS
  <2>5. /\ DOMAIN rs = 1..size /\ DOMAIN us = 1..(size + 1)
        /\ \A m \in 1..size : us[m] = rs[m]
        /\ us[size + 1] = RuleAt(text, n)
    BY <2>3, <2>4
  <2>6. QED
    BY <2>1, <2>2, <2>4, <2>5
<1> HIDE DEF last
<1>8. /\ NamesAreKept(text, n - 1, parsed) /\ RulesAreBound(text, n - 1, parsed)
      /\ RulesAreKept(text, n - 1, parsed) /\ OpenAgentsAreNamed(text, n - 1, parsed)
      /\ RulesAreNoticed(text, n - 1, parsed)
  BY DEF ReadFaithfully
<1>9. NamesAreKept(text, n, q)
  BY <1>1, <1>4, <1>5, <1>8 DEF NamesAreKept
<1>10. \A a \in Agents : a \in parsed.groups[last].agents
            <=> \E j \in 1..(n - 1) : IsAgent(text, j, a) /\ StillOpen(text, j, n - 1)
  BY <1>4, <1>8 DEF OpenAgentsAreNamed
<1>11. OpenAgentsAreNamed(text, n, q)
  <2>1. \A a \in Agents : a \in q.groups[last].agents
            <=> \E j \in 1..n : IsAgent(text, j, a) /\ StillOpen(text, j, n)
    BY <1>1, <1>2, <1>4, <1>5, <1>10
  <2>2. QED
    BY <1>3, <1>4, <2>1 DEF OpenAgentsAreNamed
<1>12. RulesAreNoticed(text, n, q)
  <2>1. n \in 1..n /\ (n + 1)..n = {}
    BY <1>1
  <2>2. IsRule(text, n) /\ \A l \in (n + 1)..n : text[l].field # "user-agent"
    BY <2>1
  <2>3. QED
    BY <1>3, <2>1, <2>2 DEF RulesAreNoticed
<1>13. RulesAreBound(text, n, q)
  <2> SUFFICES ASSUME NEW k \in 1..last, NEW m \in DOMAIN q.groups[k].rules
               PROVE  \E i \in 1..n :
                        /\ q.groups[k].rules[m] = RuleAt(text, i) /\ IsRule(text, i)
                        /\ \A a \in q.groups[k].agents :
                            \E j \in 1..n : IsAgent(text, j, a) /\ Governs(text, j, i)
    BY <1>4 DEF RulesAreBound
  <2>1. CASE k = last /\ m = size + 1
    <3>1. ASSUME NEW a \in q.groups[k].agents
          PROVE  \E j \in 1..n : IsAgent(text, j, a) /\ Governs(text, j, n)
      <4>1. a \in parsed.groups[last].agents /\ a \in Agents
        BY <1>4, <1>5, <2>1, <3>1 DEF Group
      <4>2. PICK j \in 1..(n - 1) : IsAgent(text, j, a) /\ StillOpen(text, j, n - 1)
        BY <1>10, <4>1
      <4>3. Governs(text, j, n)
        BY <1>1, <4>2, GovernsFacts
      <4>4. QED
        BY <1>1, <4>2, <4>3
    <3>2. q.groups[k].rules[m] = RuleAt(text, n)
      BY <1>7, <2>1
    <3>3. QED
      BY <1>1, <3>1, <3>2
  <2>2. CASE ~(k = last /\ m = size + 1)
    <3>1. m \in DOMAIN parsed.groups[k].rules /\ q.groups[k].rules[m] = parsed.groups[k].rules[m]
      BY <1>5, <1>7, <2>2
    <3>2. PICK i \in 1..(n - 1) :
            /\ parsed.groups[k].rules[m] = RuleAt(text, i) /\ IsRule(text, i)
            /\ \A a \in parsed.groups[k].agents :
                \E j \in 1..(n - 1) : IsAgent(text, j, a) /\ Governs(text, j, i)
      BY <1>4, <1>8, <3>1 DEF RulesAreBound
    <3>3. i \in 1..n /\ \A a \in q.groups[k].agents :
                \E j \in 1..n : IsAgent(text, j, a) /\ Governs(text, j, i)
      BY <1>1, <1>5, <3>2
    <3>4. QED
      BY <3>1, <3>2, <3>3
  <2>3. QED
    BY <2>1, <2>2
<1>14. RulesAreKept(text, n, q)
  <2> SUFFICES ASSUME NEW i \in 1..n, NEW j \in 1..n, NEW a \in Agents,
                      IsAgent(text, j, a), Governs(text, j, i)
               PROVE  \E k \in 1..last :
                        /\ a \in q.groups[k].agents
                        /\ \E m \in DOMAIN q.groups[k].rules :
                            q.groups[k].rules[m] = RuleAt(text, i)
    BY <1>4 DEF RulesAreKept
  <2>1. j < i /\ IsRule(text, i) /\ StillOpen(text, j, i - 1)
    BY GovernsFacts
  <2>2. CASE i = n
    <3>1. a \in q.groups[last].agents
      BY <1>1, <1>4, <1>5, <1>10, <2>1, <2>2
    <3>2. size + 1 \in DOMAIN q.groups[last].rules /\ last \in 1..last
      BY <1>4, <1>7
    <3>3. QED
      BY <1>7, <2>2, <3>1, <3>2
  <2>3. CASE i # n
    <3>1. i \in 1..(n - 1) /\ j \in 1..(n - 1)
      BY <1>1, <2>1, <2>3
    <3>2. PICK k \in 1..last :
              /\ a \in parsed.groups[k].agents
              /\ \E m \in DOMAIN parsed.groups[k].rules : parsed.groups[k].rules[m] = RuleAt(text, i)
      BY <1>4, <1>8, <3>1 DEF RulesAreKept
    <3>3. PICK m \in DOMAIN parsed.groups[k].rules : parsed.groups[k].rules[m] = RuleAt(text, i)
      BY <3>2
    <3>4. m \in DOMAIN q.groups[k].rules /\ q.groups[k].rules[m] = parsed.groups[k].rules[m]
      <4>1. CASE k = last
        <5>1. m \in 1..size /\ 1..size \subseteq 1..(size + 1)
          BY <1>7, <3>3, <4>1
        <5>2. QED
          BY <1>7, <4>1, <5>1
      <4>2. CASE k # last
        BY <1>5, <3>3, <4>2
      <4>3. QED
        BY <4>1, <4>2
    <3>5. QED
      BY <1>5, <3>2, <3>3, <3>4
  <2>4. QED
    BY <2>2, <2>3
<1>15. QED
  BY <1>9, <1>11, <1>12, <1>13, <1>14 DEF ReadFaithfully

\* The first agent after a rule begins a group, and closes every line before it.
LEMMA AgentBeginsFaithful ==
    ASSUME NEW text \in Seq(Line), NEW n \in 1..Len(text), NEW parsed \in Parsed,
           ReadFaithfully(text, n - 1, parsed), text[n].field = "user-agent",
           ClosesGroup(parsed), NEW q, q = ReadAgent(parsed, text[n].value)
    PROVE  ReadFaithfully(text, n, q)
<1> DEFINE last == Len(parsed.groups)
<1>1. /\ n \in Nat \ {0} /\ 1..(n - 1) \subseteq 1..n /\ n \in 1..n
      /\ \A j \in 1..n : j # n => j \in 1..(n - 1)
      /\ ~IsRule(text, n) /\ text[n] \in Line /\ text[n].value \in Agents \cup {Empty}
      /\ text[n] = [field |-> "user-agent", value |-> text[n].value]
  BY LineFacts DEF IsRule, RuleFields
<1>2. PICK v \in Agents \cup {Empty} : v = text[n].value
  BY <1>1
<1>3. q \in Parsed /\ q.groups # <<>> /\ q.hasRules = FALSE /\ AgentBegins(parsed, q, v)
  BY <1>2, ReadAgentFacts
<1>4. /\ last \in Nat
      /\ DOMAIN parsed.groups = 1..last /\ DOMAIN q.groups = 1..(last + 1)
      /\ OpenGroup(q) = q.groups[last + 1]
      /\ \A k \in 1..last : q.groups[k] = parsed.groups[k]
      /\ q.groups[last + 1].agents = NamedBy(v) /\ q.groups[last + 1].rules = <<>>
  BY <1>3 DEF AgentBegins, OpenGroup, Parsed
<1>5. \A a \in Agents : a \in NamedBy(v) <=> IsAgent(text, n, a)
  <2>1. \A a \in Agents : IsAgent(text, n, a) <=> v = a
    BY <1>1, <1>2 DEF IsAgent
  <2>2. Empty \notin Agents
    BY RobotsAssumption DEF Agents, Empty, AnyAgent
  <2>3. QED
    BY <2>1, <2>2 DEF NamedBy
<1> HIDE DEF last
<1>6. /\ NamesAreKept(text, n - 1, parsed) /\ RulesAreBound(text, n - 1, parsed)
      /\ RulesAreKept(text, n - 1, parsed) /\ OpenAgentsAreNamed(text, n - 1, parsed)
      /\ RulesAreNoticed(text, n - 1, parsed)
  BY DEF ReadFaithfully
\* No line before n is still open.
<1>7. \A j \in 1..(n - 1) : text[j].field = "user-agent" => ~StillOpen(text, j, n)
  <2>1. CASE parsed.groups = <<>>
    BY <1>6, <2>1 DEF OpenAgentsAreNamed
  <2>2. CASE parsed.hasRules
    <3>1. PICK k \in 1..(n - 1) :
              IsRule(text, k) /\ \A l \in (k + 1)..(n - 1) : text[l].field # "user-agent"
      BY <1>6, <2>2 DEF RulesAreNoticed
    <3>2. ASSUME NEW j \in 1..(n - 1), text[j].field = "user-agent"
          PROVE  ~StillOpen(text, j, n)
      <4>1. j # k
        BY <3>1, <3>2 DEF IsRule, RuleFields
      <4>2. k \in (j + 1)..(n - 1)
        BY <3>1, <3>2, <4>1
      <4>3. QED
        BY <1>1, <3>1, <4>2, StillOpenFacts
    <3>3. QED
      BY <3>2
  <2>3. QED
    BY <2>1, <2>2 DEF ClosesGroup
<1>8. NamesAreKept(text, n, q)
  <2> SUFFICES ASSUME NEW a \in Agents
               PROVE  (\E k \in 1..(last + 1) : a \in q.groups[k].agents)
                        <=> (\E j \in 1..n : IsAgent(text, j, a))
    BY <1>4 DEF NamesAreKept
  <2>1. (\E k \in 1..last : a \in parsed.groups[k].agents)
            <=> (\E j \in 1..(n - 1) : IsAgent(text, j, a))
    BY <1>4, <1>6 DEF NamesAreKept
  <2>2. (\E k \in 1..(last + 1) : a \in q.groups[k].agents)
            <=> (\E k \in 1..last : a \in q.groups[k].agents) \/ a \in q.groups[last + 1].agents
    BY <1>4
  <2>3. (\E k \in 1..last : a \in q.groups[k].agents)
            <=> (\E k \in 1..last : a \in parsed.groups[k].agents)
    BY <1>4
  <2>4. (\E j \in 1..n : IsAgent(text, j, a))
            <=> (\E j \in 1..(n - 1) : IsAgent(text, j, a)) \/ IsAgent(text, n, a)
    BY <1>1
  <2>5. QED
    BY <1>4, <1>5, <2>1, <2>2, <2>3, <2>4
<1>9. OpenAgentsAreNamed(text, n, q)
  <2>1. \A j \in 1..(n - 1) : \A a \in Agents : ~(IsAgent(text, j, a) /\ StillOpen(text, j, n))
    BY <1>7 DEF IsAgent
  <2>2. StillOpen(text, n, n)
    BY <1>1, StillOpenFacts
  <2>3. \A a \in Agents : a \in NamedBy(v) <=>
            \E j \in 1..n : IsAgent(text, j, a) /\ StillOpen(text, j, n)
    BY <1>1, <1>5, <2>1, <2>2
  <2>4. QED
    BY <1>3, <1>4, <2>3 DEF OpenAgentsAreNamed
<1>10. RulesAreNoticed(text, n, q)
  <2>1. ASSUME NEW j \in 1..n, NEW a \in Agents,
               IsAgent(text, j, a), StillOpen(text, j, n), NEW k \in (j + 1)..n
        PROVE  ~IsRule(text, k)
    <3>1. j = n
      BY <1>1, <1>7, <2>1 DEF IsAgent
    <3>2. QED
      BY <1>1, <2>1, <3>1
  <2>2. QED
    BY <1>3, <1>4, <2>1 DEF RulesAreNoticed
<1>11. RulesAreBound(text, n, q)
  <2> SUFFICES ASSUME NEW k \in 1..(last + 1), NEW m \in DOMAIN q.groups[k].rules
               PROVE  \E i \in 1..n :
                        /\ q.groups[k].rules[m] = RuleAt(text, i) /\ IsRule(text, i)
                        /\ \A a \in q.groups[k].agents :
                            \E j \in 1..n : IsAgent(text, j, a) /\ Governs(text, j, i)
    BY <1>4 DEF RulesAreBound
  <2>1. k \in 1..last
    BY <1>4
  <2>2. PICK i \in 1..(n - 1) :
            /\ q.groups[k].rules[m] = RuleAt(text, i) /\ IsRule(text, i)
            /\ \A a \in q.groups[k].agents :
                \E j \in 1..(n - 1) : IsAgent(text, j, a) /\ Governs(text, j, i)
    BY <1>4, <1>6, <2>1 DEF RulesAreBound
  <2>3. QED
    BY <1>1, <2>2
<1>12. RulesAreKept(text, n, q)
  <2> SUFFICES ASSUME NEW i \in 1..n, NEW j \in 1..n, NEW a \in Agents,
                      IsAgent(text, j, a), Governs(text, j, i)
               PROVE  \E k \in DOMAIN q.groups :
                        /\ a \in q.groups[k].agents
                        /\ \E m \in DOMAIN q.groups[k].rules :
                            q.groups[k].rules[m] = RuleAt(text, i)
    BY DEF RulesAreKept
  <2>1. j < i /\ IsRule(text, i) /\ StillOpen(text, j, i - 1)
    BY GovernsFacts
  <2>2. i \in 1..(n - 1) /\ j \in 1..(n - 1)
    BY <1>1, <2>1
  <2>3. PICK k \in 1..last :
            /\ a \in parsed.groups[k].agents
            /\ \E m \in DOMAIN parsed.groups[k].rules : parsed.groups[k].rules[m] = RuleAt(text, i)
    BY <1>4, <1>6, <2>2 DEF RulesAreKept
  <2>4. k \in DOMAIN q.groups /\ q.groups[k] = parsed.groups[k]
    BY <1>4
  <2>5. QED
    BY <2>3, <2>4
<1>13. QED
  BY <1>8, <1>9, <1>10, <1>11, <1>12 DEF ReadFaithfully

\* An agent before the group's first rule joins it, and closes no line of it.
LEMMA AgentJoinsFaithful ==
    ASSUME NEW text \in Seq(Line), NEW n \in 1..Len(text), NEW parsed \in Parsed,
           ReadFaithfully(text, n - 1, parsed), text[n].field = "user-agent",
           ~ClosesGroup(parsed), NEW q, q = ReadAgent(parsed, text[n].value)
    PROVE  ReadFaithfully(text, n, q)
<1> DEFINE last == Len(parsed.groups)
<1>1. /\ n \in Nat \ {0} /\ 1..(n - 1) \subseteq 1..n /\ n \in 1..n
      /\ \A j \in 1..n : j # n => j \in 1..(n - 1)
      /\ ~IsRule(text, n) /\ text[n] \in Line /\ text[n].value \in Agents \cup {Empty}
      /\ text[n] = [field |-> "user-agent", value |-> text[n].value]
  BY LineFacts DEF IsRule, RuleFields
<1>2. PICK v \in Agents \cup {Empty} : v = text[n].value
  BY <1>1
<1>3. q \in Parsed /\ q.groups # <<>> /\ q.hasRules = FALSE /\ AgentJoins(parsed, q, v)
  BY <1>2, ReadAgentFacts
<1>4. /\ parsed.groups # <<>> /\ ~parsed.hasRules /\ last \in Nat \ {0}
      /\ DOMAIN parsed.groups = 1..last /\ DOMAIN q.groups = 1..last
      /\ OpenGroup(q) = q.groups[last] /\ OpenGroup(parsed) = parsed.groups[last]
      /\ \A k \in 1..last : k # last => q.groups[k] = parsed.groups[k]
      /\ \A k \in 1..last : q.groups[k].rules = parsed.groups[k].rules
      /\ q.groups[last].agents = parsed.groups[last].agents \cup NamedBy(v)
  BY <1>3 DEF AgentJoins, OpenGroup, Parsed, ClosesGroup
<1>5. \A a \in Agents : a \in NamedBy(v) <=> IsAgent(text, n, a)
  <2>1. \A a \in Agents : IsAgent(text, n, a) <=> v = a
    BY <1>1, <1>2 DEF IsAgent
  <2>2. Empty \notin Agents
    BY RobotsAssumption DEF Agents, Empty, AnyAgent
  <2>3. QED
    BY <2>1, <2>2 DEF NamedBy
<1> HIDE DEF last
<1>6. /\ NamesAreKept(text, n - 1, parsed) /\ RulesAreBound(text, n - 1, parsed)
      /\ RulesAreKept(text, n - 1, parsed) /\ OpenAgentsAreNamed(text, n - 1, parsed)
      /\ RulesAreNoticed(text, n - 1, parsed)
  BY DEF ReadFaithfully
<1>7. parsed.groups[last].rules = <<>> /\ last \in 1..last
  BY <1>4, <1>6 DEF RulesAreNoticed
\* The named lines still open stay so.
<1>8. \A j \in 1..(n - 1) : \A a \in Agents : IsAgent(text, j, a) =>
            (StillOpen(text, j, n) <=> StillOpen(text, j, n - 1))
  BY <1>1, <1>4, <1>6, StillOpenFacts DEF RulesAreNoticed
<1>9. \A a \in Agents : a \in parsed.groups[last].agents
            <=> \E j \in 1..(n - 1) : IsAgent(text, j, a) /\ StillOpen(text, j, n - 1)
  BY <1>4, <1>6 DEF OpenAgentsAreNamed
<1>10. NamesAreKept(text, n, q)
  <2> SUFFICES ASSUME NEW a \in Agents
               PROVE  (\E k \in 1..last : a \in q.groups[k].agents)
                        <=> (\E j \in 1..n : IsAgent(text, j, a))
    BY <1>4 DEF NamesAreKept
  <2>1. (\E k \in 1..last : a \in parsed.groups[k].agents)
            <=> (\E j \in 1..(n - 1) : IsAgent(text, j, a))
    BY <1>4, <1>6 DEF NamesAreKept
  <2>2. (\E k \in 1..last : a \in q.groups[k].agents)
            <=> (\E k \in 1..last : a \in parsed.groups[k].agents) \/ a \in NamedBy(v)
    BY <1>4, <1>7
  <2>3. (\E j \in 1..n : IsAgent(text, j, a))
            <=> (\E j \in 1..(n - 1) : IsAgent(text, j, a)) \/ IsAgent(text, n, a)
    BY <1>1
  <2>4. QED
    BY <1>5, <2>1, <2>2, <2>3
<1>11. OpenAgentsAreNamed(text, n, q)
  <2>1. StillOpen(text, n, n)
    BY <1>1, StillOpenFacts
  <2>2. ASSUME NEW a \in Agents
        PROVE  a \in q.groups[last].agents <=>
                    \E j \in 1..n : IsAgent(text, j, a) /\ StillOpen(text, j, n)
    <3>1. (\E j \in 1..n : IsAgent(text, j, a) /\ StillOpen(text, j, n)) <=>
              \/ \E j \in 1..(n - 1) : IsAgent(text, j, a) /\ StillOpen(text, j, n - 1)
              \/ IsAgent(text, n, a)
      BY <1>1, <1>8, <2>1
    <3>2. QED
      BY <1>4, <1>5, <1>9, <3>1
  <2>3. QED
    BY <1>3, <1>4, <2>2 DEF OpenAgentsAreNamed
<1>12. RulesAreNoticed(text, n, q)
  <2>1. ASSUME NEW j \in 1..n, NEW a \in Agents,
               IsAgent(text, j, a), StillOpen(text, j, n), NEW k \in (j + 1)..n
        PROVE  ~IsRule(text, k)
    <3>1. CASE k = n
      BY <1>1, <3>1
    <3>2. CASE k # n
      <4>1. j \in 1..(n - 1) /\ k \in (j + 1)..(n - 1)
        BY <1>1, <3>2
      <4>2. QED
        BY <1>4, <1>6, <1>8, <2>1, <4>1 DEF RulesAreNoticed
    <3>3. QED
      BY <3>1, <3>2
  <2>2. OpenGroup(q).rules = <<>>
    BY <1>4, <1>7
  <2>3. QED
    BY <1>3, <2>1, <2>2 DEF RulesAreNoticed
<1>13. RulesAreBound(text, n, q)
  <2> SUFFICES ASSUME NEW k \in 1..last, NEW m \in DOMAIN q.groups[k].rules
               PROVE  \E i \in 1..n :
                        /\ q.groups[k].rules[m] = RuleAt(text, i) /\ IsRule(text, i)
                        /\ \A a \in q.groups[k].agents :
                            \E j \in 1..n : IsAgent(text, j, a) /\ Governs(text, j, i)
    BY <1>4 DEF RulesAreBound
  <2>1. k # last /\ q.groups[k] = parsed.groups[k]
    BY <1>4, <1>7
  <2>2. PICK i \in 1..(n - 1) :
            /\ q.groups[k].rules[m] = RuleAt(text, i) /\ IsRule(text, i)
            /\ \A a \in q.groups[k].agents :
                \E j \in 1..(n - 1) : IsAgent(text, j, a) /\ Governs(text, j, i)
    BY <1>4, <1>6, <2>1 DEF RulesAreBound
  <2>3. QED
    BY <1>1, <2>2
<1>14. RulesAreKept(text, n, q)
  <2> SUFFICES ASSUME NEW i \in 1..n, NEW j \in 1..n, NEW a \in Agents,
                      IsAgent(text, j, a), Governs(text, j, i)
               PROVE  \E k \in DOMAIN q.groups :
                        /\ a \in q.groups[k].agents
                        /\ \E m \in DOMAIN q.groups[k].rules :
                            q.groups[k].rules[m] = RuleAt(text, i)
    BY DEF RulesAreKept
  <2>1. j < i /\ IsRule(text, i) /\ StillOpen(text, j, i - 1)
    BY GovernsFacts
  <2>2. i \in 1..(n - 1) /\ j \in 1..(n - 1)
    BY <1>1, <2>1
  <2>3. PICK k \in 1..last :
            /\ a \in parsed.groups[k].agents
            /\ \E m \in DOMAIN parsed.groups[k].rules : parsed.groups[k].rules[m] = RuleAt(text, i)
    BY <1>4, <1>6, <2>2 DEF RulesAreKept
  <2>4. k \in DOMAIN q.groups /\ a \in q.groups[k].agents /\ q.groups[k].rules = parsed.groups[k].rules
    BY <1>4, <2>3
  <2>5. QED
    BY <2>3, <2>4
<1>15. QED
  BY <1>10, <1>11, <1>12, <1>13, <1>14 DEF ReadFaithfully

\* What ParseRobotsTxt returns is faithful to the whole file.
LEMMA ParsedFaithfully ==
    ASSUME NEW text \in Seq(Line)
    PROVE  /\ Readings(text)[Len(text)] \in Parsed
           /\ ReadFaithfully(text, Len(text), Readings(text)[Len(text)])
<1> DEFINE S == {i \in 0..Len(text) : ReadFaithfully(text, i, Readings(text)[i])}
<1>1. /\ Readings(text) \in [0..Len(text) -> Parsed]
      /\ Readings(text)[0] = NothingRead
      /\ \A i \in 1..Len(text) :
            Readings(text)[i] = ReadLine(Readings(text)[i - 1], text[i], i)
  BY ReadingsFacts
<1>2. 0 \in S
  <2>1. NothingRead.groups = <<>> /\ NothingRead.hasRules = FALSE
    BY DEF NothingRead
  <2>2. ReadFaithfully(text, 0, NothingRead)
    BY <2>1 DEF ReadFaithfully, NamesAreKept, RulesAreBound, RulesAreKept, OpenAgentsAreNamed,
                RulesAreNoticed
  <2>3. QED
    BY <1>1, <2>2
<1>3. ASSUME NEW n \in 1..Len(text), n - 1 \in S
      PROVE  n \in S
  <2>1. PICK parsed \in Parsed : parsed = Readings(text)[n - 1]
    BY <1>1
  <2>2. PICK q : q = ReadLine(parsed, text[n], n)
    OBVIOUS
  <2>3. ReadFaithfully(text, n - 1, parsed) /\ q = Readings(text)[n] /\ text[n] \in Line
    BY <1>1, <1>3, <2>1, <2>2
  <2> SUFFICES ReadFaithfully(text, n, q)
    BY <2>3
  <2> HIDE DEF S
  <2>4. CASE text[n].field = "user-agent"
    <3>1. q = ReadAgent(parsed, text[n].value)
      BY <2>2, <2>4 DEF ReadLine, RuleFields
    <3>2. QED
      BY <2>3, <2>4, <3>1, AgentBeginsFaithful, AgentJoinsFaithful
  <2>5. CASE IsRule(text, n) /\ Drops(parsed)
    <3>1. text[n].field # "user-agent" /\ q = parsed
      BY <2>2, <2>5 DEF ReadLine, ReadRule, RuleFields, IsRule, Drops
    <3>2. QED
      BY <2>3, <2>5, <3>1, OtherLineFaithful
  <2>6. CASE IsRule(text, n) /\ ~Drops(parsed)
    <3>1. q = ReadRule(parsed, text[n], n)
      BY <2>2, <2>6 DEF ReadLine, RuleFields, IsRule
    <3>2. QED
      BY <2>3, <2>6, <3>1, RuleLineFaithful
  <2>7. CASE text[n].field # "user-agent" /\ ~IsRule(text, n)
    <3>1. q = parsed
      BY <2>2, <2>7 DEF ReadLine, IsRule
    <3>2. QED
      BY <2>3, <2>7, <3>1, OtherLineFaithful
  <2>8. QED
    BY <2>4, <2>5, <2>6, <2>7
<1>4. \A i \in 0..Len(text) : i \in S
  <2> HIDE DEF S
  <2>1. Len(text) \in Nat
    OBVIOUS
  <2>2. QED
    BY <1>2, <1>3, <2>1, CountingUp
<1>5. QED
  BY <1>1, <1>4

-----------------------------------------------------------------------------
(* Robots: the rules that apply, and the best of them *)

LEMMA RulesUpToFacts ==
    ASSUME NEW groups \in Seq(Group), NEW applicable
    PROVE  /\ RulesUpTo(groups, applicable)[0] = <<>>
           /\ \A k \in 1..Len(groups) :
                RulesUpTo(groups, applicable)[k] =
                    IF k \in applicable
                    THEN RulesUpTo(groups, applicable)[k - 1] \o groups[k].rules
                    ELSE RulesUpTo(groups, applicable)[k - 1]
<1>1. PICK F : F = [k \in 1..Len(groups) |-> [rs \in Seq(Rule) |->
                        IF k \in applicable THEN rs \o groups[k].rules ELSE rs]]
  OBVIOUS
<1>2. PICK n \in Nat : n = Len(groups)
  OBVIOUS
<1>3. F \in [1..n -> [Seq(Rule) -> Seq(Rule)]]
  <2>1. \A k \in 1..n : \A rs \in Seq(Rule) : rs \o groups[k].rules \in Seq(Rule)
    <3>1. \A k \in 1..n : groups[k] \in Group
      BY <1>2
    <3>2. \A k \in 1..n : groups[k].rules \in Seq(Rule)
      BY <3>1 DEF Group
    <3>3. QED
      BY <3>2
  <2>2. QED
    BY <1>1, <1>2, <2>1
<1>4. <<>> \in Seq(Rule)
  OBVIOUS
<1>5. PICK g \in [0..n -> Seq(Rule)] : Recurs(g, n, <<>>, F)
  <2> HIDE <1>1
  <2>1. QED
    BY <1>3, <1>4, Recursion
<1>6. ASSUME NEW k \in 0..n, k # 0
      PROVE  F[k][g[k - 1]] = IF k \in applicable THEN g[k - 1] \o groups[k].rules ELSE g[k - 1]
  <2>1. k \in 1..n /\ g[k - 1] \in Seq(Rule)
    BY <1>6
  <2>2. QED
    BY <1>1, <1>2, <2>1
<1>7. g = [k \in 0..n |-> IF k = 0 THEN <<>> ELSE
              IF k \in applicable THEN g[k - 1] \o groups[k].rules ELSE g[k - 1]]
  <2>1. g = [k \in 0..n |-> IF k = 0 THEN <<>> ELSE F[k][g[k - 1]]]
    BY <1>5 DEF Recurs
  <2>2. [k \in 0..n |-> IF k = 0 THEN <<>> ELSE F[k][g[k - 1]]] =
            [k \in 0..n |-> IF k = 0 THEN <<>> ELSE
                IF k \in applicable THEN g[k - 1] \o groups[k].rules ELSE g[k - 1]]
    BY <1>6
  <2>3. QED
    BY <2>1, <2>2
<1>8. RulesUpTo(groups, applicable) = [k \in 0..n |-> IF k = 0 THEN <<>> ELSE
              IF k \in applicable THEN RulesUpTo(groups, applicable)[k - 1] \o groups[k].rules
              ELSE RulesUpTo(groups, applicable)[k - 1]]
  BY <1>2, <1>7 DEF RulesUpTo
<1>9. PICK all : all = RulesUpTo(groups, applicable)
  OBVIOUS
<1>10. 0 \in 0..n /\ \A k \in 1..n : k \in 0..n /\ k # 0
  OBVIOUS
<1>11. QED
  BY <1>2, <1>8, <1>9, <1>10

\* Rule r is among the first n of the groups that apply.
Contributes(groups, applicable, n, r) ==
    \E k \in 1..n : k \in applicable /\ \E m \in DOMAIN groups[k].rules : groups[k].rules[m] = r

\* AllRules has the rules of the groups that apply, and no others.
LEMMA AllRulesFacts ==
    ASSUME NEW groups \in Seq(Group), NEW applicable
    PROVE  /\ AllRules(groups, applicable) \in Seq(Rule)
           /\ \A r \in Rule : (\E m \in DOMAIN AllRules(groups, applicable) :
                                    AllRules(groups, applicable)[m] = r)
                                <=> Contributes(groups, applicable, Len(groups), r)
<1> DEFINE upTo == RulesUpTo(groups, applicable)
           Has(rs, r) == \E m \in DOMAIN rs : rs[m] = r
           Good(n) == /\ upTo[n] \in Seq(Rule)
                      /\ \A r \in Rule : Has(upTo[n], r) <=> Contributes(groups, applicable, n, r)
           S == {n \in 0..Len(groups) : Good(n)}
<1>1. 0 \in S
  <2>1. upTo[0] = <<>>
    BY RulesUpToFacts
  <2>2. \A r \in Rule : ~Contributes(groups, applicable, 0, r)
    BY DEF Contributes
  <2>3. <<>> \in Seq(Rule) /\ \A r : ~Has(<<>>, r)
    OBVIOUS
  <2> HIDE DEF upTo, Has
  <2>4. Good(0)
    BY <2>1, <2>2, <2>3
  <2>5. 0 \in 0..Len(groups)
    OBVIOUS
  <2> HIDE DEF Good
  <2>6. QED
    BY <2>4, <2>5
<1>2. ASSUME NEW n \in 1..Len(groups), n - 1 \in S
      PROVE  n \in S
  <2>1. upTo[n] = IF n \in applicable THEN upTo[n - 1] \o groups[n].rules ELSE upTo[n - 1]
    BY RulesUpToFacts
  <2>2. PICK rs \in Seq(Rule) : rs = upTo[n - 1]
    BY <1>2
  <2>3. PICK us \in Seq(Rule) : us = groups[n].rules
    <3>1. groups[n] \in Group
      OBVIOUS
    <3>2. QED
      BY <3>1 DEF Group
  <2>4. \A r \in Rule : Has(rs, r) <=> Contributes(groups, applicable, n - 1, r)
    BY <1>2, <2>2
  <2>5. \A r : Contributes(groups, applicable, n, r) <=>
            \/ Contributes(groups, applicable, n - 1, r)
            \/ n \in applicable /\ Has(us, r)
    <3>1. 1..n = (1..(n - 1)) \cup {n}
      OBVIOUS
    <3>2. QED
      BY <2>3, <3>1 DEF Contributes
  <2>6. \A r : Has(rs \o us, r) <=> Has(rs, r) \/ Has(us, r)
    <3>1. PICK vs : vs = rs \o us
      OBVIOUS
    <3>2. /\ DOMAIN rs = 1..Len(rs) /\ DOMAIN us = 1..Len(us) /\ DOMAIN vs = 1..(Len(rs) + Len(us))
          /\ Len(rs) \in Nat /\ Len(us) \in Nat
          /\ \A m \in 1..Len(rs) : vs[m] = rs[m]
          /\ \A m \in 1..Len(us) : vs[Len(rs) + m] = us[m]
      BY <3>1
    <3>3. \A m \in 1..(Len(rs) + Len(us)) :
              m \in 1..Len(rs) \/ (m - Len(rs) \in 1..Len(us) /\ m = Len(rs) + (m - Len(rs)))
      BY <3>2
    <3>4. /\ \A m \in 1..Len(rs) : m \in 1..(Len(rs) + Len(us))
          /\ \A m \in 1..Len(us) : Len(rs) + m \in 1..(Len(rs) + Len(us))
      BY <3>2
    <3>5. ASSUME NEW r, Has(vs, r)
          PROVE  Has(rs, r) \/ Has(us, r)
      <4>1. PICK m \in 1..(Len(rs) + Len(us)) : vs[m] = r
        BY <3>2, <3>5
      <4>2. CASE m \in 1..Len(rs)
        BY <3>2, <4>1, <4>2
      <4>3. CASE m \notin 1..Len(rs)
        <5>1. PICK l \in 1..Len(us) : m = Len(rs) + l
          BY <3>3, <4>3
        <5>2. us[l] = r
          BY <3>2, <4>1, <5>1
        <5>3. QED
          BY <3>2, <5>2
      <4>4. QED
        BY <4>2, <4>3
    <3>6. ASSUME NEW r, Has(rs, r) \/ Has(us, r)
          PROVE  Has(vs, r)
      <4>1. CASE Has(rs, r)
        <5>1. PICK m \in 1..Len(rs) : rs[m] = r
          BY <3>2, <4>1
        <5>2. QED
          BY <3>2, <3>4, <5>1
      <4>2. CASE Has(us, r)
        <5>1. PICK m \in 1..Len(us) : us[m] = r
          BY <3>2, <4>2
        <5>2. QED
          BY <3>2, <3>4, <5>1
      <4>3. QED
        BY <3>6, <4>1, <4>2
    <3> HIDE DEF Has
    <3>7. QED
      BY <3>1, <3>5, <3>6
  <2>7. rs \o us \in Seq(Rule)
    OBVIOUS
  <2> HIDE DEF Has, upTo
  <2>8. Good(n)
    <3>1. CASE n \in applicable
      <4>1. upTo[n] = rs \o us
        BY <2>1, <2>2, <2>3, <3>1
      <4>2. QED
        BY <2>4, <2>5, <2>6, <2>7, <3>1, <4>1
    <3>2. CASE n \notin applicable
      BY <2>1, <2>2, <2>4, <2>5, <3>2
    <3>3. QED
      BY <3>1, <3>2
  <2>9. QED
    BY <2>8
<1>3. \A n \in 0..Len(groups) : n \in S
  <2> HIDE DEF S
  <2>1. Len(groups) \in Nat
    OBVIOUS
  <2>2. QED
    BY <1>1, <1>2, <2>1, CountingUp
<1>4. Len(groups) \in 0..Len(groups)
  OBVIOUS
<1>5. QED
  BY <1>3, <1>4 DEF AllRules

Hits(rule) == rule.pattern \in Matching

\* No rule is longer than best, and none of its length allows where it does not.
IsBest(rules, n, best) ==
    /\ \E m \in 1..n : best = rules[m] /\ Hits(rules[m])
    /\ \A m \in 1..n : Hits(rules[m]) =>
        /\ Specificity(rules[m]) <= Specificity(best)
        /\ Specificity(rules[m]) = Specificity(best) /\ rules[m].type = "allow" =>
                best.type = "allow"

LEMMA BestUpToFacts ==
    ASSUME NEW rules \in Seq(Rule)
    PROVE  /\ BestUpTo(rules)[0] = NoRule
           /\ \A i \in 1..Len(rules) : BestUpTo(rules)[i] =
                IF /\ rules[i].pattern \in Matching
                   /\ BestUpTo(rules)[i - 1] = NoRule \/ IsBetter(rules[i], BestUpTo(rules)[i - 1])
                THEN rules[i] ELSE BestUpTo(rules)[i - 1]
<1> DEFINE V == Rule \cup {NoRule}
<1>1. PICK F : F = [i \in 1..Len(rules) |-> [b \in V |->
                        IF /\ rules[i].pattern \in Matching
                           /\ b = NoRule \/ IsBetter(rules[i], b)
                        THEN rules[i] ELSE b]]
  OBVIOUS
<1>2. PICK n \in Nat : n = Len(rules)
  OBVIOUS
<1>3. F \in [1..n -> [V -> V]]
  <2>1. \A i \in 1..n : rules[i] \in V
    BY <1>2
  <2> HIDE DEF V
  <2>2. QED
    BY <1>1, <1>2, <2>1
<1>4. NoRule \in V
  OBVIOUS
<1> HIDE DEF V
<1>5. PICK g \in [0..n -> V] : Recurs(g, n, NoRule, F)
  <2> HIDE <1>1
  <2>1. QED
    BY <1>3, <1>4, Recursion
<1>6. ASSUME NEW i \in 0..n, i # 0
      PROVE  F[i][g[i - 1]] = IF /\ rules[i].pattern \in Matching
                                 /\ g[i - 1] = NoRule \/ IsBetter(rules[i], g[i - 1])
                              THEN rules[i] ELSE g[i - 1]
  <2>1. i \in 1..n /\ g[i - 1] \in V
    BY <1>6
  <2>2. QED
    BY <1>1, <1>2, <2>1
<1>7. g = [i \in 0..n |-> IF i = 0 THEN NoRule ELSE
              IF /\ rules[i].pattern \in Matching
                 /\ g[i - 1] = NoRule \/ IsBetter(rules[i], g[i - 1])
              THEN rules[i] ELSE g[i - 1]]
  <2>1. g = [i \in 0..n |-> IF i = 0 THEN NoRule ELSE F[i][g[i - 1]]]
    BY <1>5 DEF Recurs
  <2>2. [i \in 0..n |-> IF i = 0 THEN NoRule ELSE F[i][g[i - 1]]] =
            [i \in 0..n |-> IF i = 0 THEN NoRule ELSE
                IF /\ rules[i].pattern \in Matching
                   /\ g[i - 1] = NoRule \/ IsBetter(rules[i], g[i - 1])
                THEN rules[i] ELSE g[i - 1]]
    BY <1>6
  <2>3. QED
    BY <2>1, <2>2
<1>8. BestUpTo(rules) = [i \in 0..n |-> IF i = 0 THEN NoRule ELSE
              IF /\ rules[i].pattern \in Matching
                 /\ BestUpTo(rules)[i - 1] = NoRule \/ IsBetter(rules[i], BestUpTo(rules)[i - 1])
              THEN rules[i] ELSE BestUpTo(rules)[i - 1]]
  BY <1>2, <1>7 DEF BestUpTo
<1>9. PICK all : all = BestUpTo(rules)
  OBVIOUS
<1>10. 0 \in 0..n /\ \A i \in 1..n : i \in 0..n /\ i # 0
  OBVIOUS
<1>11. QED
  BY <1>2, <1>8, <1>9, <1>10

\* BestRule finds the best of those that hit, and finds one if there is one.
LEMMA BestRuleFacts ==
    ASSUME NEW rules \in Seq(Rule)
    PROVE  \/ BestRule(rules) = NoRule /\ \A m \in DOMAIN rules : ~Hits(rules[m])
           \/ BestRule(rules) # NoRule /\ IsBest(rules, Len(rules), BestRule(rules))
<1> DEFINE best == BestUpTo(rules)
           Good(n) == \/ best[n] = NoRule /\ \A m \in 1..n : ~Hits(rules[m])
                      \/ best[n] # NoRule /\ IsBest(rules, n, best[n])
           S == {n \in 0..Len(rules) : Good(n)}
<1>1. 0 \in S
  <2>1. best[0] = NoRule
    BY BestUpToFacts
  <2>2. QED
    BY <2>1
<1>2. ASSUME NEW n \in 1..Len(rules), n - 1 \in S
      PROVE  n \in S
  <2>1. best[n] = IF Hits(rules[n]) /\ (best[n - 1] = NoRule \/ IsBetter(rules[n], best[n - 1]))
                  THEN rules[n] ELSE best[n - 1]
    BY BestUpToFacts DEF Hits
  <2>2. /\ 1..n = (1..(n - 1)) \cup {n}
        /\ \A m \in 1..n : /\ rules[m] \in Rule /\ rules[m].type \in RuleFields
                           /\ Specificity(rules[m]) \in Nat
    <3>1. \A m \in 1..n : rules[m] \in Rule
      OBVIOUS
    <3>2. \A r \in Rule : r.type \in RuleFields /\ r.pattern \in Patterns
      BY DEF Rule
    <3>3. QED
      BY <3>1, <3>2, RobotsAssumption DEF Specificity
  <2>3. rules[n] # NoRule /\ n \in 1..n
    <3>1. rules[n].type # NoRule.type
      BY <2>2 DEF NoRule, RuleFields
    <3>2. QED
      BY <3>1
  <2>4. PICK old : old = best[n - 1]
    OBVIOUS
  <2>5. \/ old = NoRule /\ \A m \in 1..(n - 1) : ~Hits(rules[m])
        \/ old # NoRule /\ IsBest(rules, n - 1, old)
    BY <1>2, <2>4
  <2>6. PICK new : new = best[n]
    OBVIOUS
  <2>7. new = IF Hits(rules[n]) /\ (old = NoRule \/ IsBetter(rules[n], old)) THEN rules[n] ELSE old
    BY <2>1, <2>4, <2>6
  <2> HIDE DEF best
  <2> SUFFICES \/ new = NoRule /\ \A m \in 1..n : ~Hits(rules[m])
               \/ new # NoRule /\ IsBest(rules, n, new)
    BY <2>6
  <2> HIDE DEF S
  <2>8. CASE ~Hits(rules[n])
    <3>1. new = old
      BY <2>7, <2>8
    <3>2. QED
      BY <2>2, <2>5, <2>8, <3>1 DEF IsBest
  <2>9. CASE Hits(rules[n]) /\ old = NoRule
    <3>1. new = rules[n]
      BY <2>7, <2>9
    <3>2. QED
      BY <2>2, <2>3, <2>5, <2>9, <3>1 DEF IsBest
  <2>10. CASE Hits(rules[n]) /\ old # NoRule
    <3>1. PICK m \in 1..(n - 1) : old = rules[m] /\ Hits(rules[m])
      BY <2>5, <2>10 DEF IsBest
    <3>2. /\ Specificity(old) \in Nat /\ Specificity(rules[n]) \in Nat
          /\ old.type \in {"allow", "disallow"}
          /\ m \in 1..n
      BY <2>2, <3>1 DEF RuleFields
    <3>3. CASE IsBetter(rules[n], old)
      <4>1. new = rules[n]
        BY <2>7, <2>10, <3>3
      <4>2. ASSUME NEW l \in 1..n, Hits(rules[l])
            PROVE  /\ Specificity(rules[l]) <= Specificity(new)
                   /\ Specificity(rules[l]) = Specificity(new) /\ rules[l].type = "allow" =>
                            new.type = "allow"
        <5>1. CASE l = n
          BY <2>2, <4>1, <5>1
        <5>2. CASE l # n
          <6>1. /\ Specificity(rules[l]) <= Specificity(old) /\ Specificity(rules[l]) \in Nat
                /\ Specificity(rules[l]) = Specificity(old) /\ rules[l].type = "allow" =>
                        old.type = "allow"
            BY <2>2, <2>5, <2>10, <4>2, <5>2 DEF IsBest
          <6>2. QED
            BY <3>2, <3>3, <4>1, <6>1 DEF IsBetter
        <5>3. QED
          BY <5>1, <5>2
      <4>3. QED
        BY <2>3, <2>10, <4>1, <4>2 DEF IsBest
    <3>4. CASE ~IsBetter(rules[n], old)
      <4>1. new = old
        BY <2>7, <2>10, <3>4
      <4>2. ASSUME NEW l \in 1..n, Hits(rules[l])
            PROVE  /\ Specificity(rules[l]) <= Specificity(new)
                   /\ Specificity(rules[l]) = Specificity(new) /\ rules[l].type = "allow" =>
                            new.type = "allow"
        <5>1. CASE l = n
          BY <3>2, <3>4, <4>1, <5>1 DEF IsBetter
        <5>2. CASE l # n
          BY <2>2, <2>5, <2>10, <4>1, <4>2, <5>2 DEF IsBest
        <5>3. QED
          BY <5>1, <5>2
      <4>3. QED
        BY <2>10, <3>1, <3>2, <4>1, <4>2 DEF IsBest
    <3>5. QED
      BY <3>3, <3>4
  <2>11. QED
    BY <2>8, <2>9, <2>10
<1>3. \A n \in 0..Len(rules) : n \in S
  <2> HIDE DEF S
  <2>1. Len(rules) \in Nat
    OBVIOUS
  <2>2. QED
    BY <1>1, <1>2, <2>1, CountingUp
<1>4. Len(rules) \in 0..Len(rules) /\ DOMAIN rules = 1..Len(rules)
  OBVIOUS
<1>5. QED
  BY <1>3, <1>4 DEF BestRule

-----------------------------------------------------------------------------
(* Robots: what is decided about "/" *)

\* The agent whose rules bind a crawler.
BindingAgent(text, token) == IF Named(text, token) THEN token ELSE AnyAgent

\* The lines of the rules that bind a crawler and match "/".
HitLines(text, token) == {i \in RulesFor(text, token) : text[i].value \in Matching}

\* Line i is among the longest of those, and allows if one of these does.
Decides(text, token, i) ==
    /\ i \in HitLines(text, token)
    /\ \A k \in HitLines(text, token) :
        /\ PatternLength[text[k].value] <= PatternLength[text[i].value]
        /\ /\ PatternLength[text[k].value] = PatternLength[text[i].value]
           /\ text[k].field = "allow"
           => text[i].field = "allow"

LEMMA NamedFacts ==
    ASSUME NEW text \in Seq(Line), NEW agent
    PROVE  Named(text, agent) <=> \E j \in 1..Len(text) : IsAgent(text, j, agent)
<1>1. DOMAIN text = 1..Len(text)
  OBVIOUS
<1>2. QED
  BY <1>1 DEF Named, IsAgent

LEMMA RulesForFacts ==
    ASSUME NEW text \in Seq(Line), NEW token
    PROVE  /\ RulesFor(text, token) \subseteq 1..Len(text)
           /\ \A i \in 1..Len(text) : i \in RulesFor(text, token) <=>
                \E j \in 1..Len(text) :
                    IsAgent(text, j, BindingAgent(text, token)) /\ Governs(text, j, i)
           /\ \A i \in RulesFor(text, token) : IsRule(text, i) /\ RuleAt(text, i) \in Rule
<1>1. DOMAIN text = 1..Len(text) /\ \A i \in 1..Len(text) : text[i] \in Line /\ i \in Nat
  OBVIOUS
<1>2. \A i \in 1..Len(text) : i \in RulesFor(text, token) <=>
        \E j \in 1..Len(text) :
            IsAgent(text, j, BindingAgent(text, token)) /\ Governs(text, j, i)
  BY <1>1 DEF RulesFor, IsAgent, BindingAgent
<1>3. RulesFor(text, token) \subseteq 1..Len(text)
  BY <1>1 DEF RulesFor
<1>4. ASSUME NEW i \in RulesFor(text, token)
      PROVE  IsRule(text, i) /\ RuleAt(text, i) \in Rule
  <2>1. i \in 1..Len(text) /\ \E j \in 1..Len(text) : Governs(text, j, i)
    BY <1>2, <1>3, <1>4
  <2>2. IsRule(text, i)
    BY <2>1 DEF Governs, IsRule
  <2>3. text[i].field \in RuleFields /\ text[i].value \in Patterns /\ i \in Nat
    BY <1>1, <2>1, <2>2, LineFacts DEF IsRule
  <2>4. QED
    BY <2>2, <2>3 DEF RuleAt, RuleOf, Rule
<1>5. QED
  BY <1>2, <1>3, <1>4

\* The groups that apply are those of the agent that binds the crawler, and
\* their rules the lines that bind it.
LEMMA ApplicableFacts ==
    ASSUME NEW text \in Seq(Line), NEW token \in Tokens,
           NEW groups, groups = ParseRobotsTxt(text),
           NEW applicable, applicable = FindApplicableGroups(groups, token)
    PROVE  /\ groups \in Seq(Group)
           /\ applicable # {} <=> Named(text, token) \/ Named(text, AnyAgent)
           /\ \A r \in Rule : Contributes(groups, applicable, Len(groups), r) <=>
                \E i \in RulesFor(text, token) : r = RuleAt(text, i)
<1>1. PICK parsed \in Parsed : parsed.groups = groups /\ ReadFaithfully(text, Len(text), parsed)
  BY ParsedFaithfully DEF ParseRobotsTxt
<1>2. groups \in Seq(Group) /\ DOMAIN groups = 1..Len(groups)
  BY <1>1 DEF Parsed
<1>3. \A a \in Agents : (\E k \in DOMAIN groups : a \in groups[k].agents) <=> Named(text, a)
  BY <1>1, NamedFacts DEF ReadFaithfully, NamesAreKept
<1>4. PICK agent \in Agents : agent = BindingAgent(text, token)
  BY DEF Agents, BindingAgent
<1>5. applicable = {k \in DOMAIN groups : agent \in groups[k].agents}
  <2>1. GroupsNaming(groups, token) # {} <=> Named(text, token)
    BY <1>3 DEF GroupsNaming, Agents
  <2>2. QED
    BY <1>4, <2>1 DEF GroupsNaming, FindApplicableGroups, BindingAgent
<1>6. applicable # {} <=> Named(text, token) \/ Named(text, AnyAgent)
  BY <1>3, <1>4, <1>5 DEF BindingAgent, Agents
<1>7. ASSUME NEW r \in Rule, Contributes(groups, applicable, Len(groups), r)
      PROVE  \E i \in RulesFor(text, token) : r = RuleAt(text, i)
  <2>1. PICK k \in 1..Len(groups) : k \in applicable
                /\ \E m \in DOMAIN groups[k].rules : groups[k].rules[m] = r
    BY <1>7 DEF Contributes
  <2>2. PICK m \in DOMAIN groups[k].rules : groups[k].rules[m] = r
    BY <2>1
  <2>3. PICK i \in 1..Len(text) :
            /\ groups[k].rules[m] = RuleAt(text, i)
            /\ \A a \in groups[k].agents :
                \E j \in 1..Len(text) : IsAgent(text, j, a) /\ Governs(text, j, i)
    BY <1>1, <1>2, <2>1, <2>2 DEF ReadFaithfully, RulesAreBound
  <2>4. agent \in groups[k].agents
    BY <1>5, <2>1
  <2>5. i \in RulesFor(text, token)
    BY <1>4, <2>3, <2>4, RulesForFacts
  <2>6. QED
    BY <2>2, <2>3, <2>5
<1>8. ASSUME NEW i \in RulesFor(text, token)
      PROVE  Contributes(groups, applicable, Len(groups), RuleAt(text, i))
  <2>1. i \in 1..Len(text)
    BY <1>8, RulesForFacts
  <2>2. PICK j \in 1..Len(text) : IsAgent(text, j, agent) /\ Governs(text, j, i)
    BY <1>4, <1>8, <2>1, RulesForFacts
  <2>3. PICK k \in DOMAIN groups : agent \in groups[k].agents
            /\ \E m \in DOMAIN groups[k].rules : groups[k].rules[m] = RuleAt(text, i)
    BY <1>1, <2>1, <2>2 DEF ReadFaithfully, RulesAreKept
  <2>4. QED
    BY <1>2, <1>5, <2>3 DEF Contributes
<1>9. QED
  BY <1>2, <1>6, <1>7, <1>8

\* EvaluateRobots, in terms of the lines of the file.
LEMMA EvaluationFacts ==
    ASSUME NEW text \in Seq(Line), NEW token \in Tokens,
           NEW e, e = EvaluateRobots(ParseRobotsTxt(text), token)
    PROVE  \/ /\ ~Named(text, token) /\ ~Named(text, AnyAgent)
              /\ e = Trace("no_explicit_rule", 0)
           \/ /\ Named(text, token) \/ Named(text, AnyAgent)
              /\ HitLines(text, token) = {}
              /\ e = Trace("allowed", 0)
           \/ /\ Named(text, token) \/ Named(text, AnyAgent)
              /\ \E i \in HitLines(text, token) :
                    /\ Decides(text, token, i)
                    /\ e = Trace(IF text[i].field = "allow" THEN "allowed" ELSE "blocked", i)
<1>1. PICK groups : groups = ParseRobotsTxt(text)
  OBVIOUS
<1>2. PICK applicable : applicable = FindApplicableGroups(groups, token)
  OBVIOUS
<1>3. PICK rules : rules = AllRules(groups, applicable)
  OBVIOUS
<1>4. /\ groups \in Seq(Group)
      /\ applicable # {} <=> Named(text, token) \/ Named(text, AnyAgent)
      /\ \A r \in Rule : Contributes(groups, applicable, Len(groups), r) <=>
            \E i \in RulesFor(text, token) : r = RuleAt(text, i)
  BY <1>1, <1>2, ApplicableFacts
<1>5. /\ rules \in Seq(Rule)
      /\ \A r \in Rule : (\E m \in DOMAIN rules : rules[m] = r) <=>
            \E i \in RulesFor(text, token) : r = RuleAt(text, i)
  BY <1>3, <1>4, AllRulesFacts
<1>6. /\ \A m \in DOMAIN rules : \E i \in RulesFor(text, token) : rules[m] = RuleAt(text, i)
      /\ \A i \in RulesFor(text, token) : \E m \in DOMAIN rules : rules[m] = RuleAt(text, i)
  <2>1. \A m \in DOMAIN rules : rules[m] \in Rule
    BY <1>5
  <2>2. \A i \in RulesFor(text, token) : RuleAt(text, i) \in Rule
    BY RulesForFacts
  <2>3. QED
    BY <1>5, <2>1, <2>2
<1>7. \A i : /\ Hits(RuleAt(text, i)) <=> text[i].value \in Matching
             /\ Specificity(RuleAt(text, i)) = PatternLength[text[i].value]
             /\ RuleAt(text, i).type = text[i].field /\ RuleAt(text, i).lineNumber = i
  BY DEF Hits, Specificity, RuleAt, RuleOf
<1>8. PICK best : best = BestRule(rules)
  OBVIOUS
<1>9. /\ applicable = {} => e = Trace("no_explicit_rule", 0)
      /\ applicable # {} /\ best = NoRule => e = Trace("allowed", 0)
      /\ applicable # {} /\ best # NoRule =>
            e = Trace(IF best.type = "allow" THEN "allowed" ELSE "blocked", best.lineNumber)
  BY <1>1, <1>2, <1>3, <1>8 DEF EvaluateRobots
<1>10. CASE best = NoRule
  <2>1. \A m \in DOMAIN rules : ~Hits(rules[m])
    <3>1. IsBest(rules, Len(rules), best) => best # NoRule
      <4>1. \A m \in 1..Len(rules) : rules[m] \in Rule
        BY <1>5
      <4>2. NoRule \notin Rule
        BY DEF NoRule, Rule, RuleFields
      <4>3. QED
        BY <4>1, <4>2 DEF IsBest
    <3>2. QED
      BY <1>5, <1>8, <1>10, BestRuleFacts
  <2>2. HitLines(text, token) = {}
    BY <1>6, <1>7, <2>1 DEF HitLines
  <2>3. QED
    BY <1>4, <1>9, <1>10, <2>2
<1>11. CASE best # NoRule
  <2>1. IsBest(rules, Len(rules), best) /\ DOMAIN rules = 1..Len(rules)
    BY <1>5, <1>8, <1>11, BestRuleFacts
  <2>2. PICK m \in DOMAIN rules : best = rules[m] /\ Hits(rules[m])
    BY <2>1 DEF IsBest
  <2>3. PICK i \in RulesFor(text, token) : best = RuleAt(text, i)
    BY <1>6, <2>2
  <2>4. i \in HitLines(text, token)
    BY <1>7, <2>2, <2>3 DEF HitLines
  <2>5. ASSUME NEW k \in HitLines(text, token)
        PROVE  /\ PatternLength[text[k].value] <= PatternLength[text[i].value]
               /\ /\ PatternLength[text[k].value] = PatternLength[text[i].value]
                  /\ text[k].field = "allow"
                  => text[i].field = "allow"
    <3>1. k \in RulesFor(text, token) /\ Hits(RuleAt(text, k))
      BY <1>7, <2>5 DEF HitLines
    <3>2. PICK l \in DOMAIN rules : rules[l] = RuleAt(text, k)
      BY <1>6, <3>1
    <3>3. /\ Specificity(rules[l]) <= Specificity(best)
          /\ Specificity(rules[l]) = Specificity(best) /\ rules[l].type = "allow" =>
                best.type = "allow"
      BY <2>1, <3>1, <3>2 DEF IsBest
    <3>4. QED
      BY <1>7, <2>3, <3>2, <3>3
  <2>6. Decides(text, token, i)
    BY <2>4, <2>5 DEF Decides
  <2>7. applicable # {}
    <3>1. i \in RulesFor(text, token) /\ \E j \in 1..Len(text) : IsAgent(text, j, BindingAgent(text, token))
      BY <2>3, RulesForFacts
    <3>2. QED
      BY <1>4, <3>1, NamedFacts DEF BindingAgent
  <2>8. e = Trace(IF text[i].field = "allow" THEN "allowed" ELSE "blocked", i)
    BY <1>7, <1>9, <1>11, <2>3, <2>7
  <2>9. QED
    BY <1>4, <2>4, <2>6, <2>7, <2>8
<1>12. QED
  BY <1>10, <1>11

\* For every robots.txt and every crawler, parser and evaluator say what RFC
\* 9309 says, and cite for a block a rule that decides; the exception are
\* files whose only rules for the crawler have no value.
THEOREM EvaluationIsRFC ==
    ASSUME NEW text \in Seq(Line), NEW token \in Tokens,
           NEW e, e = EvaluateRobots(ParseRobotsTxt(text), token)
    PROVE  \/ OnlyEmptyRules(text, token)
           \/ /\ e.result = RFCResult(text, token)
              /\ e.result = "blocked" => e.lineNumber \in Decisive(text, token)
<1> DEFINE Len0(i) == PatternLength[text[i].value]
           hits == {i \in RulesFor(text, token) : text[i].value \in Matching \ {Empty}}
<1>1. /\ \A i \in HitLines(text, token) : Len0(i) \in Nat /\ (Len0(i) = 0 <=> text[i].value = Empty)
      /\ hits = {i \in HitLines(text, token) : text[i].value # Empty}
  BY RobotsAssumption DEF HitLines
<1>2. Decisive(text, token) = {i \in hits : \A k \in hits : Len0(k) <= Len0(i)}
  BY DEF Decisive
<1>3. \A r, l : Trace(r, l).result = r /\ Trace(r, l).lineNumber = l
  BY DEF Trace
<1>4. \A i \in HitLines(text, token) : text[i].field = "allow" \/ text[i].field = "disallow"
  <2>1. \A i \in HitLines(text, token) : IsRule(text, i)
    BY RulesForFacts DEF HitLines
  <2>2. QED
    BY <2>1 DEF IsRule, RuleFields
<1> HIDE DEF Len0, hits
<1>5. CASE /\ ~Named(text, token) /\ ~Named(text, AnyAgent)
           /\ e = Trace("no_explicit_rule", 0)
  BY <1>3, <1>5 DEF RFCResult
<1>6. CASE /\ Named(text, token) \/ Named(text, AnyAgent)
           /\ HitLines(text, token) = {}
           /\ e = Trace("allowed", 0)
  BY <1>1, <1>2, <1>3, <1>6 DEF RFCResult, MayCrawl
<1>7. CASE /\ Named(text, token) \/ Named(text, AnyAgent)
           /\ \E i \in HitLines(text, token) :
                /\ Decides(text, token, i)
                /\ e = Trace(IF text[i].field = "allow" THEN "allowed" ELSE "blocked", i)
  <2>1. PICK i \in HitLines(text, token) :
            /\ Decides(text, token, i)
            /\ e = Trace(IF text[i].field = "allow" THEN "allowed" ELSE "blocked", i)
    BY <1>7
  <2>2. \A k \in HitLines(text, token) :
            Len0(k) <= Len0(i) /\ (Len0(k) = Len0(i) /\ text[k].field = "allow" => text[i].field = "allow")
    BY <2>1 DEF Decides, Len0
  <2>3. CASE text[i].value = Empty
    <3>1. \A k \in HitLines(text, token) : Len0(k) = 0
      BY <1>1, <2>2, <2>3
    <3>2. hits = {} /\ Decisive(text, token) = {}
      BY <1>1, <1>2, <3>1
    <3>3. CASE text[i].field = "allow"
      BY <1>3, <1>7, <2>1, <3>2, <3>3 DEF RFCResult, MayCrawl
    <3>4. CASE text[i].field = "disallow"
      <4>1. i \in RulesFor(text, token) /\ i \in 1..Len(text)
        BY RulesForFacts DEF HitLines
      <4>2. text[i] = [field |-> "disallow", value |-> Empty]
        BY <2>3, <3>4, <4>1, LineFacts
      <4>3. QED
        BY <3>2, <4>1, <4>2 DEF OnlyEmptyRules
    <3>5. QED
      BY <1>4, <3>3, <3>4
  <2>4. CASE text[i].value # Empty
    <3>1. i \in hits /\ \A k \in hits : k \in HitLines(text, token)
      BY <1>1, <2>4
    <3>2. i \in Decisive(text, token)
      BY <1>2, <2>2, <3>1
    <3>3. \A k \in Decisive(text, token) : Len0(k) = Len0(i) /\ k \in HitLines(text, token)
      BY <1>1, <1>2, <3>1, <3>2
    <3>4. MayCrawl(text, token) <=> text[i].field = "allow"
      BY <2>2, <3>2, <3>3 DEF MayCrawl
    <3>5. QED
      BY <1>3, <1>7, <2>1, <3>2, <3>4 DEF RFCResult
  <2>5. QED
    BY <2>3, <2>4
<1>8. QED
  BY <1>5, <1>6, <1>7, EvaluationFacts

-----------------------------------------------------------------------------
(* Policy: what a proposal appends *)

\* The rule that results call for, for crawler i.
Calls(p, results, i) == Proposal(p, Registry[i], results[i].result)

AgentOf(i) == [field |-> "user-agent", value |-> Registry[i].token]
RuleFor(p, results, i) == [field |-> Calls(p, results, i), value |-> "/"]

\* Lines m and m + 1 are the group of crawler i.
IsGroupOf(p, results, lines, m, i) ==
    /\ m + 1 \in 1..Len(lines) /\ lines[m] = AgentOf(i)
    /\ Calls(p, results, i) # "none" /\ lines[m + 1] = RuleFor(p, results, i)

\* Lines are groups of one agent and one rule, one for each of the first n
\* crawlers with a proposal.
AreGroups(p, results, n, lines) ==
    /\ lines \in Seq(Line)
    /\ \A m \in 1..Len(lines) : lines[m].field # "user-agent" =>
            m - 1 \in 1..Len(lines) /\ lines[m - 1].field = "user-agent"
    /\ \A m \in 1..Len(lines) : lines[m].field = "user-agent" =>
            \E i \in 1..n : IsGroupOf(p, results, lines, m, i)
    /\ \A i \in 1..n : Calls(p, results, i) # "none" =>
            \E m \in 1..Len(lines) : IsGroupOf(p, results, lines, m, i)

LEMMA RegistryFacts ==
    /\ Len(Registry) \in Nat /\ DOMAIN Registry = 1..Len(Registry)
    /\ \A i \in 1..Len(Registry) : Registry[i].token \in Tokens
    /\ \A i, k \in 1..Len(Registry) : Registry[i].token = Registry[k].token => i = k
<1>1. /\ Registry \in Seq([token : Tokens, purpose : Purposes])
      /\ \A i, k \in DOMAIN Registry : Registry[i].token = Registry[k].token => i = k
  BY AuditAssumption
<1>2. DOMAIN Registry = 1..Len(Registry) /\ Len(Registry) \in Nat
  BY <1>1
<1>3. \A i \in 1..Len(Registry) : Registry[i] \in [token : Tokens, purpose : Purposes]
  <2> DEFINE Crawler == [token : Tokens, purpose : Purposes]
  <2>1. Registry \in Seq(Crawler)
    BY <1>1
  <2> SUFFICES \A i \in 1..Len(Registry) : Registry[i] \in Crawler
    OBVIOUS
  <2> HIDE DEF Crawler
  <2>2. QED
    BY <2>1
<1>4. QED
  BY <1>1, <1>2, <1>3

LEMMA CallsFacts ==
    ASSUME NEW p, NEW results, NEW i \in 1..Len(Registry)
    PROVE  /\ Calls(p, results, i) \in {"none", "allow", "disallow"}
           /\ AgentOf(i) \in Line /\ AgentOf(i).field = "user-agent"
           /\ Calls(p, results, i) # "none" => RuleFor(p, results, i) \in Line
           /\ RuleFor(p, results, i).field = Calls(p, results, i)
           /\ RuleFor(p, results, i).value = "/"
<1>1. Calls(p, results, i) \in {"none", "allow", "disallow"}
  <2>1. PICK c : c = Registry[i]
    OBVIOUS
  <2>2. PICK r : r = results[i].result
    OBVIOUS
  <2>3. Proposal(p, c, r) \in {"none", "allow", "disallow"}
    BY DEF Proposal
  <2>4. QED
    BY <2>1, <2>2, <2>3 DEF Calls
<1>2. Registry[i].token \in Tokens /\ "/" \in Patterns
  BY RegistryFacts, AuditAssumption, RobotsAssumption
<1>3. QED
  BY <1>1, <1>2 DEF AgentOf, RuleFor, Line, RuleFields

LEMMA GroupsUpToFacts ==
    ASSUME NEW p, NEW results, NEW agents,
           agents = [i \in DOMAIN Registry |-> Registry[i].token]
    PROVE  /\ GroupsUpTo(agents, p, results)[0] = <<>>
           /\ \A i \in 1..Len(Registry) :
                GroupsUpTo(agents, p, results)[i] =
                    IF Calls(p, results, i) = "none" THEN GroupsUpTo(agents, p, results)[i - 1]
                    ELSE GroupsUpTo(agents, p, results)[i - 1]
                            \o <<AgentOf(i), RuleFor(p, results, i)>>
<1>1. PICK n \in Nat : n = Len(Registry)
  BY RegistryFacts
<1>2. PICK F : F = [i \in 1..n |-> [ls \in Seq(Line) |->
            IF Calls(p, results, i) = "none" THEN ls ELSE ls \o <<AgentOf(i), RuleFor(p, results, i)>>]]
  OBVIOUS
<1>3. F \in [1..n -> [Seq(Line) -> Seq(Line)]]
  <2>1. ASSUME NEW i \in 1..n, NEW ls \in Seq(Line), Calls(p, results, i) # "none"
        PROVE  ls \o <<AgentOf(i), RuleFor(p, results, i)>> \in Seq(Line)
    <3>1. AgentOf(i) \in Line /\ RuleFor(p, results, i) \in Line
      BY <1>1, <2>1, CallsFacts
    <3>2. QED
      BY <3>1
  <2>2. QED
    BY <1>2, <2>1
<1>4. <<>> \in Seq(Line)
  OBVIOUS
<1>5. PICK g \in [0..n -> Seq(Line)] : Recurs(g, n, <<>>, F)
  <2> HIDE <1>2
  <2>1. QED
    BY <1>3, <1>4, Recursion
<1>6. ASSUME NEW i \in 0..n, i # 0
      PROVE  F[i][g[i - 1]] =
                IF Proposal(p, Registry[i], results[i].result) = "none" THEN g[i - 1]
                ELSE g[i - 1] \o
                        <<[field |-> "user-agent", value |-> agents[i]],
                          [field |-> Proposal(p, Registry[i], results[i].result), value |-> "/"]>>
  <2>1. i \in 1..n /\ g[i - 1] \in Seq(Line)
    BY <1>6
  <2>2. agents[i] = Registry[i].token
    BY <1>1, <2>1, RegistryFacts
  <2>3. F[i][g[i - 1]] = IF Calls(p, results, i) = "none" THEN g[i - 1]
                         ELSE g[i - 1] \o <<AgentOf(i), RuleFor(p, results, i)>>
    BY <1>2, <2>1
  <2>4. QED
    BY <2>2, <2>3 DEF Calls, AgentOf, RuleFor
<1>7. g = [i \in 0..n |-> IF i = 0 THEN <<>> ELSE
              IF Proposal(p, Registry[i], results[i].result) = "none" THEN g[i - 1]
              ELSE g[i - 1] \o
                    <<[field |-> "user-agent", value |-> agents[i]],
                      [field |-> Proposal(p, Registry[i], results[i].result), value |-> "/"]>>]
  <2>1. g = [i \in 0..n |-> IF i = 0 THEN <<>> ELSE F[i][g[i - 1]]]
    BY <1>5 DEF Recurs
  <2>2. [i \in 0..n |-> IF i = 0 THEN <<>> ELSE F[i][g[i - 1]]] =
            [i \in 0..n |-> IF i = 0 THEN <<>> ELSE
              IF Proposal(p, Registry[i], results[i].result) = "none" THEN g[i - 1]
              ELSE g[i - 1] \o
                    <<[field |-> "user-agent", value |-> agents[i]],
                      [field |-> Proposal(p, Registry[i], results[i].result), value |-> "/"]>>]
    BY <1>6
  <2>3. QED
    BY <2>1, <2>2
<1>8. PICK all : all = GroupsUpTo(agents, p, results)
  OBVIOUS
<1>9. all = [i \in 0..n |-> IF i = 0 THEN <<>> ELSE
              IF Proposal(p, Registry[i], results[i].result) = "none" THEN all[i - 1]
              ELSE all[i - 1] \o
                    <<[field |-> "user-agent", value |-> agents[i]],
                      [field |-> Proposal(p, Registry[i], results[i].result), value |-> "/"]>>]
  <2> DEFINE H(f) == f = [i \in 0..Len(Registry) |-> IF i = 0 THEN <<>> ELSE
              IF Proposal(p, Registry[i], results[i].result) = "none" THEN f[i - 1]
              ELSE f[i - 1] \o
                    <<[field |-> "user-agent", value |-> agents[i]],
                      [field |-> Proposal(p, Registry[i], results[i].result), value |-> "/"]>>]
  <2>1. H(g)
    BY <1>1, <1>7
  <2>2. all = CHOOSE f : H(f)
    BY <1>8 DEF GroupsUpTo
  <2>3. H(all)
    <3> HIDE DEF H
    <3>1. QED
      BY <2>1, <2>2
  <2>4. QED
    BY <1>1, <2>3
<1>10. ASSUME NEW i \in 1..n
       PROVE  all[i] = IF Calls(p, results, i) = "none" THEN all[i - 1]
                       ELSE all[i - 1] \o <<AgentOf(i), RuleFor(p, results, i)>>
  <2>1. i \in 0..n /\ i # 0
    OBVIOUS
  <2>2. all[i] = IF Proposal(p, Registry[i], results[i].result) = "none" THEN all[i - 1]
                 ELSE all[i - 1] \o
                    <<[field |-> "user-agent", value |-> agents[i]],
                      [field |-> Proposal(p, Registry[i], results[i].result), value |-> "/"]>>
    BY <1>9, <2>1
  <2>3. agents[i] = Registry[i].token
    BY <1>1, RegistryFacts
  <2>4. QED
    BY <2>2, <2>3 DEF Calls, AgentOf, RuleFor
<1>11. all[0] = <<>>
  <2>1. 0 \in 0..n
    OBVIOUS
  <2>2. QED
    BY <1>9, <2>1
<1>12. QED
  BY <1>1, <1>8, <1>10, <1>11

\* A group more.
LEMMA GroupAppended ==
    ASSUME NEW p, NEW results, NEW n \in 1..Len(Registry), NEW ls,
           AreGroups(p, results, n - 1, ls), Calls(p, results, n) # "none",
           NEW us, us = ls \o <<AgentOf(n), RuleFor(p, results, n)>>
    PROVE  AreGroups(p, results, n, us)
<1>1. /\ n \in Nat \ {0} /\ 1..n = (1..(n - 1)) \cup {n}
      /\ AgentOf(n) \in Line /\ RuleFor(p, results, n) \in Line
      /\ AgentOf(n).field = "user-agent" /\ RuleFor(p, results, n).field # "user-agent"
  BY CallsFacts, RegistryFacts
<1>2. PICK size \in Nat : size = Len(ls) /\ ls \in Seq(Line)
  BY DEF AreGroups
<1>3. /\ us \in Seq(Line) /\ Len(us) = size + 2
      /\ \A m \in 1..size : us[m] = ls[m]
      /\ us[size + 1] = AgentOf(n) /\ us[size + 2] = RuleFor(p, results, n)
  BY <1>1, <1>2
<1>4. \A m \in 1..(size + 2) : m \in 1..size \/ m = size + 1 \/ m = size + 2
  OBVIOUS
<1>5. \A m \in 1..size : \A i \in 1..(n - 1) :
          IsGroupOf(p, results, ls, m, i) => IsGroupOf(p, results, us, m, i)
  BY <1>2, <1>3 DEF IsGroupOf
<1>6. IsGroupOf(p, results, us, size + 1, n)
  <2>1. (size + 1) + 1 = size + 2 /\ size + 2 \in 1..(size + 2)
    OBVIOUS
  <2>2. QED
    BY <1>3, <2>1 DEF IsGroupOf
<1>7. ASSUME NEW m \in 1..(size + 2), us[m].field # "user-agent"
      PROVE  m - 1 \in 1..(size + 2) /\ us[m - 1].field = "user-agent"
  <2>1. CASE m \in 1..size
    <3>1. m - 1 \in 1..size /\ ls[m - 1].field = "user-agent"
      BY <1>2, <1>3, <1>7, <2>1 DEF AreGroups
    <3>2. QED
      BY <1>3, <3>1
  <2>2. CASE m = size + 1
    BY <1>1, <1>3, <1>7, <2>2
  <2>3. CASE m = size + 2
    BY <1>1, <1>3, <2>3
  <2>4. QED
    BY <1>4, <2>1, <2>2, <2>3
<1>8. ASSUME NEW m \in 1..(size + 2), us[m].field = "user-agent"
      PROVE  \E i \in 1..n : IsGroupOf(p, results, us, m, i)
  <2>1. CASE m \in 1..size
    <3>1. PICK i \in 1..(n - 1) : IsGroupOf(p, results, ls, m, i)
      BY <1>2, <1>3, <1>8, <2>1 DEF AreGroups
    <3>2. QED
      BY <1>1, <1>5, <2>1, <3>1
  <2>2. CASE m = size + 1
    BY <1>1, <1>6, <2>2
  <2>3. CASE m = size + 2
    BY <1>1, <1>3, <1>8, <2>3
  <2>4. QED
    BY <1>4, <2>1, <2>2, <2>3
<1>9. ASSUME NEW i \in 1..n, Calls(p, results, i) # "none"
      PROVE  \E m \in 1..(size + 2) : IsGroupOf(p, results, us, m, i)
  <2>1. CASE i = n
    <3>1. size + 1 \in 1..(size + 2)
      OBVIOUS
    <3>2. QED
      BY <1>6, <2>1, <3>1
  <2>2. CASE i # n
    <3>1. i \in 1..(n - 1)
      BY <1>1, <2>2
    <3>2. PICK m \in 1..size : IsGroupOf(p, results, ls, m, i)
      BY <1>2, <1>9, <3>1 DEF AreGroups
    <3>3. m \in 1..(size + 2)
      OBVIOUS
    <3>4. QED
      BY <1>5, <3>1, <3>2, <3>3
  <2>3. QED
    BY <2>1, <2>2
<1>10. QED
  BY <1>3, <1>7, <1>8, <1>9 DEF AreGroups

\* What is recommended are groups, one for each crawler with a proposal.
LEMMA RecommendationsAreGroups ==
    ASSUME NEW p, NEW results
    PROVE  AreGroups(p, results, Len(Registry), GenerateRecommendations(p, results))
<1>1. PICK agents : agents = [i \in DOMAIN Registry |-> Registry[i].token]
  OBVIOUS
<1>2. PICK all : all = GroupsUpTo(agents, p, results)
  OBVIOUS
<1>3. /\ all[0] = <<>>
      /\ \A i \in 1..Len(Registry) :
            all[i] = IF Calls(p, results, i) = "none" THEN all[i - 1]
                     ELSE all[i - 1] \o <<AgentOf(i), RuleFor(p, results, i)>>
  BY <1>1, <1>2, GroupsUpToFacts
<1> DEFINE S == {n \in 0..Len(Registry) : AreGroups(p, results, n, all[n])}
<1>4. 0 \in S
  <2>1. <<>> \in Seq(Line) /\ Len(<<>>) = 0
    OBVIOUS
  <2>2. AreGroups(p, results, 0, all[0])
    BY <1>3, <2>1 DEF AreGroups
  <2>3. QED
    BY <2>2, RegistryFacts
<1>5. ASSUME NEW n \in 1..Len(Registry), n - 1 \in S
      PROVE  n \in S
  <2>1. AreGroups(p, results, n - 1, all[n - 1]) /\ n \in 0..Len(Registry)
    BY <1>5, RegistryFacts
  <2>2. CASE Calls(p, results, n) = "none"
    <3>1. all[n] = all[n - 1]
      BY <1>3, <2>2
    <3>2. \A i \in 1..n : Calls(p, results, i) # "none" => i \in 1..(n - 1)
      BY <2>2, RegistryFacts
    <3>3. 1..(n - 1) \subseteq 1..n
      BY RegistryFacts
    <3>4. AreGroups(p, results, n, all[n])
      BY <2>1, <3>1, <3>2, <3>3 DEF AreGroups
    <3>5. QED
      BY <2>1, <3>4
  <2>3. CASE Calls(p, results, n) # "none"
    <3>1. all[n] = all[n - 1] \o <<AgentOf(n), RuleFor(p, results, n)>>
      BY <1>3, <2>3
    <3>2. AreGroups(p, results, n, all[n])
      BY <2>1, <2>3, <3>1, GroupAppended
    <3>3. QED
      BY <2>1, <3>2
  <2>4. QED
    BY <2>2, <2>3
<1>6. \A n \in 0..Len(Registry) : n \in S
  <2> HIDE DEF S
  <2>1. QED
    BY <1>4, <1>5, RegistryFacts, CountingUp
<1>7. GenerateRecommendations(p, results) = all[Len(Registry)]
  BY <1>1, <1>2 DEF GenerateRecommendations, Groups
<1>8. QED
  BY <1>6, <1>7, RegistryFacts

-----------------------------------------------------------------------------
(* Policy: the file with a proposal appended *)

\* The lines of text that old does not have.
Added(old, text) == (Len(old) + 1)..Len(text)

\* Text is old and the groups of a proposal.
Extends(p, results, old, text) ==
    /\ old \in Seq(Line) /\ text \in Seq(Line) /\ Len(old) <= Len(text)
    /\ \A i \in 1..Len(old) : text[i] = old[i]
    /\ \A i \in Added(old, text) : text[i].field # "user-agent" =>
            i - 1 \in Added(old, text) /\ text[i - 1].field = "user-agent"
    /\ \A i \in Added(old, text) : text[i].field = "user-agent" =>
            \E k \in 1..Len(Registry) : IsGroupOf(p, results, text, i, k)
    /\ \A k \in 1..Len(Registry) : Calls(p, results, k) # "none" =>
            \E i \in Added(old, text) : IsGroupOf(p, results, text, i, k)

LEMMA AppendedExtends ==
    ASSUME NEW p, NEW results, NEW old \in Seq(Line), NEW added,
           AreGroups(p, results, Len(Registry), added), NEW text, text = old \o added
    PROVE  Extends(p, results, old, text)
<1>1. PICK size \in Nat : size = Len(old)
  OBVIOUS
<1>2. PICK more \in Nat : more = Len(added) /\ added \in Seq(Line)
  <2>1. added \in Seq(Line)
    BY DEF AreGroups
  <2>2. QED
    BY <2>1
<1>3. /\ text \in Seq(Line) /\ Len(text) = size + more
      /\ \A i \in 1..size : text[i] = old[i]
      /\ \A i \in (size + 1)..(size + more) : text[i] = added[i - size]
      /\ \A m \in 1..more : text[size + m] = added[m]
  BY <1>1, <1>2
<1>4. ASSUME NEW m \in 1..more, NEW k \in 1..Len(Registry), IsGroupOf(p, results, added, m, k)
      PROVE  IsGroupOf(p, results, text, size + m, k)
  <2>1. m + 1 \in 1..more /\ (size + m) + 1 = size + (m + 1)
    BY <1>2, <1>4 DEF IsGroupOf
  <2>2. (size + m) + 1 \in 1..(size + more)
    BY <2>1
  <2>3. text[size + m] = added[m] /\ text[(size + m) + 1] = added[m + 1]
    BY <1>3, <2>1
  <2>4. QED
    BY <1>3, <1>4, <2>2, <2>3 DEF IsGroupOf
<1>5. Added(old, text) = (size + 1)..(size + more)
  BY <1>1, <1>3 DEF Added
<1>6. ASSUME NEW i \in Added(old, text), text[i].field # "user-agent"
      PROVE  i - 1 \in Added(old, text) /\ text[i - 1].field = "user-agent"
  <2>1. PICK m \in 1..more : m = i - size
    BY <1>5
  <2>2. text[i] = added[m]
    BY <1>3, <1>5, <2>1
  <2>3. m - 1 \in 1..more /\ added[m - 1].field = "user-agent"
    BY <1>2, <1>6, <2>2 DEF AreGroups
  <2>4. i - 1 = size + (m - 1) /\ i - 1 \in (size + 1)..(size + more)
    BY <1>5, <2>1, <2>3
  <2>5. QED
    BY <1>3, <1>5, <2>3, <2>4
<1>7. ASSUME NEW i \in Added(old, text), text[i].field = "user-agent"
      PROVE  \E k \in 1..Len(Registry) : IsGroupOf(p, results, text, i, k)
  <2>1. PICK m \in 1..more : m = i - size
    BY <1>5
  <2>2. text[i] = added[m] /\ i = size + m
    <3>1. i \in (size + 1)..(size + more)
      BY <1>5
    <3>2. text[i] = added[i - size] /\ i = size + (i - size)
      BY <1>3, <3>1
    <3>3. QED
      BY <2>1, <3>2
  <2>3. PICK k \in 1..Len(Registry) : IsGroupOf(p, results, added, m, k)
    BY <1>2, <1>7, <2>2 DEF AreGroups
  <2>4. QED
    BY <1>4, <2>2, <2>3
<1>8. ASSUME NEW k \in 1..Len(Registry), Calls(p, results, k) # "none"
      PROVE  \E i \in Added(old, text) : IsGroupOf(p, results, text, i, k)
  <2>1. PICK m \in 1..more : IsGroupOf(p, results, added, m, k)
    BY <1>2, <1>8 DEF AreGroups
  <2>2. PICK i \in (size + 1)..(size + more) : i = size + m
    OBVIOUS
  <2>3. QED
    BY <1>4, <1>5, <2>1, <2>2
<1>9. Len(old) <= Len(text) /\ old \in Seq(Line)
  BY <1>1, <1>3
<1>10. QED
  BY <1>1, <1>3, <1>6, <1>7, <1>8, <1>9 DEF Extends

LEMMA ExtendsFacts ==
    ASSUME NEW p, NEW results, NEW old, NEW text, Extends(p, results, old, text)
    PROVE  /\ Len(old) \in Nat /\ Len(text) \in Nat /\ 1..Len(old) \subseteq 1..Len(text)
           /\ \A i \in 1..Len(text) : i \in 1..Len(old) \/ i \in Added(old, text)
           /\ Added(old, text) \subseteq 1..Len(text)
           /\ \A i \in 1..Len(old) : \A j \in Added(old, text) : i < j
           /\ \A i \in Added(old, text) : text[i].field = "user-agent" =>
                i + 1 \in Added(old, text) /\ text[i + 1].field \in RuleFields
<1>1. Len(old) \in Nat /\ Len(text) \in Nat /\ Len(old) <= Len(text)
  BY DEF Extends
<1>2. ASSUME NEW i \in Added(old, text), text[i].field = "user-agent"
      PROVE  i + 1 \in Added(old, text) /\ text[i + 1].field \in RuleFields
  <2>1. PICK k \in 1..Len(Registry) : IsGroupOf(p, results, text, i, k)
    BY <1>2 DEF Extends
  <2>2. /\ i + 1 \in 1..Len(text) /\ text[i + 1] = RuleFor(p, results, k)
        /\ Calls(p, results, k) # "none"
    BY <2>1 DEF IsGroupOf
  <2>3. text[i + 1].field \in RuleFields
    BY <2>2, CallsFacts DEF RuleFields
  <2>4. QED
    BY <1>1, <2>2, <2>3 DEF Added
<1>3. QED
  BY <1>1, <1>2 DEF Added

\* What is appended is governed by its own agents, and by those that had no
\* rule at the end of the file.
LEMMA AppendedGoverns ==
    ASSUME NEW p, NEW results, NEW old, NEW text, Extends(p, results, old, text)
    PROVE  /\ \A j, i \in 1..Len(old) : Governs(text, j, i) <=> Governs(old, j, i)
           /\ \A j \in 1..Len(old) : \A i \in Added(old, text) :
                old[j].field = "user-agent" /\ Governs(text, j, i) =>
                    old[j].value \in TrailingAgents(old)
           /\ \A j, i \in Added(old, text) : text[j].field = "user-agent" =>
                (Governs(text, j, i) <=> i = j + 1)
<1>1. /\ \A i \in 1..Len(old) : text[i] = old[i]
      /\ \A i \in Added(old, text) : text[i].field # "user-agent" =>
            i - 1 \in Added(old, text) /\ text[i - 1].field = "user-agent"
      /\ \A i \in Added(old, text) : text[i].field = "user-agent" =>
            i + 1 \in Added(old, text) /\ text[i + 1].field \in RuleFields
      /\ \A i \in Added(old, text) : i \in Nat /\ i > Len(old)
      /\ Len(old) \in Nat /\ DOMAIN old = 1..Len(old)
  <2>1. \A i \in Added(old, text) : i \in Nat /\ i > Len(old)
    BY ExtendsFacts DEF Added
  <2>2. old \in Seq(Line)
    BY DEF Extends
  <2>3. Len(old) \in Nat /\ DOMAIN old = 1..Len(old)
    BY <2>2
  <2>4. QED
    BY <2>1, <2>3, ExtendsFacts DEF Extends
<1>2. "user-agent" \notin RuleFields
  BY DEF RuleFields
<1>3. ASSUME NEW j \in 1..Len(old), NEW i \in 1..Len(old)
      PROVE  Governs(text, j, i) <=> Governs(old, j, i)
  <2>1. (j + 1)..(i - 1) \subseteq 1..Len(old)
    BY <1>1
  <2>2. text[i] = old[i] /\ \A k \in (j + 1)..(i - 1) : text[k] = old[k]
    BY <1>1, <2>1
  <2>3. QED
    BY <2>2 DEF Governs
<1>4. ASSUME NEW j \in 1..Len(old), NEW i \in Added(old, text),
             old[j].field = "user-agent", Governs(text, j, i)
      PROVE  old[j].value \in TrailingAgents(old)
  <2>1. text[i].field \in RuleFields
    BY <1>4 DEF Governs
  <2>2. i - 1 \in Added(old, text) /\ text[i - 1].field = "user-agent"
    BY <1>1, <1>2, <2>1
  <2>3. i - 1 \in (j + 1)..(i - 1)
    BY <1>1, <2>2
  <2>4. \A k \in (j + 1)..(i - 1) : k < i - 1 => text[k].field \notin RuleFields
    BY <1>4, <2>2, <2>3 DEF Governs
  <2>5. ASSUME NEW k \in (j + 1)..Len(old)
        PROVE  old[k].field \notin RuleFields
    <3>1. k \in (j + 1)..(i - 1) /\ k < i - 1 /\ k \in 1..Len(old)
      BY <1>1, <2>2
    <3>2. QED
      BY <1>1, <2>4, <3>1
  <2>6. QED
    BY <1>1, <1>4, <2>5 DEF TrailingAgents
<1>5. ASSUME NEW j \in Added(old, text), NEW i \in Added(old, text), text[j].field = "user-agent"
      PROVE  Governs(text, j, i) <=> i = j + 1
  <2>1. j + 1 \in Added(old, text) /\ text[j + 1].field \in RuleFields /\ j \in Nat /\ i \in Nat
    BY <1>1, <1>5
  <2>2. CASE i = j + 1
    <3>1. j < i /\ text[i].field \in RuleFields /\ (j + 1)..(i - 1) = {}
      BY <2>1, <2>2
    <3>2. QED
      BY <2>2, <3>1 DEF Governs
  <2>3. ASSUME Governs(text, j, i), i # j + 1
        PROVE  FALSE
    <3>1. i > j + 1 /\ text[i].field \in RuleFields
      BY <2>1, <2>3 DEF Governs
    <3>2. i - 1 \in Added(old, text) /\ text[i - 1].field = "user-agent"
      BY <1>1, <1>2, <3>1
    <3>3. i - 1 # j + 1
      BY <1>2, <2>1, <3>2
    <3>4. j + 1 \in (j + 1)..(i - 1) /\ i - 1 \in (j + 1)..(i - 1) /\ j + 1 < i - 1
      BY <2>1, <3>1, <3>3
    <3>5. QED
      BY <2>1, <2>3, <3>2, <3>4 DEF Governs
  <2>4. QED
    BY <2>2, <2>3
<1>6. QED
  BY <1>3, <1>4, <1>5

\* Crawler k has a proposal, and is the one of this name.
IsAdvised(p, results, agent, k) == Calls(p, results, k) # "none" /\ Registry[k].token = agent

LEMMA AppendedNames ==
    ASSUME NEW p, NEW results, NEW old, NEW text, Extends(p, results, old, text), NEW agent
    PROVE  Named(text, agent) <=>
                Named(old, agent) \/ \E k \in 1..Len(Registry) : IsAdvised(p, results, agent, k)
<1>1. old \in Seq(Line) /\ text \in Seq(Line) /\ \A i \in 1..Len(old) : text[i] = old[i]
  BY DEF Extends
<1>2. ASSUME NEW j \in Added(old, text), IsAgent(text, j, agent)
      PROVE  \E k \in 1..Len(Registry) : IsAdvised(p, results, agent, k)
  <2>1. text[j].field = "user-agent" /\ text[j].value = agent
    BY <1>2 DEF IsAgent
  <2>2. PICK k \in 1..Len(Registry) : IsGroupOf(p, results, text, j, k)
    BY <1>2, <2>1 DEF Extends
  <2>3. QED
    BY <2>1, <2>2 DEF IsGroupOf, AgentOf, IsAdvised
<1>3. ASSUME NEW k \in 1..Len(Registry), IsAdvised(p, results, agent, k)
      PROVE  \E j \in 1..Len(text) : IsAgent(text, j, agent)
  <2>1. PICK j \in Added(old, text) : IsGroupOf(p, results, text, j, k)
    BY <1>3 DEF Extends, IsAdvised
  <2>2. IsAgent(text, j, agent)
    BY <1>3, <2>1 DEF IsGroupOf, AgentOf, IsAdvised, IsAgent
  <2>3. QED
    BY <2>2, ExtendsFacts
<1>4. \A j \in 1..Len(old) : IsAgent(text, j, agent) <=> IsAgent(old, j, agent)
  BY <1>1 DEF IsAgent
<1>5. (\E j \in 1..Len(text) : IsAgent(text, j, agent)) <=>
          \/ \E j \in 1..Len(old) : IsAgent(old, j, agent)
          \/ \E k \in 1..Len(Registry) : IsAdvised(p, results, agent, k)
  BY <1>2, <1>3, <1>4, ExtendsFacts
<1>6. QED
  BY <1>1, <1>5, NamedFacts

\* The rules of a crawler in the file with a proposal appended, when the first
\* group appended does not become its own.
LEMMA AppendedRules ==
    ASSUME NEW p, NEW results, NEW old, NEW text, Extends(p, results, old, text),
           NEW token, NEW agent, agent = BindingAgent(text, token),
           agent \notin TrailingAgents(old)
    PROVE  /\ \A i \in 1..Len(old) : i \in RulesFor(text, token) <=>
                \E j \in 1..Len(old) : IsAgent(old, j, agent) /\ Governs(old, j, i)
           /\ \A i \in Added(old, text) : i \in RulesFor(text, token) <=>
                \E k \in 1..Len(Registry) :
                    /\ IsAdvised(p, results, agent, k) /\ i - 1 \in Added(old, text)
                    /\ IsGroupOf(p, results, text, i - 1, k)
<1>1. old \in Seq(Line) /\ text \in Seq(Line) /\ \A i \in 1..Len(old) : text[i] = old[i]
  BY DEF Extends
<1>2. /\ \A j, i \in 1..Len(old) : Governs(text, j, i) <=> Governs(old, j, i)
      /\ \A j \in 1..Len(old) : \A i \in Added(old, text) :
            old[j].field = "user-agent" /\ Governs(text, j, i) => old[j].value \in TrailingAgents(old)
      /\ \A j, i \in Added(old, text) : text[j].field = "user-agent" =>
            (Governs(text, j, i) <=> i = j + 1)
  BY AppendedGoverns
<1>3. \A i \in 1..Len(text) : i \in RulesFor(text, token) <=>
            \E j \in 1..Len(text) : IsAgent(text, j, agent) /\ Governs(text, j, i)
  BY <1>1, RulesForFacts
<1>4. \A j \in 1..Len(old) : IsAgent(text, j, agent) <=> IsAgent(old, j, agent)
  BY <1>1 DEF IsAgent
<1>5. ASSUME NEW i \in 1..Len(old)
      PROVE  i \in RulesFor(text, token) <=>
                \E j \in 1..Len(old) : IsAgent(old, j, agent) /\ Governs(old, j, i)
  <2>1. \A j \in 1..Len(text) : Governs(text, j, i) => j \in 1..Len(old)
    BY ExtendsFacts DEF Governs
  <2>2. QED
    BY <1>2, <1>3, <1>4, <2>1, ExtendsFacts
<1>6. ASSUME NEW i \in Added(old, text), i \in RulesFor(text, token)
      PROVE  \E k \in 1..Len(Registry) :
                /\ IsAdvised(p, results, agent, k) /\ i - 1 \in Added(old, text)
                /\ IsGroupOf(p, results, text, i - 1, k)
  <2>1. PICK j \in 1..Len(text) : IsAgent(text, j, agent) /\ Governs(text, j, i)
    BY <1>3, <1>6, ExtendsFacts
  <2>2. text[j].field = "user-agent" /\ text[j].value = agent
    BY <2>1 DEF IsAgent
  <2>3. j \notin 1..Len(old)
    BY <1>1, <1>2, <2>1, <2>2
  <2>4. j \in Added(old, text)
    BY <2>3, ExtendsFacts
  <2>5. i = j + 1 /\ j \in Nat
    <3>1. j \in Nat
      BY ExtendsFacts
    <3>2. QED
      BY <1>2, <1>6, <2>1, <2>2, <2>4, <3>1
  <2>6. PICK k \in 1..Len(Registry) : IsGroupOf(p, results, text, j, k)
    BY <2>2, <2>4 DEF Extends
  <2>7. IsAdvised(p, results, agent, k)
    BY <2>2, <2>6 DEF IsGroupOf, AgentOf, IsAdvised
  <2>8. i - 1 = j
    BY <2>5
  <2>9. QED
    BY <2>4, <2>6, <2>7, <2>8
<1>7. ASSUME NEW i \in Added(old, text), NEW k \in 1..Len(Registry),
             IsAdvised(p, results, agent, k), i - 1 \in Added(old, text),
             IsGroupOf(p, results, text, i - 1, k)
      PROVE  i \in RulesFor(text, token)
  <2>1. PICK j \in Added(old, text) : j = i - 1
    BY <1>7
  <2>2. IsAgent(text, j, agent) /\ text[j].field = "user-agent"
    BY <1>7, <2>1 DEF IsGroupOf, AgentOf, IsAdvised, IsAgent
  <2>3. i = j + 1 /\ i \in 1..Len(text) /\ j \in 1..Len(text)
    BY <2>1, ExtendsFacts
  <2>4. Governs(text, j, i)
    BY <1>2, <2>2, <2>3
  <2>5. QED
    BY <1>3, <2>2, <2>3, <2>4
<1>8. QED
  BY <1>5, <1>6, <1>7

\* A crawler without a proposal is evaluated as before.
LEMMA OthersUnchanged ==
    ASSUME NEW p, NEW results, NEW old, NEW text, Extends(p, results, old, text),
           NEW i \in 1..Len(Registry), Calls(p, results, i) = "none",
           NEW token, token = Registry[i].token,
           TrailingAgents(old) \cap {token, AnyAgent} = {},
           NEW e, e = EvaluateRobots(ParseRobotsTxt(text), token),
           NEW d, d = EvaluateRobots(ParseRobotsTxt(old), token)
    PROVE  e.result = d.result
<1>1. /\ old \in Seq(Line) /\ text \in Seq(Line) /\ token \in Tokens /\ AnyAgent \notin Tokens
      /\ \A j \in 1..Len(old) : text[j] = old[j]
  BY RegistryFacts, RobotsAssumption DEF Extends
<1>2. PICK agent : agent = BindingAgent(text, token)
  OBVIOUS
<1>3. \A a \in {token, AnyAgent} : \A k \in 1..Len(Registry) : ~IsAdvised(p, results, a, k)
  BY <1>1, RegistryFacts DEF IsAdvised
<1>4. \A a \in {token, AnyAgent} : Named(text, a) <=> Named(old, a)
  BY <1>3, AppendedNames
<1>5. agent = BindingAgent(old, token) /\ agent \in {token, AnyAgent}
  BY <1>2, <1>4 DEF BindingAgent
<1>6. /\ \A j \in 1..Len(old) : j \in RulesFor(text, token) <=>
            \E l \in 1..Len(old) : IsAgent(old, l, agent) /\ Governs(old, l, j)
      /\ \A j \in Added(old, text) : j \notin RulesFor(text, token)
  <2>1. agent \notin TrailingAgents(old)
    BY <1>5
  <2>2. \A k \in 1..Len(Registry) : ~IsAdvised(p, results, agent, k)
    BY <1>3, <1>5
  <2>3. QED
    BY <1>2, <2>1, <2>2, AppendedRules
<1>7. RulesFor(text, token) = RulesFor(old, token)
  <2>1. \A j \in 1..Len(old) : j \in RulesFor(text, token) <=> j \in RulesFor(old, token)
    BY <1>1, <1>5, <1>6, RulesForFacts
  <2>2. RulesFor(old, token) \subseteq 1..Len(old) /\ RulesFor(text, token) \subseteq 1..Len(text)
    BY <1>1, RulesForFacts
  <2>3. RulesFor(text, token) \subseteq 1..Len(old)
    BY <1>6, <2>2, ExtendsFacts
  <2>4. QED
    BY <2>1, <2>2, <2>3
<1>8. \A j \in RulesFor(old, token) : text[j] = old[j]
  BY <1>1, RulesForFacts
<1>9. HitLines(text, token) = HitLines(old, token) /\ \A j \in HitLines(old, token) : text[j] = old[j]
  BY <1>7, <1>8 DEF HitLines
<1>10. \A j \in HitLines(old, token) : PatternLength[old[j].value] \in Nat
  BY RobotsAssumption DEF HitLines
<1>11. \A r, l : Trace(r, l).result = r
  BY DEF Trace
\* Of the lines that decide, one allows if another does.
<1>12. ASSUME NEW j \in HitLines(old, token), NEW k \in HitLines(old, token),
              Decides(text, token, j), Decides(old, token, k)
       PROVE  text[j].field = "allow" <=> old[k].field = "allow"
  <2>1. /\ PatternLength[text[j].value] = PatternLength[old[j].value]
        /\ PatternLength[text[k].value] = PatternLength[old[k].value]
        /\ text[j].field = old[j].field /\ text[k].field = old[k].field
    BY <1>9
  <2>2. PatternLength[old[j].value] = PatternLength[old[k].value]
    BY <1>9, <1>10, <1>12, <2>1 DEF Decides
  <2>3. QED
    BY <1>9, <1>12, <2>1, <2>2 DEF Decides
<1>13. CASE ~Named(old, token) /\ ~Named(old, AnyAgent)
  <2>1. e = Trace("no_explicit_rule", 0) /\ d = Trace("no_explicit_rule", 0)
    BY <1>1, <1>4, <1>13, EvaluationFacts
  <2>2. QED
    BY <2>1
<1>14. CASE (Named(old, token) \/ Named(old, AnyAgent)) /\ HitLines(old, token) = {}
  <2>1. e = Trace("allowed", 0)
    BY <1>1, <1>4, <1>9, <1>14, EvaluationFacts
  <2>2. d = Trace("allowed", 0)
    BY <1>1, <1>14, EvaluationFacts
  <2>3. QED
    BY <2>1, <2>2
<1>15. CASE (Named(old, token) \/ Named(old, AnyAgent)) /\ HitLines(old, token) # {}
  <2>1. PICK j \in HitLines(old, token) :
            /\ Decides(text, token, j)
            /\ e = Trace(IF text[j].field = "allow" THEN "allowed" ELSE "blocked", j)
    BY <1>1, <1>4, <1>9, <1>15, EvaluationFacts
  <2>2. PICK k \in HitLines(old, token) :
            /\ Decides(old, token, k)
            /\ d = Trace(IF old[k].field = "allow" THEN "allowed" ELSE "blocked", k)
    BY <1>1, <1>15, EvaluationFacts
  <2>3. QED
    BY <1>11, <1>12, <2>1, <2>2
<1>16. QED
  BY <1>13, <1>14, <1>15

\* A crawler with a proposal is evaluated as the proposal says, unless a rule
\* of its own outweighs it.
LEMMA AdvisedFollows ==
    ASSUME NEW p, NEW results, NEW old, NEW text, Extends(p, results, old, text),
           NEW i \in 1..Len(Registry), NEW call, call = Calls(p, results, i), call # "none",
           NEW token, token = Registry[i].token, token \notin TrailingAgents(old),
           NEW e, e = EvaluateRobots(ParseRobotsTxt(text), token)
    PROVE  \/ e.result = IF call = "allow" THEN "allowed" ELSE "blocked"
           \/ /\ Named(old, token)
              /\ \E k \in RulesFor(old, token) :
                    /\ old[k].value \in Matching
                    /\ IF call = "allow"
                       THEN old[k].field = "disallow" /\ PatternLength[old[k].value] > 1
                       ELSE old[k].field = "allow" /\ PatternLength[old[k].value] >= 1
<1>1. /\ old \in Seq(Line) /\ text \in Seq(Line) /\ token \in Tokens
      /\ \A j \in 1..Len(old) : text[j] = old[j]
  BY RegistryFacts DEF Extends
<1>2. call \in {"allow", "disallow"}
  BY CallsFacts
<1>3. /\ IsAdvised(p, results, token, i)
      /\ \A k \in 1..Len(Registry) : IsAdvised(p, results, token, k) => k = i
  BY RegistryFacts DEF IsAdvised
<1>4. Named(text, token)
  BY <1>3, AppendedNames
<1>5. BindingAgent(text, token) = token
  BY <1>4 DEF BindingAgent
<1>6. /\ \A j \in 1..Len(old) : j \in RulesFor(text, token) <=>
            \E l \in 1..Len(old) : IsAgent(old, l, token) /\ Governs(old, l, j)
      /\ \A j \in Added(old, text) : j \in RulesFor(text, token) <=>
            \E k \in 1..Len(Registry) :
                /\ IsAdvised(p, results, token, k) /\ j - 1 \in Added(old, text)
                /\ IsGroupOf(p, results, text, j - 1, k)
  BY <1>5, AppendedRules
\* The rule that was appended for it.
<1>7. "/" \in Matching /\ PatternLength["/"] = 1
  BY AuditAssumption
<1>8. ASSUME NEW j \in Added(old, text), j \in RulesFor(text, token)
      PROVE  text[j].field = call /\ text[j].value = "/"
  <2>1. IsGroupOf(p, results, text, j - 1, i)
    BY <1>3, <1>6, <1>8
  <2>2. j \in Nat /\ (j - 1) + 1 = j
    BY ExtendsFacts
  <2>3. text[j] = RuleFor(p, results, i)
    BY <2>1, <2>2 DEF IsGroupOf
  <2>4. QED
    BY <2>3, CallsFacts
<1>9. PICK own \in Added(old, text) : own \in RulesFor(text, token)
  <2>1. PICK j \in Added(old, text) : IsGroupOf(p, results, text, j, i)
    BY DEF Extends
  <2>2. text[j].field = "user-agent" /\ j \in Nat
    BY <2>1, CallsFacts, ExtendsFacts DEF IsGroupOf
  <2>3. j + 1 \in Added(old, text) /\ (j + 1) - 1 = j
    BY <2>2, ExtendsFacts
  <2>4. j + 1 \in RulesFor(text, token)
    BY <1>3, <1>6, <2>1, <2>3
  <2>5. QED
    BY <2>3, <2>4
<1>10. own \in HitLines(text, token)
  BY <1>7, <1>8, <1>9 DEF HitLines
<1>11. PICK j \in HitLines(text, token) :
            /\ Decides(text, token, j)
            /\ e = Trace(IF text[j].field = "allow" THEN "allowed" ELSE "blocked", j)
  BY <1>1, <1>4, <1>10, EvaluationFacts
<1>12. e.result = IF text[j].field = "allow" THEN "allowed" ELSE "blocked"
  BY <1>11 DEF Trace
<1>13. /\ j \in RulesFor(text, token) /\ j \in 1..Len(text) /\ text[j].value \in Matching
       /\ text[j].field \in {"allow", "disallow"}
  <2>1. j \in RulesFor(text, token) /\ text[j].value \in Matching
    BY DEF HitLines
  <2>2. QED
    BY <1>1, <2>1, RulesForFacts DEF IsRule, RuleFields
<1>14. /\ 1 <= PatternLength[text[j].value]
       /\ PatternLength[text[j].value] = 1 /\ call = "allow" => text[j].field = "allow"
       /\ PatternLength[text[j].value] \in Nat
  BY <1>7, <1>8, <1>9, <1>10, <1>11, <1>13, RobotsAssumption DEF Decides
<1>15. CASE j \in Added(old, text)
  BY <1>2, <1>8, <1>12, <1>13, <1>15
<1>16. CASE j \in 1..Len(old)
  <2>1. PICK l \in 1..Len(old) : IsAgent(old, l, token) /\ Governs(old, l, j)
    BY <1>6, <1>13, <1>16
  <2>2. Named(old, token)
    BY <1>1, <2>1, NamedFacts
  <2>3. BindingAgent(old, token) = token
    BY <2>2 DEF BindingAgent
  <2>4. j \in RulesFor(old, token)
    BY <1>1, <1>16, <2>1, <2>3, RulesForFacts
  <2>5. old[j] = text[j]
    BY <1>1, <1>16
  <2>6. CASE text[j].field = call
    BY <1>2, <1>12, <2>6
  <2>7. CASE text[j].field # call
    BY <1>2, <1>13, <1>14, <2>2, <2>4, <2>5, <2>7
  <2>8. QED
    BY <2>6, <2>7
<1>17. QED
  BY <1>13, <1>15, <1>16, ExtendsFacts

\* What a proposal calls for is what the preset expects.
LEMMA CallsAlign ==
    ASSUME NEW p, NEW results, NEW i, NEW call, call = Calls(p, results, i), call # "none"
    PROVE  EvaluateAlignment(p, Registry[i].purpose,
                             IF call = "allow" THEN "allowed" ELSE "blocked") = "aligned"
<1>1. PICK expectation : expectation = ExpectationFor(p, Registry[i].purpose)
  OBVIOUS
<1>2. PICK result : result = results[i].result
  OBVIOUS
<1>3. \A r : EvaluateAlignment(p, Registry[i].purpose, r) =
            IF expectation = "no_expectation" THEN "not_applicable"
            ELSE IF r \notin {"allowed", "blocked"} THEN "review_needed"
            ELSE IF \/ expectation = "expect_explicit_decision"
                    \/ (expectation = "expect_allowed") = (r = "allowed")
                 THEN "aligned" ELSE "misaligned"
  BY <1>1 DEF EvaluateAlignment
<1>4. EvaluateAlignment(p, Registry[i].purpose, result) = "misaligned"
  BY <1>2 DEF Calls, Proposal
<1>5. \/ call = "allow" /\ result = "blocked"
      \/ call = "disallow" /\ result = "allowed"
  <2>1. PICK c : c = Registry[i]
    OBVIOUS
  <2>2. call = Proposal(p, c, result)
    BY <1>2, <2>1 DEF Calls
  <2>3. QED
    BY <2>2 DEF Proposal
<1>6. /\ expectation # "no_expectation" /\ expectation # "expect_explicit_decision"
      /\ (expectation = "expect_allowed") # (result = "allowed")
  BY <1>3, <1>4, <1>5
<1>7. QED
  BY <1>3, <1>5, <1>6

-----------------------------------------------------------------------------
(* Policy: the theorems *)

\* A report is of the file as it is, a former one of what the proposal was
\* appended to.
ReportsAreCurrent ==
    /\ preset \in Presets /\ file \in Seq(Line)
    /\ report # NoReport => report = ReportOf(file)
    /\ former # NoReport =>
        /\ former.file \in Seq(Line) /\ former = ReportOf(former.file)
        /\ file = former.proposedText

LEMMA ReportFacts ==
    ASSUME NEW text \in Seq(Line)
    PROVE  /\ ReportOf(text).file = text
           /\ ReportOf(text).results = ResultsOf(text)
           /\ \A i \in 1..Len(Registry) : ResultsOf(text)[i] =
                EvaluateRobots(ParseRobotsTxt(text), Registry[i].token)
           /\ ReportOf(text).proposedText \in Seq(Line)
           /\ Extends(preset, ResultsOf(text), text, ReportOf(text).proposedText)
<1>1. ReportOf(text).file = text /\ ReportOf(text).results = ResultsOf(text)
  BY DEF ReportOf
<1>2. \A i \in 1..Len(Registry) : ResultsOf(text)[i] =
            EvaluateRobots(ParseRobotsTxt(text), Registry[i].token)
  BY RegistryFacts DEF ResultsOf
<1>3. PICK added : added = GenerateRecommendations(preset, ResultsOf(text))
  OBVIOUS
<1>4. ReportOf(text).proposedText = text \o added
  BY <1>3 DEF ReportOf, FullProposedText
<1>5. AreGroups(preset, ResultsOf(text), Len(Registry), added)
  BY <1>3, RecommendationsAreGroups
<1>6. Extends(preset, ResultsOf(text), text, ReportOf(text).proposedText)
  BY <1>4, <1>5, AppendedExtends
<1>7. ReportOf(text).proposedText \in Seq(Line)
  BY <1>6 DEF Extends
<1>8. QED
  BY <1>1, <1>2, <1>6, <1>7

\* Every report is one of the file that is there, and a former report of the
\* file its proposal was appended to.
THEOREM PolicyInvariant == PolicySpec => []ReportsAreCurrent
<1>1. PolicyInit => ReportsAreCurrent
  BY DEF PolicyInit, ReportsAreCurrent
<1>2. ReportsAreCurrent /\ [PolicyNext]_policyVars => ReportsAreCurrent'
  <2> SUFFICES ASSUME ReportsAreCurrent, [PolicyNext]_policyVars
               PROVE  ReportsAreCurrent'
    OBVIOUS
  <2> USE DEF ReportsAreCurrent
  <2>1. ASSUME NEW line \in Line, SiteChanges(line)
        PROVE  ReportsAreCurrent'
    <3>1. Append(file, line) \in Seq(Line)
      OBVIOUS
    <3>2. QED
      BY <2>1, <3>1 DEF SiteChanges
  <2>2. ASSUME RunAudit
        PROVE  ReportsAreCurrent'
    <3>1. preset' = preset /\ file' = file /\ former' = former /\ report' = ReportOf(file)
      BY <2>2 DEF RunAudit
    <3>2. \A text : ReportOf(text)' = ReportOf(text)
      BY <3>1 DEF ReportOf, ResultsOf
    <3>3. QED
      BY <3>1, <3>2
  <2>3. ASSUME ApplyProposal
        PROVE  ReportsAreCurrent'
    <3>1. /\ preset' = preset /\ file' = report.proposedText /\ former' = report
          /\ report' = NoReport /\ report = ReportOf(file)
      BY <2>3 DEF ApplyProposal
    <3>2. report.file = file /\ report.proposedText \in Seq(Line)
      BY <3>1, ReportFacts
    <3>3. ReportOf(file)' = ReportOf(file') /\ \A text : ReportOf(text)' = ReportOf(text)
      BY <3>1 DEF ReportOf, ResultsOf
    <3>4. QED
      BY <3>1, <3>2, <3>3
  <2>4. ASSUME UNCHANGED policyVars
        PROVE  ReportsAreCurrent'
    <3>1. /\ preset' = preset /\ file' = file /\ former' = former /\ report' = report
      BY <2>4 DEF policyVars
    <3>2. \A text : ReportOf(text)' = ReportOf(text)
      BY <3>1 DEF ReportOf, ResultsOf
    <3>3. QED
      BY <3>1, <3>2
  <2>5. QED
    BY <2>1, <2>2, <2>3, <2>4 DEF PolicyNext
<1>3. QED
  BY <1>1, <1>2, PTL DEF PolicySpec

\* An audit says of a crawler what RFC 9309 does, and cites for a block a rule
\* that decides, for every robots.txt.
THEOREM ResultsFollowTheFileHolds == PolicySpec => []ResultsFollowTheFile
<1>1. ReportsAreCurrent => ResultsFollowTheFile
  <2> SUFFICES ASSUME ReportsAreCurrent, report # NoReport, NEW i \in 1..Len(Registry)
               PROVE  \/ OnlyEmptyRules(file, Registry[i].token)
                      \/ /\ report.results[i].result = RFCResult(file, Registry[i].token)
                         /\ report.results[i].result = "blocked" =>
                                report.results[i].lineNumber \in Decisive(file, Registry[i].token)
    BY RegistryFacts DEF ResultsFollowTheFile
  <2>1. file \in Seq(Line) /\ report = ReportOf(file)
    BY DEF ReportsAreCurrent
  <2>2. report.results[i] = EvaluateRobots(ParseRobotsTxt(file), Registry[i].token)
    BY <2>1, ReportFacts
  <2>3. QED
    BY <2>1, <2>2, RegistryFacts, EvaluationIsRFC
<1>2. QED
  BY <1>1, PolicyInvariant, PTL

\* Appended, a proposal has the crawler evaluated as the preset expects, unless
\* rules of its own outweigh it or the first group appended became its own.
THEOREM AdviceTakesEffectHolds == PolicySpec => []AdviceTakesEffect
<1>1. ReportsAreCurrent => AdviceTakesEffect
  <2> SUFFICES ASSUME ReportsAreCurrent, report # NoReport, former # NoReport,
                      NEW i \in 1..Len(Registry), Advised(i) # "none",
                      Registry[i].token \notin TrailingAgents(former.file)
               PROVE  \/ EvaluateAlignment(preset, Registry[i].purpose, report.results[i].result)
                            = "aligned"
                      \/ OutweighsAdvice(i)
    BY RegistryFacts DEF AdviceTakesEffect
  <2>1. PICK old \in Seq(Line) : old = former.file
    BY DEF ReportsAreCurrent
  <2>2. /\ file \in Seq(Line) /\ report = ReportOf(file)
        /\ former = ReportOf(old) /\ file = former.proposedText
    BY <2>1 DEF ReportsAreCurrent
  <2>3. Extends(preset, former.results, old, file)
    BY <2>2, ReportFacts
  <2>4. PICK token : token = Registry[i].token
    OBVIOUS
  <2>5. PICK e : e = EvaluateRobots(ParseRobotsTxt(file), token)
    OBVIOUS
  <2>6. report.results[i] = e
    BY <2>2, <2>4, <2>5, ReportFacts
  <2>7. PICK call : call = Advised(i)
    OBVIOUS
  <2>8. call = Calls(preset, former.results, i) /\ call # "none"
    BY <2>7 DEF Advised, Calls
  <2>9. \/ e.result = IF call = "allow" THEN "allowed" ELSE "blocked"
        \/ /\ Named(old, token)
           /\ \E k \in RulesFor(old, token) :
                /\ old[k].value \in Matching
                /\ IF call = "allow"
                   THEN old[k].field = "disallow" /\ PatternLength[old[k].value] > 1
                   ELSE old[k].field = "allow" /\ PatternLength[old[k].value] >= 1
    BY <2>1, <2>3, <2>4, <2>5, <2>8, AdvisedFollows
  <2>10. EvaluateAlignment(preset, Registry[i].purpose,
                           IF call = "allow" THEN "allowed" ELSE "blocked") = "aligned"
    BY <2>8, CallsAlign
  <2>11. QED
    BY <2>1, <2>4, <2>6, <2>7, <2>9, <2>10 DEF OutweighsAdvice
<1>2. QED
  BY <1>1, PolicyInvariant, PTL

\* Appended, a proposal changes the result of no crawler it is not for, unless
\* that crawler's group or the group of "*" was still without rules at the end.
THEOREM AdviceBindsOnlyItsCrawlersHolds == PolicySpec => []AdviceBindsOnlyItsCrawlers
<1>1. ReportsAreCurrent => AdviceBindsOnlyItsCrawlers
  <2> SUFFICES ASSUME ReportsAreCurrent, report # NoReport, former # NoReport,
                      NEW i \in 1..Len(Registry), Advised(i) = "none",
                      TrailingAgents(former.file) \cap {Registry[i].token, AnyAgent} = {}
               PROVE  report.results[i].result = former.results[i].result
    BY RegistryFacts DEF AdviceBindsOnlyItsCrawlers
  <2>1. PICK old \in Seq(Line) : old = former.file
    BY DEF ReportsAreCurrent
  <2>2. /\ file \in Seq(Line) /\ report = ReportOf(file)
        /\ former = ReportOf(old) /\ file = former.proposedText
    BY <2>1 DEF ReportsAreCurrent
  <2>3. Extends(preset, former.results, old, file)
    BY <2>2, ReportFacts
  <2>4. PICK token : token = Registry[i].token
    OBVIOUS
  <2>5. /\ report.results[i] = EvaluateRobots(ParseRobotsTxt(file), token)
        /\ former.results[i] = EvaluateRobots(ParseRobotsTxt(old), token)
    BY <2>2, <2>4, ReportFacts
  <2>6. Calls(preset, former.results, i) = "none"
    BY DEF Advised, Calls
  <2>7. QED
    BY <2>1, <2>3, <2>4, <2>5, <2>6, OthersUnchanged
<1>2. QED
  BY <1>1, PolicyInvariant, PTL

AppliedIsBounded == applied \in 0..MaxApplied

\* The type invariant, for every robots.txt.
THEOREM PolicyTypeCorrect == PolicySpec => []PolicyTypeOK
<1>1. ASSUME NEW text \in Seq(Line)
      PROVE  ReportOf(text) \in Report
  <2>1. ASSUME NEW i \in 1..Len(Registry)
        PROVE  ResultsOf(text)[i] \in
                    [result : {"allowed", "blocked", "no_explicit_rule"}, lineNumber : Nat]
    <3>1. PICK token \in Tokens : token = Registry[i].token
      BY RegistryFacts
    <3>2. PICK e : e = ResultsOf(text)[i]
      OBVIOUS
    <3>3. e = EvaluateRobots(ParseRobotsTxt(text), token)
      BY <3>1, <3>2, ReportFacts
    <3>4. HitLines(text, token) \subseteq Nat
      BY RulesForFacts DEF HitLines
    <3>5. \E r \in {"allowed", "blocked", "no_explicit_rule"}, l \in Nat : e = Trace(r, l)
      <4>1. CASE e = Trace("no_explicit_rule", 0)
        BY <4>1
      <4>2. CASE e = Trace("allowed", 0)
        BY <4>2
      <4>3. CASE \E k \in HitLines(text, token) :
                    e = Trace(IF text[k].field = "allow" THEN "allowed" ELSE "blocked", k)
        BY <3>4, <4>3
      <4>4. QED
        BY <3>1, <3>3, <4>1, <4>2, <4>3, EvaluationFacts
    <3>6. QED
      BY <3>2, <3>5 DEF Trace
  <2>2. ResultsOf(text) \in [DOMAIN Registry ->
            [result : {"allowed", "blocked", "no_explicit_rule"}, lineNumber : Nat]]
    <3>1. ResultsOf(text) = [i \in DOMAIN Registry |-> ResultsOf(text)[i]]
      BY DEF ResultsOf
    <3>2. QED
      BY <2>1, <3>1, RegistryFacts
  <2>3. PICK q : q = ReportOf(text)
    OBVIOUS
  <2>4. q = [file |-> text, results |-> ResultsOf(text), proposedText |-> q.proposedText]
    BY <2>3 DEF ReportOf
  <2>5. q.proposedText \in Seq(Line)
    BY <2>3, ReportFacts
  <2>6. QED
    BY <2>2, <2>3, <2>4, <2>5 DEF Report
<1>2. ReportsAreCurrent => {report, former} \subseteq Report \cup {NoReport}
  BY <1>1 DEF ReportsAreCurrent
<1>3. PolicyInit => AppliedIsBounded
  BY AuditAssumption DEF PolicyInit, AppliedIsBounded
<1>4. AppliedIsBounded /\ [PolicyNext]_policyVars => AppliedIsBounded'
  BY AuditAssumption
     DEF AppliedIsBounded, PolicyNext, SiteChanges, RunAudit, ApplyProposal, policyVars
<1>5. ReportsAreCurrent /\ AppliedIsBounded => PolicyTypeOK
  BY <1>2 DEF ReportsAreCurrent, AppliedIsBounded, PolicyTypeOK
<1>6. QED
  BY <1>3, <1>4, <1>5, PolicyInvariant, PTL DEF PolicySpec
=============================================================================
