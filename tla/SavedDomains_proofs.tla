-------------------------- MODULE SavedDomains_proofs --------------------------
(***************************************************************************)
(* Proofs about SavedDomains, for any accounts, origins, overlapping       *)
(* requests and kills between two of their statements: one saved domain    *)
(* adopts the scan of a shared anonymous audit, a used continuation has    *)
(* saved its origin, and the saved-domain limit is overrun by a bounded    *)
(* number of rows.                                                         *)
(*                                                                         *)
(* SInv says what a request knows at each of its steps, and that the       *)
(* unique index of live rows holds.  The overrun is bounded by what each   *)
(* request that passed its count may still write (Limits).                 *)
(***************************************************************************)
EXTENDS SavedDomains, FiniteSetTheorems, TLAPS


-----------------------------------------------------------------------------
(* The inductive invariant *)

RowsOK ==
    /\ domain \in [DomainIds -> Domain \cup {NoDomain}]
    /\ \A d, e \in Live : domain[d].owner = domain[e].owner /\ domain[d].origin = domain[e].origin
                              => d = e
    /\ jobs \subseteq Users \X Keys
    /\ continuation \in [Continuations -> {"none", "open"} \cup Users]
    /\ scan \in [kept : BOOLEAN, domain : DomainIds \cup {0}]
    /\ request \in [Requests -> Request]

\* What a request says of itself at each of its steps.
StepOK(q) ==
    /\ q.flow = "none" <=> q.pc = "idle"
    /\ q.pc = "idle" => q.user = None /\ q.domain = 0
    /\ q.pc # "idle" => q.user \in Users
    /\ q.pc \in {"finding", "counting", "inserting", "pausing"} => q.origin \in Origins
    /\ q.pc = "counting" => q.flow # "import"
    /\ q.pc = "storing" => q.flow = "import" /\ q.rest = {}
    /\ q.pc \in {"refinding", "reading", "claiming", "rerunning", "recording"} =>
           q.flow = "handoff"
    /\ q.pc \in {"finding", "counting", "inserting", "storing", "refinding"} => q.domain = 0
    /\ q.pc \in {"pausing", "reading", "claiming", "rerunning", "recording"} => q.domain # 0
    /\ q.flow = "import" => q.key \in Keys
    /\ q.flow # "import" => q.rest = {}
    /\ q.origin \notin q.rest
    /\ IF q.flow = "handoff" THEN q.continuation \in Continuations /\ q.origin = AuditedOrigin
                             ELSE q.continuation = None

\* The row a request is at is the one it created or found: of its account and
\* its origin.
RowOf(q) ==
    q.domain # 0 => /\ q.domain \in Inserted
                    /\ domain[q.domain].owner = q.user /\ domain[q.domain].origin = q.origin

\* A request that has claimed the scan for its row will record it there.
ClaimOf(q) == q.adopts => q.pc = "recording" /\ scan.domain = q.domain

RequestsOK == \A r \in Requests : StepOK(request[r]) /\ RowOf(request[r]) /\ ClaimOf(request[r])

\* A continuation is held by the request of the account that used it, alone.
ContinuationsHeld ==
    \A r \in Requests : \A c \in Continuations : request[r].continuation = c =>
        /\ continuation[c] = request[r].user
        /\ \A q \in Requests : request[q].continuation = c => q = r

SInv == RowsOK /\ RequestsOK /\ ContinuationsHeld

\* What a request may still save is within the limit.
GrantsWithinLimit ==
    \A r \in Requests : \A u \in Users : request[r].user = u =>
        Cardinality(Granted(r)) <= SavedDomainLimit[u]

-----------------------------------------------------------------------------
(* Requests and their steps *)

Steps == {"idle", "finding", "counting", "inserting", "pausing", "storing", "refinding",
          "reading", "claiming", "rerunning", "recording"}

LEMMA RequestFields ==
    ASSUME NEW q \in Request
    PROVE  /\ q.flow \in {"none", "save", "import", "handoff"} /\ q.pc \in Steps
           /\ q.user \in Users \cup {None} /\ q.origin \in Origins \cup {None}
           /\ q.rest \subseteq Origins /\ q.key \in Keys \cup {None}
           /\ q.continuation \in Continuations \cup {None}
           /\ q.domain \in DomainIds \cup {0} /\ q.adopts \in BOOLEAN
  BY DEF Request, Steps

LEMMA IdleFacts ==
    /\ IdleRequest \in Request /\ StepOK(IdleRequest)
    /\ IdleRequest.pc = "idle" /\ IdleRequest.user = None /\ IdleRequest.domain = 0
    /\ IdleRequest.rest = {} /\ IdleRequest.continuation = None /\ ~IdleRequest.adopts
    /\ IdleRequest.flow = "none"
  BY DEF IdleRequest, Request, States, StepOK

\* A request that goes to another step, keeping what it has.
LEMMA GoFacts ==
    ASSUME NEW q \in Request, NEW pc \in Steps
    PROVE  LET go == [q EXCEPT !.pc = pc]
           IN  /\ go \in Request /\ go.pc = pc
               /\ go.flow = q.flow /\ go.user = q.user /\ go.origin = q.origin
               /\ go.rest = q.rest /\ go.key = q.key /\ go.domain = q.domain
               /\ go.continuation = q.continuation /\ go.adopts = q.adopts
  BY DEF Request, Steps

\* An import that goes on has its rows before it, less than it had.
LEMMA AtRowsFacts ==
    ASSUME NEW q \in Request, q.flow = "import", NEW rows \in SUBSET Origins,
           q.user \in Users, q.key \in Keys, q.continuation = None, ~q.adopts,
           NEW go \in AtRows(q, rows)
    PROVE  /\ go \in Request /\ StepOK(go)
           /\ go.pc \in {"finding", "storing"} /\ go.flow = "import" /\ go.user = q.user
           /\ go.domain = 0 /\ go.continuation = None /\ ~go.adopts
           /\ go.pc = "storing" => go.rest = {}
           /\ go.pc = "finding" => {go.origin} \cup go.rest = rows
<1>1. CASE rows = {}
  <2>1. go = [q EXCEPT !.pc = "storing", !.origin = None, !.rest = {}, !.domain = 0]
    BY <1>1 DEF AtRows
  <2>2. /\ go \in Request
        /\ go.pc = "storing" /\ go.flow = "import" /\ go.user = q.user /\ go.domain = 0
        /\ go.continuation = None /\ ~go.adopts /\ go.rest = {} /\ go.key = q.key
    BY <2>1 DEF Request
  <2>3. QED
    BY <2>2 DEF StepOK
<1>2. CASE rows # {}
  <2>1. PICK o \in rows :
            go = [q EXCEPT !.pc = "finding", !.origin = o, !.rest = rows \ {o}, !.domain = 0]
    BY <1>2 DEF AtRows
  <2>2. /\ go \in Request
        /\ go.pc = "finding" /\ go.flow = "import" /\ go.user = q.user /\ go.domain = 0
        /\ go.continuation = None /\ ~go.adopts /\ go.rest = rows \ {o} /\ go.key = q.key
        /\ go.origin = o
    BY <2>1 DEF Request
  <2>3. QED
    BY <2>2 DEF StepOK
<1>3. QED
  BY <1>1, <1>2

\* What a request does after a row it has not created, or has created.
LEMMA AfterRowFacts ==
    ASSUME SInv, NEW r \in Requests, request[r].flow # "handoff", NEW go \in AfterRow(r),
           request[r].flow # "none"
    PROVE  /\ go \in Request /\ StepOK(go) /\ go.domain = 0 /\ ~go.adopts
           /\ go.continuation = None
           /\ \/ go = IdleRequest
              \/ /\ request[r].flow = "import" /\ go.flow = "import"
                 /\ go.user = request[r].user /\ go.pc \in {"finding", "storing"}
                 /\ go.pc = "storing" => go.rest = {}
                 /\ go.pc = "finding" => {go.origin} \cup go.rest = request[r].rest
<1>1. request[r] \in Request /\ StepOK(request[r]) /\ ClaimOf(request[r])
  BY DEF SInv, RowsOK, RequestsOK
<1>2. CASE request[r].flow = "import"
  <2>1. /\ request[r].user \in Users /\ request[r].key \in Keys
        /\ request[r].continuation = None /\ request[r].rest \in SUBSET Origins
        /\ ~request[r].adopts
    BY <1>1, <1>2, RequestFields DEF StepOK, ClaimOf
  <2>2. go \in AtRows(request[r], request[r].rest)
    BY <1>2 DEF AfterRow
  <2>3. QED
    BY <1>1, <1>2, <2>1, <2>2, AtRowsFacts
<1>3. CASE request[r].flow # "import"
  BY <1>3, IdleFacts DEF AfterRow
<1>4. QED
  BY <1>2, <1>3

LEMMA InsertedFacts ==
    ASSUME RowsOK
    PROVE  /\ \A d \in DomainIds : d \in Inserted <=> domain[d] \in Domain
           /\ NoDomain \notin Domain /\ Inserted \subseteq DomainIds
<1>1. NoDomain \notin Domain
  <2>1. "owner" \notin DOMAIN NoDomain
    BY DEF NoDomain
  <2>2. \A d \in Domain : "owner" \in DOMAIN d
    BY DEF Domain
  <2>3. QED
    BY <2>1, <2>2
<1>2. QED
  BY <1>1 DEF RowsOK, Inserted

-----------------------------------------------------------------------------
(* One request moves, the others stay *)

Moves(r, q) == q \in Request /\ StepOK(q) /\ request' = [request EXCEPT ![r] = q]

\* What r holds after its step, and what it has done to continuations.
Holds(r, q) ==
    /\ continuation' \in [Continuations -> {"none", "open"} \cup Users]
    /\ \A c \in Continuations : q.continuation = c =>
          /\ continuation'[c] = q.user
          /\ request[r].continuation = c \/ continuation[c] \notin Users
    /\ \A c \in Continuations :
          \/ continuation'[c] = continuation[c] \/ continuation[c] \notin Users
          \/ request[r].continuation = c

RowsKeep ==
    \A d \in Inserted : /\ d \in Inserted' /\ domain'[d].owner = domain[d].owner
                        /\ domain'[d].origin = domain[d].origin

LEMMA HeldBy ==
    ASSUME SInv, NEW p \in Requests, NEW c \in Continuations, request[p].continuation = c
    PROVE  request[p].user \in Users /\ continuation[c] = request[p].user
<1>1. StepOK(request[p]) /\ c # None
  BY SavedDomainsAssumption DEF SInv, RequestsOK
<1>2. request[p].user \in Users
  BY <1>1 DEF StepOK
<1>3. QED
  BY <1>2 DEF SInv, ContinuationsHeld

LEMMA HeldMoves ==
    ASSUME SInv, NEW r \in Requests, NEW q, Moves(r, q), Holds(r, q)
    PROVE  ContinuationsHeld'
<1>1. request'[r] = q /\ \A p \in Requests \ {r} : request'[p] = request[p]
  BY DEF Moves, SInv, RowsOK
<1>2. ASSUME NEW p \in Requests \ {r}, NEW c \in Continuations, request[p].continuation = c
      PROVE  /\ continuation'[c] = request[p].user /\ q.continuation # c
             /\ request[r].continuation # c
  <2>1. continuation[c] \in Users /\ continuation[c] = request[p].user
    BY <1>2, HeldBy
  <2>2. request[r].continuation # c
    BY <1>2 DEF SInv, ContinuationsHeld
  <2>3. QED
    BY <2>1, <2>2 DEF Holds
<1>3. ASSUME NEW c \in Continuations, q.continuation = c
      PROVE  continuation'[c] = q.user
  BY <1>3 DEF Holds
<1>4. QED
  BY <1>1, <1>2, <1>3 DEF SInv, ContinuationsHeld

LEMMA RequestsMove ==
    ASSUME SInv, NEW r \in Requests, NEW q, Moves(r, q), RowsKeep,
           scan'.domain = scan.domain \/ scan.domain = 0,
           q.domain # 0 => /\ q.domain \in Inserted'
                           /\ domain'[q.domain].owner = q.user
                           /\ domain'[q.domain].origin = q.origin,
           q.adopts => q.pc = "recording" /\ scan'.domain = q.domain
    PROVE  RequestsOK' /\ request' \in [Requests -> Request]
<1>1. request'[r] = q /\ \A p \in Requests \ {r} : request'[p] = request[p]
  BY DEF Moves, SInv, RowsOK
<1>2. request' \in [Requests -> Request]
  BY DEF Moves, SInv, RowsOK
<1>3. ASSUME NEW p \in Requests \ {r}
      PROVE  StepOK(request'[p]) /\ RowOf(request[p])' /\ ClaimOf(request[p])'
  <2>1. StepOK(request[p]) /\ RowOf(request[p]) /\ ClaimOf(request[p])
    BY DEF SInv, RequestsOK
  <2>2. RowOf(request[p])'
    BY <1>1, <2>1 DEF RowOf, RowsKeep
  <2>3. request[p].adopts => scan.domain # 0
    BY <2>1 DEF ClaimOf, StepOK
  <2>4. ClaimOf(request[p])'
    BY <1>1, <2>1, <2>3 DEF ClaimOf
  <2>5. QED
    BY <1>1, <2>1, <2>2, <2>4
<1>4. StepOK(request'[r]) /\ RowOf(request[r])' /\ ClaimOf(request[r])'
  BY <1>1 DEF Moves, RowOf, ClaimOf
<1>5. \A p \in Requests : StepOK(request[p])'
  BY <1>3, <1>4 DEF StepOK
<1>6. QED
  BY <1>2, <1>3, <1>4, <1>5 DEF RequestsOK

\* A step that writes no domain, no job and no scan.
LEMMA QuietMove ==
    ASSUME SInv, NEW r \in Requests, NEW q, Moves(r, q), Holds(r, q),
           UNCHANGED <<domain, jobs, scan>>,
           q.domain # 0 => /\ q.domain \in Inserted
                           /\ domain[q.domain].owner = q.user
                           /\ domain[q.domain].origin = q.origin,
           q.adopts => q.pc = "recording" /\ scan.domain = q.domain
    PROVE  SInv'
<1>1. RowsKeep /\ Inserted' = Inserted /\ Live' = Live
  BY DEF RowsKeep, Inserted, Live
<1>2. RequestsOK' /\ request' \in [Requests -> Request]
  BY <1>1, RequestsMove
<1>3. ContinuationsHeld'
  BY HeldMoves
<1>4. RowsOK'
  BY <1>1, <1>2 DEF SInv, RowsOK, Holds
<1>5. QED
  BY <1>2, <1>3, <1>4 DEF SInv

\* A request that keeps or drops what it holds.
LEMMA HoldsStay ==
    ASSUME SInv, NEW r \in Requests, NEW q, continuation' = continuation,
           \/ q.continuation = None
           \/ q.continuation = request[r].continuation /\ q.user = request[r].user
    PROVE  Holds(r, q)
<1>1. ASSUME NEW c \in Continuations, q.continuation = c
      PROVE  continuation'[c] = q.user /\ request[r].continuation = c
  BY <1>1, HeldBy, SavedDomainsAssumption
<1>2. QED
  BY <1>1 DEF Holds, SInv, RowsOK

LEMMA FailsFacts ==
    ASSUME SInv, NEW r \in Requests, Fails(r)
    PROVE  Moves(r, IdleRequest) /\ Holds(r, IdleRequest)
<1>1. Moves(r, IdleRequest)
  BY IdleFacts DEF Fails, Leaves, Becomes, Moves
<1>2. \/ continuation' = continuation
      \/ /\ request[r].continuation \in Continuations
         /\ continuation' = [continuation EXCEPT ![request[r].continuation] = "none"]
  BY DEF Fails, SInv, RequestsOK, StepOK
<1>3. continuation' \in [Continuations -> {"none", "open"} \cup Users]
  BY <1>2 DEF SInv, RowsOK
<1>4. \A c \in Continuations : continuation'[c] = continuation[c] \/ request[r].continuation = c
  BY <1>2 DEF SInv, RowsOK
<1>5. QED
  BY <1>1, <1>3, <1>4, IdleFacts, SavedDomainsAssumption DEF Holds

-----------------------------------------------------------------------------
(* Every step preserves the invariant *)

LEMMA AtStep ==
    ASSUME SInv, NEW r \in Requests
    PROVE  /\ request[r] \in Request /\ StepOK(request[r])
           /\ RowOf(request[r]) /\ ClaimOf(request[r])
  BY DEF SInv, RowsOK, RequestsOK

\* A request at one of its steps goes to another one or is done.
LEMMA GoesOn ==
    ASSUME SInv, NEW r \in Requests, NEW pc \in Steps, Goes(r, pc), ~request[r].adopts,
           StepOK([request[r] EXCEPT !.pc = pc]),
           UNCHANGED <<domain, jobs, continuation, scan>>
    PROVE  SInv'
<1> DEFINE q == [request[r] EXCEPT !.pc = pc]
<1>1. /\ q \in Request /\ q.user = request[r].user /\ q.origin = request[r].origin
      /\ q.domain = request[r].domain /\ ~q.adopts
      /\ q.continuation = request[r].continuation
  BY AtStep, GoFacts
<1>2. Moves(r, q)
  BY <1>1 DEF Moves, Goes, Becomes
<1>3. Holds(r, q)
  BY <1>1, HoldsStay
<1>4. QED
  BY <1>1, <1>2, <1>3, AtStep, QuietMove DEF RowOf

LEMMA LeavesOff ==
    ASSUME SInv, NEW r \in Requests, Leaves(r), UNCHANGED <<domain, jobs, continuation, scan>>
    PROVE  SInv'
<1>1. Moves(r, IdleRequest)
  BY IdleFacts DEF Moves, Leaves, Becomes
<1>2. Holds(r, IdleRequest)
  BY IdleFacts, HoldsStay
<1>3. QED
  BY <1>1, <1>2, IdleFacts, QuietMove

LEMMA FailsOff ==
    ASSUME SInv, NEW r \in Requests, Fails(r), UNCHANGED <<domain, jobs, scan>>
    PROVE  SInv'
  BY FailsFacts, IdleFacts, QuietMove

\* An import goes on to its next row, a saved domain is saved.
LEMMA RowDone ==
    ASSUME SInv, NEW r \in Requests, request[r].flow \in {"save", "import"},
           NEW go \in AfterRow(r), Becomes(r, go), UNCHANGED continuation
    PROVE  Moves(r, go) /\ Holds(r, go) /\ go.domain = 0 /\ ~go.adopts
  BY AfterRowFacts, HoldsStay DEF Moves, Becomes

WithRow(row, old) ==
    /\ row \in Domain /\ row.owner = old.owner /\ row.origin = old.origin /\ row.live = old.live

\* Row d is written, its account, origin and life as they were.
RowWritten(d) ==
    \/ domain' = domain
    \/ /\ d \in Inserted
       /\ \E row : WithRow(row, domain[d]) /\ domain' = [domain EXCEPT ![d] = row]

LEMMA RowMove ==
    ASSUME SInv, NEW r \in Requests, NEW q, Moves(r, q), Holds(r, q),
           NEW d \in DomainIds, RowWritten(d), UNCHANGED <<jobs, scan>>,
           q.domain # 0 => /\ q.domain \in Inserted
                           /\ domain[q.domain].owner = q.user
                           /\ domain[q.domain].origin = q.origin,
           ~q.adopts
    PROVE  SInv'
<1>1. CASE domain' = domain
  BY <1>1, QuietMove
<1>2. CASE domain' # domain
  <2>1. PICK row : /\ WithRow(row, domain[d]) /\ domain' = [domain EXCEPT ![d] = row]
                   /\ d \in Inserted
    BY <1>2 DEF RowWritten
  <2>2. /\ domain' \in [DomainIds -> Domain \cup {NoDomain}] /\ domain'[d] = row
        /\ \A e \in DomainIds \ {d} : domain'[e] = domain[e]
    BY <2>1 DEF SInv, RowsOK, WithRow
  <2>3. row # NoDomain
    BY <2>1, InsertedFacts DEF WithRow, SInv
  <2>4. \A e \in DomainIds : /\ e \in Inserted' <=> e \in Inserted
                             /\ domain'[e].owner = domain[e].owner
                             /\ domain'[e].origin = domain[e].origin
                             /\ domain'[e].live = domain[e].live
    BY <2>1, <2>2, <2>3 DEF WithRow, Inserted
  <2>5. Inserted' = Inserted /\ Live' = Live
    BY <2>4 DEF Inserted, Live
  <2>6. RowsKeep
    BY <2>4, <2>5 DEF RowsKeep, Inserted
  <2>7. RequestsOK' /\ request' \in [Requests -> Request]
    BY <2>4, <2>5, <2>6, RequestsMove DEF Inserted
  <2>8. \A e, f \in Live' : domain'[e].owner = domain'[f].owner
                            /\ domain'[e].origin = domain'[f].origin => e = f
    BY <2>4, <2>5 DEF SInv, RowsOK, Live, Inserted
  <2>9. RowsOK'
    BY <2>2, <2>7, <2>8 DEF SInv, RowsOK, Holds
  <2>10. QED
    BY <2>7, <2>9, HeldMoves DEF SInv
<1>3. QED
  BY <1>1, <1>2

\* Continuations nobody has used come and go.
LEMMA ContinuationsMove ==
    ASSUME SInv, UNCHANGED <<domain, jobs, request>>,
           scan' \in [kept : BOOLEAN, domain : DomainIds \cup {0}], scan'.domain = scan.domain,
           continuation' \in [Continuations -> {"none", "open"} \cup Users],
           \A k \in Continuations : continuation[k] \in Users => continuation'[k] = continuation[k]
    PROVE  SInv'
<1>1. Inserted' = Inserted /\ Live' = Live
  BY DEF Inserted, Live
<1>2. RowsOK'
  BY <1>1 DEF SInv, RowsOK
<1>3. RequestsOK'
  BY <1>1 DEF SInv, RequestsOK, RowOf, ClaimOf, StepOK
<1>4. ASSUME NEW r \in Requests, NEW c \in Continuations, request[r].continuation = c
      PROVE  continuation'[c] = request[r].user
  BY <1>4, HeldBy
<1>5. ContinuationsHeld'
  BY <1>4 DEF SInv, ContinuationsHeld
<1>6. QED
  BY <1>2, <1>3, <1>5 DEF SInv

LEMMA SInvStep == SInv /\ [Next]_vars => SInv'
<1> SUFFICES ASSUME SInv, [Next]_vars
             PROVE  SInv'
  OBVIOUS
<1>1. ASSUME NEW r \in Requests, NEW u \in Users, NEW o \in Origins, SaveDomain(r, u, o)
      PROVE  SInv'
  <2> DEFINE q == [IdleRequest EXCEPT !.flow = "save", !.pc = "finding", !.user = u, !.origin = o]
  <2>1. /\ q \in Request /\ q.domain = 0 /\ ~q.adopts /\ q.continuation = None
    BY DEF Request, IdleRequest, States
  <2>2. StepOK(q)
    BY SavedDomainsAssumption DEF StepOK, IdleRequest
  <2>3. Moves(r, q) /\ Holds(r, q)
    BY <1>1, <2>1, <2>2, HoldsStay DEF SaveDomain, Moves, Becomes
  <2>4. QED
    BY <1>1, <2>1, <2>3, QuietMove DEF SaveDomain
<1>2. ASSUME NEW r \in Requests, NEW u \in Users, NEW k \in Keys,
             NEW file \in SUBSET Origins \ {{}}, NEW state \in States,
             ConfirmImport(r, u, k, file, state)
      PROVE  SInv'
  <2>0. PICK q : q = [IdleRequest EXCEPT !.flow = "import", !.user = u, !.monitoring = state,
                              !.key = k]
    OBVIOUS
  <2>1. PICK rows \in Planned(u, file) : \E go \in AtRows(q, rows) : Becomes(r, go)
    BY <1>2, <2>0 DEF ConfirmImport
  <2>2. PICK go \in AtRows(q, rows) : Becomes(r, go)
    BY <2>1
  <2>3. /\ q \in Request /\ q.flow = "import" /\ q.user = u /\ q.key = k
        /\ q.continuation = None /\ ~q.adopts
    BY <2>0 DEF Request, IdleRequest, States
  <2>4. rows \in SUBSET Origins
    BY <2>1 DEF Planned
  <2>5. /\ go \in Request /\ StepOK(go) /\ go.domain = 0 /\ go.continuation = None /\ ~go.adopts
    BY <2>2, <2>3, <2>4, AtRowsFacts
  <2>6. Moves(r, go) /\ Holds(r, go)
    BY <1>2, <2>2, <2>5, HoldsStay DEF ConfirmImport, Moves, Becomes
  <2>7. QED
    BY <1>2, <2>5, <2>6, QuietMove DEF ConfirmImport
<1>3. ASSUME NEW r \in Requests, FindExisting(r)
      PROVE  SInv'
  <2>0. request[r] \in Request /\ StepOK(request[r]) /\ RowOf(request[r]) /\ ClaimOf(request[r])
    BY AtStep
  <2>1. CASE Goes(r, "inserting") /\ request[r].flow = "import"
    <3>1. /\ StepOK([request[r] EXCEPT !.pc = "inserting"])
          /\ ~request[r].adopts /\ "inserting" \in Steps
      BY <1>3, <2>0, <2>1, GoFacts DEF FindExisting, At, StepOK, ClaimOf, Steps
    <3>2. QED
      BY <1>3, <2>1, <3>1, GoesOn DEF FindExisting
  <2>2. CASE Goes(r, "counting") /\ request[r].flow # "import"
    <3>1. /\ StepOK([request[r] EXCEPT !.pc = "counting"])
          /\ ~request[r].adopts /\ "counting" \in Steps
      BY <1>3, <2>0, <2>2, GoFacts DEF FindExisting, At, StepOK, ClaimOf, Steps
    <3>2. QED
      BY <1>3, <2>2, <3>1, GoesOn DEF FindExisting
  <2>3. CASE Goes(r, "refinding") /\ request[r].flow = "handoff"
    <3>1. /\ StepOK([request[r] EXCEPT !.pc = "refinding"])
          /\ ~request[r].adopts /\ "refinding" \in Steps
      BY <1>3, <2>0, <2>3, GoFacts DEF FindExisting, At, StepOK, ClaimOf, Steps
    <3>2. QED
      BY <1>3, <2>3, <3>1, GoesOn DEF FindExisting
  <2>4. CASE request[r].flow # "handoff" /\ \E go \in AfterRow(r) : Becomes(r, go)
    <3>1. PICK go \in AfterRow(r) : Becomes(r, go)
      BY <2>4
    <3>2. request[r].flow \in {"save", "import"}
      BY <1>3, <2>0, <2>4, RequestFields DEF FindExisting, At, StepOK
    <3>3. Moves(r, go) /\ Holds(r, go) /\ go.domain = 0 /\ ~go.adopts
      BY <1>3, <3>1, <3>2, RowDone DEF FindExisting
    <3>4. QED
      BY <1>3, <3>3, QuietMove DEF FindExisting
  <2>5. QED
    BY <1>3, <2>1, <2>2, <2>3, <2>4 DEF FindExisting
<1>4. ASSUME NEW r \in Requests, CountActive(r)
      PROVE  SInv'
  <2>0. request[r] \in Request /\ StepOK(request[r]) /\ RowOf(request[r]) /\ ClaimOf(request[r])
    BY AtStep
  <2>1. CASE Goes(r, "inserting") /\ UNCHANGED continuation
    <3>1. /\ StepOK([request[r] EXCEPT !.pc = "inserting"])
          /\ ~request[r].adopts /\ "inserting" \in Steps
      BY <1>4, <2>0, <2>1, GoFacts DEF CountActive, At, StepOK, ClaimOf, Steps
    <3>2. QED
      BY <1>4, <2>1, <3>1, GoesOn DEF CountActive
  <2>2. CASE Fails(r)
    BY <1>4, <2>2, FailsOff DEF CountActive
  <2>3. QED
    BY <1>4, <2>1, <2>2 DEF CountActive
<1>5. ASSUME NEW r \in Requests, InsertDomain(r)
      PROVE  SInv'
  <2>0. request[r] \in Request /\ StepOK(request[r]) /\ RowOf(request[r]) /\ ClaimOf(request[r])
    BY AtStep
  <2>1. CASE Refused(request[r].user, request[r].origin)
    BY <1>5, <2>1, FailsOff DEF InsertDomain
  <2>2. CASE ~Refused(request[r].user, request[r].origin)
    <3> DEFINE row(u, o) == [owner |-> u, origin |-> o, state |-> "active", adopted |-> FALSE,
                             live |-> TRUE]
    <3>u. PICK u \in Users : u = request[r].user
      BY <1>5, <2>0 DEF InsertDomain, At, StepOK
    <3>o. PICK o \in Origins : o = request[r].origin
      BY <1>5, <2>0 DEF InsertDomain, At, StepOK
    <3>f. request[r].domain = 0 /\ ~request[r].adopts /\ request[r].pc = "inserting"
          /\ request[r].flow \in {"save", "import", "handoff"}
      BY <1>5, <2>0, RequestFields DEF InsertDomain, At, StepOK, ClaimOf
    <3>1. PICK d \in DomainIds :
            /\ NextId(d)
            /\ domain' = [domain EXCEPT ![d] = row(u, o)]
            /\ \E q : /\ Becomes(r, q)
                      /\ \/ q = [request[r] EXCEPT !.pc = "pausing", !.domain = d]
                         \/ /\ request[r].flow = "handoff"
                            /\ q = [request[r] EXCEPT !.pc = "reading", !.domain = d]
                         \/ request[r].flow # "handoff" /\ q \in AfterRow(r)
      BY <1>5, <2>2, <3>u, <3>o DEF InsertDomain, AfterInsert
    <3>2. d \notin Inserted /\ row(u, o) \in Domain /\ row(u, o) # NoDomain /\ d # 0
      BY <3>1, SavedDomainsAssumption DEF NextId, Domain, States, NoDomain, DomainIds
    <3>3. domain' \in [DomainIds -> Domain \cup {NoDomain}] /\ domain'[d] = row(u, o)
          /\ \A e \in DomainIds \ {d} : domain'[e] = domain[e]
      BY <3>1, <3>2 DEF SInv, RowsOK
    <3>4. RowsKeep /\ d \in Inserted' /\ Live' = Live \cup {d}
      BY <3>2, <3>3 DEF RowsKeep, Inserted, Live
    <3>5. \A e \in Live : ~(domain[e].owner = u /\ domain[e].origin = o)
      BY <2>2, <3>u, <3>o DEF Refused, Existing, LiveOf
    <3>6. \A e, f \in Live' : domain'[e].owner = domain'[f].owner
                              /\ domain'[e].origin = domain'[f].origin => e = f
      <4>1. \A e \in Live : e \in DomainIds \ {d}
        BY <3>2 DEF Live, Inserted
      <4>2. domain'[d].owner = u /\ domain'[d].origin = o
        BY <3>3
      <4>3. QED
        BY <3>3, <3>4, <3>5, <4>1, <4>2 DEF SInv, RowsOK
    <3>7. PICK q : /\ Becomes(r, q)
                   /\ \/ q = [request[r] EXCEPT !.pc = "pausing", !.domain = d]
                      \/ /\ request[r].flow = "handoff"
                         /\ q = [request[r] EXCEPT !.pc = "reading", !.domain = d]
                      \/ request[r].flow # "handoff" /\ q \in AfterRow(r)
      BY <3>1
    <3>8. /\ Moves(r, q) /\ Holds(r, q) /\ ~q.adopts
          /\ q.domain \in {0, d}
          /\ q.domain = d => q.user = u /\ q.origin = o
      <4>1. continuation' = continuation
        BY <1>5, <2>2 DEF InsertDomain
      <4>2. ASSUME NEW pc \in {"pausing", "reading"},
                   q = [request[r] EXCEPT !.pc = pc, !.domain = d],
                   pc = "reading" => request[r].flow = "handoff"
            PROVE  /\ Moves(r, q) /\ Holds(r, q) /\ ~q.adopts
                   /\ q.domain \in {0, d}
                   /\ q.domain = d => q.user = u /\ q.origin = o
        <5>2. /\ q \in Request /\ q.pc = pc /\ q.domain = d
              /\ q.flow = request[r].flow /\ q.user = request[r].user
              /\ q.origin = request[r].origin /\ q.rest = request[r].rest
              /\ q.key = request[r].key /\ q.continuation = request[r].continuation
              /\ q.adopts = request[r].adopts
          BY <2>0, <4>2 DEF Request
        <5>3. StepOK(q)
          BY <2>0, <3>f, <3>2, <4>2, <5>2 DEF StepOK
        <5>4. Moves(r, q) /\ Holds(r, q)
          BY <3>7, <4>1, <5>2, <5>3, HoldsStay DEF Moves, Becomes
        <5>5. QED
          BY <3>u, <3>o, <3>f, <5>2, <5>4
      <4>3. CASE request[r].flow # "handoff" /\ q \in AfterRow(r)
        BY <3>2, <3>7, <3>f, <4>1, <4>3, RowDone
      <4>4. QED
        BY <3>7, <4>2, <4>3
    <3>a. q.domain # 0 => /\ q.domain \in Inserted' /\ domain'[q.domain].owner = q.user
                          /\ domain'[q.domain].origin = q.origin
      BY <3>3, <3>4, <3>8
    <3>b. scan' = scan
      BY <1>5 DEF InsertDomain
    <3>9. RequestsOK' /\ request' \in [Requests -> Request]
      BY <3>4, <3>8, <3>a, <3>b, RequestsMove
    <3>10. RowsOK'
      BY <1>5, <3>3, <3>6, <3>8, <3>9 DEF InsertDomain, SInv, RowsOK, Holds
    <3>11. QED
      BY <3>8, <3>9, <3>10, HeldMoves DEF SInv
  <2>3. QED
    BY <2>1, <2>2
<1>6. ASSUME NEW r \in Requests, PauseCreated(r)
      PROVE  SInv'
  <2>0. request[r] \in Request /\ StepOK(request[r]) /\ RowOf(request[r]) /\ ClaimOf(request[r])
    BY AtStep
  <2>1. PICK d \in DomainIds : d = request[r].domain
    BY <1>6, <2>0, RequestFields DEF PauseCreated, At, StepOK
  <2>2. RowWritten(d)
    <3>1. \/ domain' = domain
          \/ d \in Live /\ domain' = [domain EXCEPT ![d] = [domain[d] EXCEPT !.state = "paused"]]
      BY <1>6, <2>1 DEF PauseCreated
    <3>2. domain[d] \in Domain => WithRow([domain[d] EXCEPT !.state = "paused"], domain[d])
      BY DEF Domain, States, WithRow
    <3>3. QED
      BY <3>1, <3>2, InsertedFacts DEF RowWritten, Live, SInv
  <2>3. CASE request[r].flow = "handoff" /\ Goes(r, "reading")
    <3> DEFINE q == [request[r] EXCEPT !.pc = "reading"]
    <3>1. /\ q \in Request /\ q.domain = d /\ q.user = request[r].user
          /\ q.origin = request[r].origin /\ q.continuation = request[r].continuation
          /\ ~q.adopts /\ StepOK(q)
      <4>1. "reading" \in Steps
        BY DEF Steps
      <4>2. /\ q \in Request /\ q.pc = "reading" /\ q.flow = request[r].flow
            /\ q.user = request[r].user /\ q.origin = request[r].origin
            /\ q.rest = request[r].rest /\ q.key = request[r].key
            /\ q.domain = request[r].domain /\ q.continuation = request[r].continuation
            /\ q.adopts = request[r].adopts
        BY <2>0, <4>1, GoFacts
      <4>3. QED
        BY <1>6, <2>0, <2>1, <2>3, <4>2 DEF PauseCreated, At, StepOK, ClaimOf
    <3>2. Moves(r, q) /\ Holds(r, q)
      BY <1>6, <2>3, <3>1, HoldsStay DEF PauseCreated, Moves, Goes, Becomes
    <3>3. QED
      BY <1>6, <2>0, <2>1, <2>2, <3>1, <3>2, RowMove DEF PauseCreated, RowOf
  <2>4. CASE request[r].flow # "handoff" /\ \E go \in AfterRow(r) : Becomes(r, go)
    <3>1. PICK go \in AfterRow(r) : Becomes(r, go)
      BY <2>4
    <3>2. request[r].flow \in {"save", "import"}
      BY <1>6, <2>0, <2>4, RequestFields DEF PauseCreated, At, StepOK
    <3>3. Moves(r, go) /\ Holds(r, go) /\ go.domain = 0 /\ ~go.adopts
      BY <1>6, <3>1, <3>2, RowDone DEF PauseCreated
    <3>4. QED
      BY <1>6, <2>2, <3>3, RowMove DEF PauseCreated
  <2>5. QED
    BY <1>6, <2>3, <2>4 DEF PauseCreated
<1>7. ASSUME NEW r \in Requests, StoreJob(r)
      PROVE  SInv'
  <2>0. request[r] \in Request /\ StepOK(request[r]) /\ RowOf(request[r]) /\ ClaimOf(request[r])
    BY AtStep
  <2>1. Moves(r, IdleRequest) /\ Holds(r, IdleRequest)
    BY <1>7, IdleFacts, HoldsStay DEF StoreJob, Moves, Leaves, Becomes
  <2>2. RowsKeep /\ Inserted' = Inserted /\ Live' = Live
    BY <1>7 DEF StoreJob, RowsKeep, Inserted, Live
  <2>3. RequestsOK' /\ request' \in [Requests -> Request]
    BY <1>7, <2>1, <2>2, IdleFacts, RequestsMove DEF StoreJob
  <2>4. jobs' \subseteq Users \X Keys
    BY <1>7, <2>0 DEF StoreJob, At, StepOK, SInv, RowsOK
  <2>5. RowsOK'
    BY <1>7, <2>2, <2>3, <2>4 DEF StoreJob, SInv, RowsOK
  <2>6. QED
    BY <2>1, <2>3, <2>5, HeldMoves DEF SInv
<1>8. ASSUME NEW r \in Requests, NEW u \in Users, NEW c \in Continuations,
           ConsumeContinuation(r, u, c)
      PROVE  SInv'
  <2> DEFINE q == [IdleRequest EXCEPT !.flow = "handoff", !.pc = "finding", !.user = u,
                       !.origin = AuditedOrigin, !.continuation = c]
  <2>1. /\ q \in Request /\ q.domain = 0 /\ ~q.adopts /\ q.continuation = c /\ q.user = u
    BY SavedDomainsAssumption DEF Request, IdleRequest, States
  <2>2. StepOK(q)
    BY SavedDomainsAssumption DEF StepOK, IdleRequest
  <2>3. Moves(r, q)
    BY <1>8, <2>1, <2>2 DEF ConsumeContinuation, Moves, Becomes
  <2>4. Holds(r, q)
    BY <1>8, <2>1, SavedDomainsAssumption DEF ConsumeContinuation, Holds, SInv, RowsOK
  <2>5. QED
    BY <1>8, <2>1, <2>3, <2>4, QuietMove DEF ConsumeContinuation
<1>9. ASSUME NEW r \in Requests, FindOwned(r)
      PROVE  SInv'
  <2>0. request[r] \in Request /\ StepOK(request[r]) /\ RowOf(request[r]) /\ ClaimOf(request[r])
    BY AtStep
  <2>1. CASE Existing(request[r].user, request[r].origin) = {}
    BY <1>9, <2>1, FailsOff DEF FindOwned
  <2>2. CASE Existing(request[r].user, request[r].origin) # {}
    <3>1. PICK d \in Existing(request[r].user, request[r].origin) :
              Becomes(r, [request[r] EXCEPT !.pc = "reading", !.domain = d])
      BY <1>9, <2>2 DEF FindOwned
    <3>2. /\ d \in DomainIds /\ d \in Inserted /\ domain[d].owner = request[r].user
          /\ domain[d].origin = request[r].origin /\ d # 0
      BY <3>1, SavedDomainsAssumption DEF Existing, LiveOf, Live, Inserted, DomainIds
    <3>q. PICK q : q = [request[r] EXCEPT !.pc = "reading", !.domain = d]
      OBVIOUS
    <3>3. /\ q \in Request /\ q.pc = "reading" /\ q.domain = d
          /\ q.flow = request[r].flow /\ q.user = request[r].user
          /\ q.origin = request[r].origin /\ q.rest = request[r].rest
          /\ q.key = request[r].key /\ q.continuation = request[r].continuation
          /\ q.adopts = request[r].adopts
      BY <2>0, <3>2, <3>q DEF Request
    <3>4. StepOK(q) /\ ~q.adopts
      BY <1>9, <2>0, <3>2, <3>3 DEF FindOwned, At, StepOK, ClaimOf
    <3>5. Moves(r, q) /\ Holds(r, q)
      BY <1>9, <2>2, <3>1, <3>3, <3>4, <3>q, HoldsStay DEF FindOwned, Moves, Becomes
    <3>6. QED
      BY <1>9, <3>2, <3>3, <3>4, <3>5, QuietMove DEF FindOwned
  <2>3. QED
    BY <2>1, <2>2
<1>10. ASSUME NEW r \in Requests, ReadScan(r)
      PROVE  SInv'
  <2>0. request[r] \in Request /\ StepOK(request[r]) /\ RowOf(request[r]) /\ ClaimOf(request[r])
    BY AtStep
  <2>1. CASE Goes(r, "claiming")
    <3>1. /\ StepOK([request[r] EXCEPT !.pc = "claiming"])
          /\ ~request[r].adopts /\ "claiming" \in Steps
      BY <1>10, <2>0, GoFacts DEF ReadScan, At, StepOK, ClaimOf, Steps
    <3>2. QED
      BY <1>10, <2>1, <3>1, GoesOn DEF ReadScan
  <2>2. CASE Goes(r, "rerunning")
    <3>1. /\ StepOK([request[r] EXCEPT !.pc = "rerunning"])
          /\ ~request[r].adopts /\ "rerunning" \in Steps
      BY <1>10, <2>0, GoFacts DEF ReadScan, At, StepOK, ClaimOf, Steps
    <3>2. QED
      BY <1>10, <2>2, <3>1, GoesOn DEF ReadScan
  <2>3. QED
    BY <1>10, <2>1, <2>2, LeavesOff DEF ReadScan
<1>11. ASSUME NEW r \in Requests, ClaimScan(r)
      PROVE  SInv'
  <2>0. request[r] \in Request /\ StepOK(request[r]) /\ RowOf(request[r]) /\ ClaimOf(request[r])
    BY AtStep
  <2>1. CASE Goes(r, "rerunning") /\ UNCHANGED scan
    <3>1. /\ StepOK([request[r] EXCEPT !.pc = "rerunning"])
          /\ ~request[r].adopts /\ "rerunning" \in Steps
      BY <1>11, <2>0, GoFacts DEF ClaimScan, At, StepOK, ClaimOf, Steps
    <3>2. QED
      BY <1>11, <2>1, <3>1, GoesOn DEF ClaimScan
  <2>2. CASE Claimable
    <3>1. PICK d \in DomainIds : d = request[r].domain
      BY <1>11, <2>0, RequestFields DEF ClaimScan, At, StepOK
    <3> DEFINE q == [request[r] EXCEPT !.pc = "recording", !.adopts = TRUE]
    <3>2. /\ q \in Request /\ q.pc = "recording" /\ q.domain = d
          /\ q.flow = request[r].flow /\ q.user = request[r].user
          /\ q.origin = request[r].origin /\ q.rest = request[r].rest
          /\ q.key = request[r].key /\ q.continuation = request[r].continuation
      BY <2>0, <3>1 DEF Request
    <3>3. StepOK(q)
      BY <1>11, <2>0, <3>1, <3>2 DEF ClaimScan, At, StepOK
    <3>4. Moves(r, q) /\ Holds(r, q)
      BY <1>11, <2>2, <3>2, <3>3, HoldsStay DEF ClaimScan, Moves, Becomes
    <3>5. scan.domain = 0 /\ scan' = [scan EXCEPT !.domain = d]
      BY <1>11, <2>2, <3>1 DEF ClaimScan, Claimable
    <3>6. scan' \in [kept : BOOLEAN, domain : DomainIds \cup {0}] /\ scan'.domain = d
      BY <3>5 DEF SInv, RowsOK
    <3>7. RowsKeep /\ Inserted' = Inserted /\ Live' = Live
      BY <1>11 DEF ClaimScan, RowsKeep, Inserted, Live
    <3>8. RequestsOK' /\ request' \in [Requests -> Request]
      <4>1. d # 0 /\ d \in Inserted' /\ domain' = domain
            /\ domain[d].owner = q.user /\ domain[d].origin = q.origin
        BY <1>11, <2>0, <3>1, <3>2, <3>7, SavedDomainsAssumption DEF ClaimScan, RowOf, DomainIds
      <4>2. QED
        BY <3>2, <3>4, <3>5, <3>6, <3>7, <4>1, RequestsMove
    <3>9. RowsOK'
      BY <1>11, <3>6, <3>7, <3>8 DEF ClaimScan, SInv, RowsOK
    <3>10. QED
      BY <3>4, <3>8, <3>9, HeldMoves DEF SInv
  <2>3. QED
    BY <1>11, <2>1, <2>2 DEF ClaimScan
<1>12. ASSUME NEW r \in Requests, Rerun(r)
      PROVE  SInv'
  <2>0. request[r] \in Request /\ StepOK(request[r]) /\ RowOf(request[r]) /\ ClaimOf(request[r])
    BY AtStep
  <2>1. CASE Goes(r, "recording")
    <3>1. /\ StepOK([request[r] EXCEPT !.pc = "recording"])
          /\ ~request[r].adopts /\ "recording" \in Steps
      BY <1>12, <2>0, GoFacts DEF Rerun, At, StepOK, ClaimOf, Steps
    <3>2. QED
      BY <1>12, <2>1, <3>1, GoesOn DEF Rerun
  <2>2. QED
    BY <1>12, <2>1, LeavesOff DEF Rerun
<1>13. ASSUME NEW r \in Requests, RecordScan(r)
      PROVE  SInv'
  <2>0. request[r] \in Request /\ StepOK(request[r]) /\ RowOf(request[r]) /\ ClaimOf(request[r])
    BY AtStep
  <2>1. PICK d \in DomainIds : d = request[r].domain
    BY <1>13, <2>0, RequestFields DEF RecordScan, At, StepOK
  <2>2. d \in Inserted /\ request[r].adopts \in BOOLEAN
    BY <1>13, <2>0, <2>1, RequestFields DEF RecordScan, At, StepOK, RowOf
  <2>3. RowWritten(d)
    <3>1. domain' = [domain EXCEPT ![d] = [domain[d] EXCEPT !.adopted = request[r].adopts]]
      BY <1>13, <2>1 DEF RecordScan
    <3>2. WithRow([domain[d] EXCEPT !.adopted = request[r].adopts], domain[d])
      BY <2>2, InsertedFacts DEF Domain, WithRow, SInv
    <3>3. QED
      BY <2>2, <3>1, <3>2 DEF RowWritten
  <2>4. Moves(r, IdleRequest) /\ Holds(r, IdleRequest)
    BY <1>13, IdleFacts, HoldsStay DEF RecordScan, Moves, Leaves, Becomes
  <2>5. QED
    BY <1>13, <2>3, <2>4, IdleFacts, RowMove DEF RecordScan
<1>14. ASSUME NEW r \in Requests, RequestDies(r)
      PROVE  SInv'
  BY <1>14, FailsOff DEF RequestDies
<1>15. ASSUME NEW d \in DomainIds, SoftDeleteDomain(d)
      PROVE  SInv'
  <2>1. domain' = [domain EXCEPT ![d] = [domain[d] EXCEPT !.live = FALSE]] /\ d \in Live
    BY <1>15 DEF SoftDeleteDomain
  <2>2. domain[d] \in Domain
    BY <2>1, InsertedFacts DEF Live, SInv
  <2>3. /\ domain' \in [DomainIds -> Domain \cup {NoDomain}] /\ domain'[d] \in Domain
        /\ domain'[d].owner = domain[d].owner /\ domain'[d].origin = domain[d].origin
        /\ ~domain'[d].live /\ \A e \in DomainIds \ {d} : domain'[e] = domain[e]
    <3>1. [domain[d] EXCEPT !.live = FALSE] \in Domain
      BY <2>2 DEF Domain
    <3>2. QED
      BY <2>1, <2>2, <3>1 DEF SInv, RowsOK, Domain
  <2>4. RowsKeep /\ Live' \subseteq Live
    BY <2>3, InsertedFacts DEF RowsKeep, Inserted, Live, SInv
  <2>5. RequestsOK'
    BY <1>15, <2>4 DEF SoftDeleteDomain, SInv, RequestsOK, RowOf, ClaimOf, StepOK, RowsKeep
  <2>6. RowsOK'
    <3>1. \A e \in Live' : e \in DomainIds \ {d} /\ e \in Live
      BY <2>3, <2>4 DEF Live, Inserted
    <3>2. QED
      BY <1>15, <2>3, <3>1 DEF SoftDeleteDomain, SInv, RowsOK
  <2>7. ContinuationsHeld'
    BY <1>15 DEF SoftDeleteDomain, SInv, ContinuationsHeld
  <2>8. QED
    BY <2>5, <2>6, <2>7 DEF SInv
<1>16. ASSUME NEW c \in Continuations, CreateContinuation(c)
      PROVE  SInv'
  <2>1. /\ UNCHANGED <<domain, jobs, scan, request>>
        /\ continuation' \in [Continuations -> {"none", "open"} \cup Users]
        /\ \A k \in Continuations : continuation[k] \in Users => continuation'[k] = continuation[k]
    BY <1>16, SavedDomainsAssumption DEF CreateContinuation, SInv, RowsOK
  <2>2. scan' \in [kept : BOOLEAN, domain : DomainIds \cup {0}] /\ scan'.domain = scan.domain
    BY <2>1 DEF SInv, RowsOK
  <2>3. QED
    BY <2>1, <2>2, ContinuationsMove
<1>17. ASSUME NEW c \in Continuations, ContinuationLapses(c)
      PROVE  SInv'
  <2>1. /\ UNCHANGED <<domain, jobs, scan, request>>
        /\ continuation' \in [Continuations -> {"none", "open"} \cup Users]
        /\ \A k \in Continuations : continuation[k] \in Users => continuation'[k] = continuation[k]
    BY <1>17, SavedDomainsAssumption DEF ContinuationLapses, SInv, RowsOK
  <2>2. scan' \in [kept : BOOLEAN, domain : DomainIds \cup {0}] /\ scan'.domain = scan.domain
    BY <2>1 DEF SInv, RowsOK
  <2>3. QED
    BY <2>1, <2>2, ContinuationsMove
<1>18. CASE PurgeScan
  <2>1. /\ UNCHANGED <<domain, jobs, request>>
        /\ continuation' \in [Continuations -> {"none", "open"} \cup Users]
        /\ \A k \in Continuations : continuation[k] \in Users => continuation'[k] = continuation[k]
    BY <1>18, SavedDomainsAssumption DEF PurgeScan, SInv, RowsOK
  <2>2. scan' \in [kept : BOOLEAN, domain : DomainIds \cup {0}] /\ scan'.domain = scan.domain
    BY <1>18 DEF PurgeScan, SInv, RowsOK
  <2>3. QED
    BY <2>1, <2>2, ContinuationsMove
<1>19. CASE UNCHANGED vars
  <2>1. Inserted' = Inserted /\ Live' = Live
    BY <1>19 DEF vars, Inserted, Live
  <2>2. QED
    BY <1>19, <2>1 DEF vars, SInv, RowsOK, RequestsOK, RowOf, ClaimOf, StepOK, ContinuationsHeld
<1>20. QED
  BY <1>1, <1>2, <1>3, <1>4, <1>5, <1>6, <1>7, <1>8, <1>9, <1>10, <1>11, <1>12, <1>13, <1>14,
     <1>15, <1>16, <1>17, <1>18, <1>19
  DEF Next, CreationStep, HandoffStep

-----------------------------------------------------------------------------
(* Rows stay, and show their own scan *)

LEMMA RowsStayed == domain' = domain => RowsKeep /\ Inserted' = Inserted
  BY DEF RowsKeep, Inserted

\* One row is written, one that was there keeps its account and origin.
LEMMA OneRow ==
    ASSUME SInv, NEW d \in DomainIds, NEW row \in Domain, domain' = [domain EXCEPT ![d] = row],
           d \in Inserted => row.owner = domain[d].owner /\ row.origin = domain[d].origin
    PROVE  /\ RowsKeep /\ domain'[d] = row
           /\ \A e \in Inserted' : e = d \/ (e \in Inserted /\ domain'[e] = domain[e])
  BY InsertedFacts DEF SInv, RowsOK, RowsKeep, Inserted

Written(d, adopted) ==
    /\ domain'[d].adopted = adopted
    /\ \A e \in Inserted' : e = d \/ (e \in Inserted /\ domain'[e] = domain[e])

LEMMA Rows ==
    ASSUME SInv
    PROVE  /\ \A r \in Requests : InsertDomain(r) =>
                 domain' = domain \/ (RowsKeep /\ \E d \in DomainIds : Written(d, FALSE))
           /\ \A r \in Requests : PauseCreated(r) =>
                 \/ domain' = domain
                 \/ (RowsKeep /\ \E d \in Inserted : Written(d, domain[d].adopted))
           /\ \A r \in Requests : RecordScan(r) =>
                 /\ RowsKeep /\ request[r].domain \in Inserted
                 /\ Written(request[r].domain, request[r].adopts)
           /\ \A d \in DomainIds : SoftDeleteDomain(d) =>
                 d \in Inserted /\ RowsKeep /\ Written(d, domain[d].adopted)
<1>1. ASSUME NEW r \in Requests, InsertDomain(r), domain' # domain
      PROVE  RowsKeep /\ \E d \in DomainIds : Written(d, FALSE)
  <2>0. request[r].user \in Users /\ request[r].origin \in Origins
    BY <1>1, AtStep DEF InsertDomain, At, StepOK
  <2>1. PICK row : row = [owner |-> request[r].user, origin |-> request[r].origin,
                          state |-> "active", adopted |-> FALSE, live |-> TRUE]
    OBVIOUS
  <2>2. PICK d \in DomainIds : NextId(d) /\ domain' = [domain EXCEPT ![d] = row]
    BY <1>1, <2>1 DEF InsertDomain
  <2>3. row \in Domain /\ d \notin Inserted /\ row.adopted = FALSE
    BY <2>0, <2>1, <2>2 DEF Domain, States, NextId
  <2>4. QED
    BY <2>2, <2>3, OneRow DEF Written
<1>2. ASSUME NEW r \in Requests, PauseCreated(r), domain' # domain
      PROVE  RowsKeep /\ \E d \in Inserted : Written(d, domain[d].adopted)
  <2>1. PICK d \in Live : domain' = [domain EXCEPT ![d] = [domain[d] EXCEPT !.state = "paused"]]
    BY <1>2 DEF PauseCreated
  <2>2. d \in Inserted /\ domain[d] \in Domain /\ d \in DomainIds
    BY <2>1, InsertedFacts DEF Live, SInv
  <2>3. PICK row : row = [domain[d] EXCEPT !.state = "paused"]
    OBVIOUS
  <2>4. /\ row \in Domain /\ row.owner = domain[d].owner /\ row.origin = domain[d].origin
        /\ row.adopted = domain[d].adopted
    BY <2>2, <2>3 DEF Domain, States
  <2>5. QED
    BY <2>1, <2>2, <2>3, <2>4, OneRow DEF Written
<1>3. ASSUME NEW r \in Requests, RecordScan(r)
      PROVE  /\ RowsKeep /\ request[r].domain \in Inserted
             /\ Written(request[r].domain, request[r].adopts)
  <2>1. PICK d \in Inserted : d = request[r].domain
    BY <1>3, AtStep DEF RecordScan, At, StepOK, RowOf
  <2>2. domain[d] \in Domain /\ d \in DomainIds /\ request[r].adopts \in BOOLEAN
    BY <2>1, InsertedFacts, AtStep, RequestFields DEF SInv
  <2>3. PICK row : row = [domain[d] EXCEPT !.adopted = request[r].adopts]
    OBVIOUS
  <2>4. /\ row \in Domain /\ row.owner = domain[d].owner /\ row.origin = domain[d].origin
        /\ row.adopted = request[r].adopts
    BY <2>2, <2>3 DEF Domain
  <2>5. domain' = [domain EXCEPT ![d] = row]
    BY <1>3, <2>1, <2>3 DEF RecordScan
  <2>6. QED
    BY <2>1, <2>2, <2>4, <2>5, OneRow DEF Written
<1>4. ASSUME NEW d \in DomainIds, SoftDeleteDomain(d)
      PROVE  d \in Inserted /\ RowsKeep /\ Written(d, domain[d].adopted)
  <2>1. d \in Inserted /\ domain[d] \in Domain
    BY <1>4, InsertedFacts DEF SoftDeleteDomain, Live, SInv
  <2>2. PICK row : row = [domain[d] EXCEPT !.live = FALSE]
    OBVIOUS
  <2>3. /\ row \in Domain /\ row.owner = domain[d].owner /\ row.origin = domain[d].origin
        /\ row.adopted = domain[d].adopted
    BY <2>1, <2>2 DEF Domain
  <2>4. domain' = [domain EXCEPT ![d] = row]
    BY <1>4, <2>2 DEF SoftDeleteDomain
  <2>5. QED
    BY <2>1, <2>3, <2>4, OneRow DEF Written
<1>5. QED
  BY <1>1, <1>2, <1>3, <1>4

LEMMA BaselineStays ==
    ASSUME BaselineIsOwn, scan'.domain = scan.domain,
           \/ domain' = domain
           \/ \E d \in Inserted : Written(d, domain[d].adopted)
           \/ \E d \in DomainIds : Written(d, FALSE)
    PROVE  BaselineIsOwn'
  BY RowsStayed DEF BaselineIsOwn, Written

LEMMA BaselineStep == SInv /\ BaselineIsOwn /\ [Next]_vars => BaselineIsOwn'
<1> SUFFICES ASSUME SInv, BaselineIsOwn, [Next]_vars
             PROVE  BaselineIsOwn'
  OBVIOUS
<1>1. ASSUME NEW r \in Requests, NEW u \in Users, NEW o \in Origins, SaveDomain(r, u, o)
      PROVE  BaselineIsOwn'
  BY <1>1, BaselineStays DEF SaveDomain
<1>2. ASSUME NEW r \in Requests, NEW u \in Users, NEW k \in Keys,
             NEW file \in SUBSET Origins \ {{}}, NEW state \in States,
             ConfirmImport(r, u, k, file, state)
      PROVE  BaselineIsOwn'
  BY <1>2, BaselineStays DEF ConfirmImport
<1>3. ASSUME NEW r \in Requests, FindExisting(r)
      PROVE  BaselineIsOwn'
  BY <1>3, BaselineStays DEF FindExisting
<1>4. ASSUME NEW r \in Requests, CountActive(r)
      PROVE  BaselineIsOwn'
  BY <1>4, BaselineStays DEF CountActive
<1>5. ASSUME NEW r \in Requests, InsertDomain(r)
      PROVE  BaselineIsOwn'
  BY <1>5, Rows, BaselineStays DEF InsertDomain
<1>6. ASSUME NEW r \in Requests, PauseCreated(r)
      PROVE  BaselineIsOwn'
  BY <1>6, Rows, BaselineStays DEF PauseCreated
<1>7. ASSUME NEW r \in Requests, StoreJob(r)
      PROVE  BaselineIsOwn'
  BY <1>7, BaselineStays DEF StoreJob
<1>8. ASSUME NEW r \in Requests, NEW u \in Users, NEW c \in Continuations,
           ConsumeContinuation(r, u, c)
      PROVE  BaselineIsOwn'
  BY <1>8, BaselineStays DEF ConsumeContinuation
<1>9. ASSUME NEW r \in Requests, FindOwned(r)
      PROVE  BaselineIsOwn'
  BY <1>9, BaselineStays DEF FindOwned
<1>10. ASSUME NEW r \in Requests, ReadScan(r)
      PROVE  BaselineIsOwn'
  BY <1>10, BaselineStays DEF ReadScan
<1>11. ASSUME NEW r \in Requests, ClaimScan(r)
      PROVE  BaselineIsOwn'
  <2>1. CASE UNCHANGED scan
    BY <1>11, <2>1, BaselineStays DEF ClaimScan
  <2>2. CASE Claimable
    <3>1. \A d \in Inserted : ~domain[d].adopted
      BY <2>2, SavedDomainsAssumption DEF Claimable, BaselineIsOwn, Inserted, DomainIds
    <3>2. QED
      BY <1>11, <3>1, RowsStayed DEF ClaimScan, BaselineIsOwn
  <2>3. QED
    BY <1>11, <2>1, <2>2 DEF ClaimScan
<1>12. ASSUME NEW r \in Requests, Rerun(r)
      PROVE  BaselineIsOwn'
  BY <1>12, BaselineStays DEF Rerun
<1>13. ASSUME NEW r \in Requests, RecordScan(r)
      PROVE  BaselineIsOwn'
  <2>1. PICK d \in Inserted : d = request[r].domain
    BY <1>13, Rows
  <2>2. Written(d, request[r].adopts) /\ scan' = scan
    BY <1>13, <2>1, Rows DEF RecordScan
  <2>3. request[r].adopts => scan.domain = d
    BY <2>1, AtStep DEF ClaimOf
  <2>4. QED
    BY <2>1, <2>2, <2>3 DEF BaselineIsOwn, Written
<1>14. ASSUME NEW r \in Requests, RequestDies(r)
      PROVE  BaselineIsOwn'
  BY <1>14, BaselineStays DEF RequestDies
<1>15. ASSUME NEW d \in DomainIds, SoftDeleteDomain(d)
      PROVE  BaselineIsOwn'
  BY <1>15, Rows, BaselineStays DEF SoftDeleteDomain
<1>16. ASSUME NEW c \in Continuations, CreateContinuation(c)
      PROVE  BaselineIsOwn'
  BY <1>16, BaselineStays DEF CreateContinuation
<1>17. ASSUME NEW c \in Continuations, ContinuationLapses(c)
      PROVE  BaselineIsOwn'
  BY <1>17, BaselineStays DEF ContinuationLapses
<1>18. CASE PurgeScan
  <2>1. scan'.domain = scan.domain /\ domain' = domain
    BY <1>18 DEF PurgeScan, SInv, RowsOK
  <2>2. QED
    BY <2>1, BaselineStays
<1>19. CASE UNCHANGED vars
  BY <1>19, BaselineStays DEF vars
<1>20. QED
  BY <1>1, <1>2, <1>3, <1>4, <1>5, <1>6, <1>7, <1>8, <1>9, <1>10, <1>11, <1>12, <1>13, <1>14,
     <1>15, <1>16, <1>17, <1>18, <1>19
  DEF Next, CreationStep, HandoffStep

-----------------------------------------------------------------------------
(* Used continuations have saved *)

\* Whoever lets go of a continuation has a row for it, or takes it back.
LetGo ==
    /\ \A p \in Requests : \A c \in Continuations : request[p].continuation = c =>
          \/ request'[p].continuation = c \/ request[p].domain # 0
          \/ continuation'[c] \notin Users
    /\ \A c \in Continuations : continuation'[c] \in Users =>
          \/ continuation'[c] = continuation[c]
          \/ \E p \in Requests : request'[p].continuation = c

LEMMA UsedStays ==
    ASSUME SInv, UsedContinuationsSave, RowsKeep, LetGo
    PROVE  UsedContinuationsSave'
<1> SUFFICES ASSUME NEW c \in Continuations, continuation'[c] \in Users,
                    ~\E r \in Requests : request'[r].continuation = c
             PROVE  \E d \in Inserted' : /\ domain'[d].owner = continuation'[c]
                                         /\ domain'[d].origin = AuditedOrigin
  BY DEF UsedContinuationsSave
<1>1. continuation'[c] = continuation[c]
  BY DEF LetGo
<1>2. \E d \in Inserted : domain[d].owner = continuation[c] /\ domain[d].origin = AuditedOrigin
  <2>1. CASE \E r \in Requests : request[r].continuation = c
    <3>1. PICK r \in Requests : request[r].continuation = c
      BY <2>1
    <3>2. request[r].domain # 0
      BY <3>1 DEF LetGo
    <3>3. StepOK(request[r]) /\ RowOf(request[r]) /\ c # None
      BY AtStep, SavedDomainsAssumption
    <3>4. QED
      BY <3>1, <3>2, <3>3, HeldBy DEF RowOf, StepOK
  <2>2. CASE ~\E r \in Requests : request[r].continuation = c
    BY <1>1, <2>2 DEF UsedContinuationsSave
  <2>3. QED
    BY <2>1, <2>2
<1>3. QED
  BY <1>1, <1>2 DEF RowsKeep

LEMMA LetGoOne ==
    ASSUME SInv, NEW r \in Requests, NEW q, Becomes(r, q), continuation' = continuation,
           \/ request[r].continuation = None \/ q.continuation = request[r].continuation
           \/ request[r].domain # 0
    PROVE  LetGo
  BY SavedDomainsAssumption DEF Becomes, LetGo, SInv, RowsOK

LEMMA LetGoGoing ==
    ASSUME SInv, NEW r \in Requests, NEW pc, Goes(r, pc), continuation' = continuation
    PROVE  LetGo
<1>1. PICK q : q = [request[r] EXCEPT !.pc = pc]
  OBVIOUS
<1>2. q.continuation = request[r].continuation
  BY <1>1, AtStep DEF Request
<1>3. QED
  BY <1>1, <1>2, LetGoOne DEF Goes

LEMMA LetGoFailing == ASSUME SInv, NEW r \in Requests, Fails(r) PROVE LetGo
<1>1. Becomes(r, IdleRequest) /\ request[r] \in Request /\ StepOK(request[r])
  BY AtStep DEF Fails, Leaves
<1>2. CASE request[r].flow = "handoff" /\ request[r].domain = 0
  <2>1. PICK c \in Continuations : c = request[r].continuation
    BY <1>1, <1>2 DEF StepOK
  <2>2. continuation' = [continuation EXCEPT ![c] = "none"]
    BY <1>2, <2>1 DEF Fails
  <2>3. continuation'[c] \notin Users /\ \A k \in Continuations : continuation'[k] \in Users =>
            continuation'[k] = continuation[k]
    BY <2>2, SavedDomainsAssumption DEF SInv, RowsOK
  <2>4. QED
    BY <1>1, <2>1, <2>3 DEF Becomes, LetGo, SInv, RowsOK
<1>3. CASE ~(request[r].flow = "handoff" /\ request[r].domain = 0)
  <2>1. continuation' = continuation
    BY <1>3 DEF Fails
  <2>2. request[r].continuation = None \/ request[r].domain # 0
    BY <1>1, <1>3 DEF StepOK
  <2>3. QED
    BY <1>1, <2>1, <2>2, LetGoOne
<1>4. QED
  BY <1>2, <1>3

LEMMA UsedStep == SInv /\ UsedContinuationsSave /\ [Next]_vars => UsedContinuationsSave'
<1> SUFFICES ASSUME SInv, UsedContinuationsSave, [Next]_vars
             PROVE  UsedContinuationsSave'
  OBVIOUS
<1>a. \A r \in Requests : At(r, "idle") => request[r].continuation = None
  BY AtStep DEF At, StepOK
<1>b. \A r \in Requests : request[r].flow \in {"save", "import"} => request[r].continuation = None
  BY AtStep DEF At, StepOK
<1>c. \A r \in Requests : At(r, "pausing") \/ At(r, "reading") \/ At(r, "claiming")
                          \/ At(r, "rerunning") \/ At(r, "recording") => request[r].domain # 0
  BY AtStep DEF At, StepOK
<1>d. \A r \in Requests : ~At(r, "idle") => request[r].flow \in {"save", "import", "handoff"}
  BY AtStep, RequestFields DEF At, StepOK
<1>1. ASSUME NEW r \in Requests, NEW u \in Users, NEW o \in Origins, SaveDomain(r, u, o)
      PROVE  UsedContinuationsSave'
  <2>1. LetGo
    BY <1>1, LetGoOne, LetGoGoing, LetGoFailing, <1>a DEF SaveDomain
  <2>2. RowsKeep
    BY <1>1, RowsStayed DEF SaveDomain
  <2>3. QED
    BY <2>1, <2>2, UsedStays
<1>2. ASSUME NEW r \in Requests, NEW u \in Users, NEW k \in Keys,
             NEW file \in SUBSET Origins \ {{}}, NEW state \in States,
             ConfirmImport(r, u, k, file, state)
      PROVE  UsedContinuationsSave'
  <2>1. LetGo
    BY <1>2, LetGoOne, LetGoGoing, LetGoFailing, <1>a DEF ConfirmImport
  <2>2. RowsKeep
    BY <1>2, RowsStayed DEF ConfirmImport
  <2>3. QED
    BY <2>1, <2>2, UsedStays
<1>3. ASSUME NEW r \in Requests, FindExisting(r)
      PROVE  UsedContinuationsSave'
  <2>1. LetGo
    <3>1. CASE \E pc : Goes(r, pc)
      BY <1>3, <3>1, LetGoGoing DEF FindExisting
    <3>2. CASE request[r].flow # "handoff" /\ \E q : Becomes(r, q)
      BY <1>3, <3>2, <1>b, <1>d, LetGoOne DEF FindExisting, At
    <3>3. QED
      BY <1>3, <3>1, <3>2 DEF FindExisting
  <2>2. RowsKeep
    BY <1>3, RowsStayed DEF FindExisting
  <2>3. QED
    BY <2>1, <2>2, UsedStays
<1>4. ASSUME NEW r \in Requests, CountActive(r)
      PROVE  UsedContinuationsSave'
  <2>1. LetGo
    BY <1>4, LetGoOne, LetGoGoing, LetGoFailing DEF CountActive
  <2>2. RowsKeep
    BY <1>4, RowsStayed DEF CountActive
  <2>3. QED
    BY <2>1, <2>2, UsedStays
<1>5. ASSUME NEW r \in Requests, InsertDomain(r)
      PROVE  UsedContinuationsSave'
  <2>1. LetGo
    <3> DEFINE refused == Refused(request[r].user, request[r].origin)
    <3>1. CASE refused
      BY <1>5, <3>1, LetGoFailing DEF InsertDomain
    <3>2. CASE ~refused /\ request[r].flow # "handoff"
      <4>1. continuation' = continuation /\ \E q : Becomes(r, q)
        BY <1>5, <3>2 DEF InsertDomain
      <4>2. QED
        BY <1>5, <3>2, <4>1, <1>b, <1>d, LetGoOne DEF InsertDomain, At
    <3>3. CASE ~refused /\ request[r].flow = "handoff"
      <4>1. PICK d, pc : Becomes(r, [request[r] EXCEPT !.pc = pc, !.domain = d])
        BY <1>5, <3>3 DEF InsertDomain, AfterInsert
      <4>2. PICK q : q = [request[r] EXCEPT !.pc = pc, !.domain = d]
        OBVIOUS
      <4>3. q.continuation = request[r].continuation
        BY <4>2, AtStep DEF Request
      <4>4. continuation' = continuation
        BY <1>5, <3>3 DEF InsertDomain
      <4>5. QED
        BY <4>1, <4>2, <4>3, <4>4, LetGoOne
    <3>4. QED
      BY <3>1, <3>2, <3>3
  <2>2. RowsKeep
    BY <1>5, RowsStayed, Rows DEF InsertDomain
  <2>3. QED
    BY <2>1, <2>2, UsedStays
<1>6. ASSUME NEW r \in Requests, PauseCreated(r)
      PROVE  UsedContinuationsSave'
  <2>1. LetGo
    BY <1>6, <1>c, LetGoOne DEF PauseCreated, Goes
  <2>2. RowsKeep
    BY <1>6, RowsStayed, Rows DEF PauseCreated
  <2>3. QED
    BY <2>1, <2>2, UsedStays
<1>7. ASSUME NEW r \in Requests, StoreJob(r)
      PROVE  UsedContinuationsSave'
  <2>1. LetGo
    <3>1. request[r].continuation = None
      BY <1>7, AtStep DEF StoreJob, At, StepOK
    <3>2. QED
      BY <1>7, <3>1, LetGoOne DEF StoreJob, Leaves
  <2>2. RowsKeep
    BY <1>7, RowsStayed DEF StoreJob
  <2>3. QED
    BY <2>1, <2>2, UsedStays
<1>8. ASSUME NEW r \in Requests, NEW u \in Users, NEW c \in Continuations,
           ConsumeContinuation(r, u, c)
      PROVE  UsedContinuationsSave'
  <2>1. LetGo
    <3>1. PICK q : /\ Becomes(r, q)
                   /\ q = [IdleRequest EXCEPT !.flow = "handoff", !.pc = "finding", !.user = u,
                              !.origin = AuditedOrigin, !.continuation = c]
      BY <1>8 DEF ConsumeContinuation
    <3>2. q.continuation = c
      BY <3>1 DEF IdleRequest
    <3>3. request'[r].continuation = c /\ \A p \in Requests \ {r} : request'[p] = request[p]
      BY <3>1, <3>2 DEF Becomes, SInv, RowsOK
    <3>4. \A k \in Continuations \ {c} : continuation'[k] = continuation[k]
      BY <1>8 DEF ConsumeContinuation, SInv, RowsOK
    <3>5. request[r].continuation \notin Continuations
      BY <1>8, <1>a, SavedDomainsAssumption DEF ConsumeContinuation
    <3>6. QED
      BY <3>3, <3>4, <3>5 DEF LetGo
  <2>2. RowsKeep
    BY <1>8, RowsStayed DEF ConsumeContinuation
  <2>3. QED
    BY <2>1, <2>2, UsedStays
<1>9. ASSUME NEW r \in Requests, FindOwned(r)
      PROVE  UsedContinuationsSave'
  <2>1. LetGo
    <3>1. CASE Fails(r)
      BY <3>1, LetGoFailing
    <3>2. CASE continuation' = continuation /\ \E d :
                   Becomes(r, [request[r] EXCEPT !.pc = "reading", !.domain = d])
      <4>1. PICK d : Becomes(r, [request[r] EXCEPT !.pc = "reading", !.domain = d])
        BY <3>2
      <4>2. PICK q : q = [request[r] EXCEPT !.pc = "reading", !.domain = d]
        OBVIOUS
      <4>3. q.continuation = request[r].continuation
        BY <4>2, AtStep DEF Request
      <4>4. QED
        BY <3>2, <4>1, <4>2, <4>3, LetGoOne
    <3>3. QED
      BY <1>9, <3>1, <3>2 DEF FindOwned
  <2>2. RowsKeep
    BY <1>9, RowsStayed DEF FindOwned
  <2>3. QED
    BY <2>1, <2>2, UsedStays
<1>10. ASSUME NEW r \in Requests, ReadScan(r)
      PROVE  UsedContinuationsSave'
  <2>1. LetGo
    BY <1>10, <1>c, LetGoOne DEF ReadScan, Leaves, Goes
  <2>2. RowsKeep
    BY <1>10, RowsStayed DEF ReadScan
  <2>3. QED
    BY <2>1, <2>2, UsedStays
<1>11. ASSUME NEW r \in Requests, ClaimScan(r)
      PROVE  UsedContinuationsSave'
  <2>1. LetGo
    BY <1>11, <1>c, LetGoOne DEF ClaimScan, Goes
  <2>2. RowsKeep
    BY <1>11, RowsStayed DEF ClaimScan
  <2>3. QED
    BY <2>1, <2>2, UsedStays
<1>12. ASSUME NEW r \in Requests, Rerun(r)
      PROVE  UsedContinuationsSave'
  <2>1. LetGo
    BY <1>12, <1>c, LetGoOne DEF Rerun, Leaves, Goes
  <2>2. RowsKeep
    BY <1>12, RowsStayed DEF Rerun
  <2>3. QED
    BY <2>1, <2>2, UsedStays
<1>13. ASSUME NEW r \in Requests, RecordScan(r)
      PROVE  UsedContinuationsSave'
  <2>1. LetGo
    BY <1>13, <1>c, LetGoOne DEF RecordScan, Leaves
  <2>2. RowsKeep
    BY <1>13, RowsStayed, Rows DEF RecordScan
  <2>3. QED
    BY <2>1, <2>2, UsedStays
<1>14. ASSUME NEW r \in Requests, RequestDies(r)
      PROVE  UsedContinuationsSave'
  <2>1. LetGo
    BY <1>14, LetGoOne, LetGoGoing, LetGoFailing DEF RequestDies
  <2>2. RowsKeep
    BY <1>14, RowsStayed DEF RequestDies
  <2>3. QED
    BY <2>1, <2>2, UsedStays
<1>15. ASSUME NEW d \in DomainIds, SoftDeleteDomain(d)
      PROVE  UsedContinuationsSave'
  <2>1. LetGo
    BY <1>15 DEF SoftDeleteDomain, LetGo
  <2>2. RowsKeep
    BY <1>15, RowsStayed, Rows DEF SoftDeleteDomain
  <2>3. QED
    BY <2>1, <2>2, UsedStays
<1>16. ASSUME NEW c \in Continuations, CreateContinuation(c)
      PROVE  UsedContinuationsSave'
  <2>1. LetGo
    BY <1>16, SavedDomainsAssumption DEF CreateContinuation, LetGo, SInv, RowsOK
  <2>2. RowsKeep
    BY <1>16, RowsStayed DEF CreateContinuation
  <2>3. QED
    BY <2>1, <2>2, UsedStays
<1>17. ASSUME NEW c \in Continuations, ContinuationLapses(c)
      PROVE  UsedContinuationsSave'
  <2>1. LetGo
    BY <1>17, SavedDomainsAssumption DEF ContinuationLapses, LetGo, SInv, RowsOK
  <2>2. RowsKeep
    BY <1>17, RowsStayed DEF ContinuationLapses
  <2>3. QED
    BY <2>1, <2>2, UsedStays
<1>18. CASE PurgeScan
  <2>1. LetGo
    BY <1>18, SavedDomainsAssumption DEF PurgeScan, LetGo, SInv, RowsOK
  <2>2. RowsKeep
    BY <1>18, RowsStayed DEF PurgeScan
  <2>3. QED
    BY <2>1, <2>2, UsedStays
<1>19. CASE UNCHANGED vars
  <2>1. LetGo
    BY <1>19 DEF vars, LetGo
  <2>2. RowsKeep
    BY <1>19, RowsStayed DEF vars
  <2>3. QED
    BY <2>1, <2>2, UsedStays
<1>20. QED
  BY <1>1, <1>2, <1>3, <1>4, <1>5, <1>6, <1>7, <1>8, <1>9, <1>10, <1>11, <1>12, <1>13, <1>14,
     <1>15, <1>16, <1>17, <1>18, <1>19
  DEF Next, CreationStep, HandoffStep

-----------------------------------------------------------------------------
(* Counting what is saved and what may still be *)

\* Pairs of an element of Q and one of at most n that go with it.
LEMMA PairsBound ==
    ASSUME NEW Q, IsFiniteSet(Q), NEW n \in Nat, NEW G,
           \A q \in Q : IsFiniteSet(G[q]) /\ Cardinality(G[q]) <= n,
           NEW S, \A x \in S : \E q \in Q : \E o \in G[q] : x = <<q, o>>
    PROVE  IsFiniteSet(S) /\ Cardinality(S) <= Cardinality(Q) * n
<1> DEFINE size(q) == Cardinality(G[q])
           nth(q) == CHOOSE f : f \in Bijection(1..size(q), G[q])
           Places == {p \in Q \X (1..n) : p[2] <= size(p[1])}
           All == UNION {{q} \X G[q] : q \in Q}
           at == [p \in Places |-> <<p[1], nth(p[1])[p[2]]>>]
<1>1. \A q \in Q : size(q) \in Nat /\ size(q) <= n /\ nth(q) \in Bijection(1..size(q), G[q])
  BY FS_CardinalityType DEF ExistsBijection
<1>2. \A q \in Q : /\ \A i \in 1..size(q) : nth(q)[i] \in G[q]
                   /\ \A o \in G[q] : \E i \in 1..size(q) : nth(q)[i] = o
  BY <1>1 DEF Bijection, Injection, Surjection
<1>3. at \in Surjection(Places, All)
  <2> HIDE DEF size, nth
  <2>1. \A p \in Places : at[p] \in All
    BY <1>1, <1>2
  <2>2. ASSUME NEW x \in All
        PROVE  \E p \in Places : at[p] = x
    <3>1. PICK q \in Q : \E o \in G[q] : x = <<q, o>>
      OBVIOUS
    <3>o. PICK o \in G[q] : x = <<q, o>>
      BY <3>1
    <3>2. PICK i \in 1..size(q) : nth(q)[i] = o
      BY <1>2
    <3>3. i \in 1..n /\ i <= size(q)
      BY <1>1, <3>2
    <3>4. <<q, i>> \in Places /\ at[<<q, i>>] = <<q, o>>
      BY <3>2, <3>3
    <3>5. QED
      BY <3>o, <3>4
  <2>3. QED
    BY <2>1, <2>2 DEF Surjection
<1>4. IsFiniteSet(Q \X (1..n)) /\ Cardinality(Q \X (1..n)) = Cardinality(Q) * n
  <2>1. IsFiniteSet(1..n) /\ Cardinality(1..n) = n
    BY FS_Interval
  <2>2. QED
    BY <2>1, FS_Product
<1>5. IsFiniteSet(Places) /\ Cardinality(Places) <= Cardinality(Q) * n
  BY <1>4, FS_Subset
<1>6. IsFiniteSet(All) /\ Cardinality(All) <= Cardinality(Places)
  BY <1>3, <1>5, FS_Surjection
<1>7. S \subseteq All
  OBVIOUS
<1>8. IsFiniteSet(S) /\ Cardinality(S) <= Cardinality(All)
  BY <1>6, <1>7, FS_Subset
<1>9. QED
  BY <1>5, <1>6, <1>8, FS_CardinalityType, FS_Product

LEMMA PairsOfOne ==
    ASSUME NEW r, NEW X, IsFiniteSet(X)
    PROVE  IsFiniteSet({r} \X X) /\ Cardinality({r} \X X) = Cardinality(X)
<1>1. IsFiniteSet({r}) /\ Cardinality({r}) = 1
  BY FS_Singleton
<1>2. IsFiniteSet({r} \X X) /\ Cardinality({r} \X X) = 1 * Cardinality(X)
  BY <1>1, FS_Product
<1>3. QED
  BY <1>2, FS_CardinalityType

\* What u's requests may still save, with the request.
Open(u) == UNION {{r} \X Granted(r) : r \in {q \in Requests : request[q].user = u}}

LEMMA OpenFacts ==
    ASSUME NEW u
    PROVE  \A x : x \in Open(u) <=>
               \E r \in Requests : request[r].user = u /\ \E o \in Granted(r) : x = <<r, o>>
  BY DEF Open

LEMMA GrantedFacts ==
    ASSUME SInv
    PROVE  \A r \in Requests : /\ Granted(r) \subseteq Origins /\ IsFiniteSet(Granted(r))
                               /\ Cardinality(Granted(r)) \in Nat
<1> SUFFICES ASSUME NEW r \in Requests
             PROVE  Granted(r) \subseteq Origins
  BY FS_Subset, FS_CardinalityType, SavedDomainsAssumption
<1>1. request[r].rest \subseteq Origins
  BY AtStep, RequestFields
<1>2. QED
  BY <1>1, AtStep DEF Granted, At, StepOK

LEMMA LiveFacts ==
    ASSUME NEW u
    PROVE  IsFiniteSet(LiveOf(u)) /\ Cardinality(LiveOf(u)) \in Nat
<1>1. LiveOf(u) \subseteq 1..MaxDomains
  BY DEF LiveOf, Live, Inserted, DomainIds
<1>2. IsFiniteSet(1..MaxDomains)
  <2>1. 1 \in Int /\ MaxDomains \in Int
    BY SavedDomainsAssumption
  <2>2. QED
    BY <2>1, FS_Interval
<1>3. QED
  BY <1>1, <1>2, FS_Subset, FS_CardinalityType

\* The requests in Q together may save at most the limit each.
LEMMA OpenBound ==
    ASSUME SInv, GrantsWithinLimit, NEW u \in Users, NEW Q \in SUBSET Requests,
           NEW S, \A x \in S : \E r \in Q : /\ request[r].user = u
                                            /\ \E o \in Granted(r) : x = <<r, o>>
    PROVE  /\ IsFiniteSet(S) /\ Cardinality(S) \in Nat
           /\ Cardinality(S) <= Cardinality(Q) * SavedDomainLimit[u]
<1> DEFINE G == [r \in Requests |-> IF request[r].user = u THEN Granted(r) ELSE {}]
<1>1. IsFiniteSet(Q)
  BY FS_Subset, SavedDomainsAssumption
<1>2. SavedDomainLimit[u] \in Nat
  BY SavedDomainsAssumption
<1>3. \A r \in Q : IsFiniteSet(G[r]) /\ Cardinality(G[r]) <= SavedDomainLimit[u]
  <2>1. ASSUME NEW r \in Q, request[r].user = u
        PROVE  IsFiniteSet(G[r]) /\ Cardinality(G[r]) <= SavedDomainLimit[u]
    BY <2>1, GrantedFacts DEF GrantsWithinLimit
  <2>2. ASSUME NEW r \in Q, request[r].user # u
        PROVE  IsFiniteSet(G[r]) /\ Cardinality(G[r]) <= SavedDomainLimit[u]
    BY <2>2, <1>2, FS_EmptySet
  <2>3. QED
    BY <2>1, <2>2
<1>4. \A x \in S : \E r \in Q : \E o \in G[r] : x = <<r, o>>
  OBVIOUS
<1> HIDE DEF G
<1>5. QED
  BY <1>1, <1>2, <1>3, <1>4, PairsBound, FS_CardinalityType

LEMMA OpenIsFinite ==
    ASSUME SInv, GrantsWithinLimit, NEW u \in Users
    PROVE  IsFiniteSet(Open(u)) /\ Cardinality(Open(u)) \in Nat
  BY OpenBound, OpenFacts

Limits == GrantsWithinLimit /\ LimitOverrunBounded

LEMMA LimitsOpen ==
    LimitOverrunBounded <=>
        \A u \in Users : Cardinality(LiveOf(u)) + Cardinality(Open(u))
                             <= SavedDomainLimit[u] * Cardinality(Requests)
  BY DEF LimitOverrunBounded, Open

\* A step that saves nothing and allows nothing.
LEMMA LimitsShrink ==
    ASSUME SInv, SInv', Limits,
           \A u \in Users : LiveOf(u)' \subseteq LiveOf(u),
           \A r \in Requests : \A u \in Users : request'[r].user = u =>
               \/ Granted(r)' = {}
               \/ request[r].user = u /\ Granted(r)' \subseteq Granted(r)
    PROVE  Limits'
<1>1. GrantsWithinLimit'
  <2> SUFFICES ASSUME NEW r \in Requests, NEW u \in Users, request'[r].user = u
               PROVE  Cardinality(Granted(r)') <= SavedDomainLimit[u]
    BY DEF GrantsWithinLimit
  <2>1. CASE Granted(r)' = {}
    BY <2>1, FS_EmptySet, SavedDomainsAssumption
  <2>2. CASE request[r].user = u /\ Granted(r)' \subseteq Granted(r)
    <3>1. Cardinality(Granted(r)') <= Cardinality(Granted(r)) /\ Cardinality(Granted(r)') \in Nat
      BY <2>2, GrantedFacts, FS_Subset, FS_CardinalityType
    <3>2. QED
      BY <2>2, <3>1, GrantedFacts, SavedDomainsAssumption DEF Limits, GrantsWithinLimit
  <2>3. QED
    BY <2>1, <2>2
<1>2. ASSUME NEW u \in Users
      PROVE  Cardinality(LiveOf(u))' + Cardinality(Open(u))'
                 <= SavedDomainLimit[u] * Cardinality(Requests)
  <2>1. Open(u)' \subseteq Open(u)
    <3>1. \A x : x \in Open(u)' <=>
               \E r \in Requests : request'[r].user = u /\ \E o \in Granted(r)' : x = <<r, o>>
      BY DEF Open
    <3>2. QED
      BY <3>1, OpenFacts
  <2>2. IsFiniteSet(Open(u)') /\ Cardinality(Open(u)') <= Cardinality(Open(u))
        /\ Cardinality(Open(u)) \in Nat /\ Cardinality(Open(u)') \in Nat
    BY <2>1, OpenIsFinite, FS_Subset, FS_CardinalityType DEF Limits
  <2>3. Cardinality(LiveOf(u)') <= Cardinality(LiveOf(u)) /\ Cardinality(LiveOf(u)) \in Nat
        /\ Cardinality(LiveOf(u)') \in Nat
    BY LiveFacts, FS_Subset, FS_CardinalityType
  <2>4. Cardinality(LiveOf(u)) + Cardinality(Open(u))
            <= SavedDomainLimit[u] * Cardinality(Requests)
    BY LimitsOpen DEF Limits
  <2>5. SavedDomainLimit[u] * Cardinality(Requests) \in Nat
    <3>1. SavedDomainLimit[u] \in Nat /\ Cardinality(Requests) \in Nat
      BY SavedDomainsAssumption, FS_CardinalityType
    <3>2. QED
      BY <3>1
  <2>6. QED
    BY <2>2, <2>3, <2>4, <2>5
<1>3. LimitOverrunBounded'
  BY <1>2 DEF LimitOverrunBounded, Open
<1>4. QED
  BY <1>1, <1>3 DEF Limits

\* A request that is let through is let through for what its account has room for.
LEMMA LimitsGrant ==
    ASSUME SInv, SInv', Limits, domain' = domain, NEW r \in Requests, NEW u \in Users,
           request'[r].user = u,
           Cardinality(Granted(r)') + Cardinality(LiveOf(u)) <= SavedDomainLimit[u],
           \A p \in Requests \ {r} : request'[p] = request[p],
           request[r].user \in {None, u}
    PROVE  Limits'
<1>0. /\ \A p \in Requests \ {r} : Granted(p)' = Granted(p)
      /\ \A v \in Users : LiveOf(v)' = LiveOf(v)
      /\ SavedDomainLimit[u] \in Nat /\ Cardinality(Requests) \in Nat
      /\ IsFiniteSet(Granted(r)') /\ Cardinality(Granted(r)') \in Nat
  <2>1. \A p \in Requests \ {r} : Granted(p)' = Granted(p)
    BY DEF Granted, At
  <2>2. \A v \in Users : LiveOf(v)' = LiveOf(v)
    BY DEF LiveOf, Live, Inserted
  <2>3. SavedDomainLimit[u] \in Nat /\ Cardinality(Requests) \in Nat
    BY SavedDomainsAssumption, FS_CardinalityType
  <2>4. Granted(r)' \subseteq Origins
    <3>1. request'[r] \in Request /\ StepOK(request'[r])
      BY DEF SInv, RowsOK, RequestsOK, StepOK
    <3>2. request'[r].rest \subseteq Origins
      BY <3>1, RequestFields
    <3>3. QED
      BY <3>1, <3>2 DEF Granted, At, StepOK
  <2>5. QED
    BY <2>1, <2>2, <2>3, <2>4, FS_Subset, FS_CardinalityType, SavedDomainsAssumption
<1>1. GrantsWithinLimit'
  <2>1. Cardinality(Granted(r)') <= SavedDomainLimit[u]
    BY <1>0, LiveFacts
  <2>2. QED
    BY <1>0, <2>1 DEF Limits, GrantsWithinLimit
<1>2. ASSUME NEW v \in Users
      PROVE  Cardinality(LiveOf(v)') + Cardinality(Open(v)')
                 <= SavedDomainLimit[v] * Cardinality(Requests)
  <2>0. \A x : x \in Open(v)' <=>
            \E p \in Requests : request'[p].user = v /\ \E o \in Granted(p)' : x = <<p, o>>
    BY DEF Open
  <2>1. CASE v = u
    <3> DEFINE Others == {x \in Open(u) : \E p \in Requests \ {r} : \E o \in Granted(p) :
                                              x = <<p, o>> /\ request[p].user = u}
               Own == {r} \X Granted(r)'
    <3>1. Open(v)' \subseteq Others \cup Own
      <4>1. ASSUME NEW p \in Requests, request'[p].user = u, NEW o \in Granted(p)'
            PROVE  <<p, o>> \in Others \cup Own
        <5>1. CASE p = r
          BY <4>1, <5>1
        <5>2. CASE p # r
          BY <1>0, <4>1, <5>2, OpenFacts
        <5>3. QED
          BY <5>1, <5>2
      <4>2. QED
        BY <2>0, <2>1, <4>1
    <3>2. IsFiniteSet(Others) /\ Cardinality(Others) \in Nat
          /\ Cardinality(Others) <= Cardinality(Requests \ {r}) * SavedDomainLimit[u]
      BY OpenBound DEF Limits
    <3>3. Cardinality(Requests \ {r}) = Cardinality(Requests) - 1
      BY FS_RemoveElement, SavedDomainsAssumption
    <3>4. IsFiniteSet(Own) /\ Cardinality(Own) = Cardinality(Granted(r)')
      BY <1>0, PairsOfOne
    <3> HIDE DEF Others, Own
    <3>5. IsFiniteSet(Others \cup Own)
          /\ Cardinality(Others \cup Own) <= Cardinality(Others) + Cardinality(Own)
      <4>1. Cardinality(Others \cap Own) \in Nat
        BY <3>2, FS_Intersection, FS_CardinalityType
      <4>2. QED
        BY <3>2, <3>4, <4>1, <1>0, FS_Union
    <3>6. Cardinality(Open(v)') <= Cardinality(Others) + Cardinality(Own)
          /\ Cardinality(Open(v)') \in Nat
      <4>1. Cardinality(Open(v)') <= Cardinality(Others \cup Own) /\ Cardinality(Open(v)') \in Nat
            /\ Cardinality(Others \cup Own) \in Nat
        BY <3>1, <3>5, FS_Subset, FS_CardinalityType
      <4>2. QED
        BY <4>1, <3>5, <3>2, <3>4, <1>0
    <3>7. (Cardinality(Requests) - 1) * SavedDomainLimit[u]
              = SavedDomainLimit[u] * Cardinality(Requests) - SavedDomainLimit[u]
      BY <1>0
    <3>8. SavedDomainLimit[u] * Cardinality(Requests) \in Nat
      BY <1>0
    <3>9. Cardinality(LiveOf(v)') = Cardinality(LiveOf(u)) /\ Cardinality(LiveOf(u)) \in Nat
      BY <1>0, <2>1, LiveFacts
    <3>10. QED
      BY <1>0, <2>1, <3>2, <3>3, <3>4, <3>6, <3>7, <3>8, <3>9
  <2>2. CASE v # u
    <3>1. Open(v)' = Open(v)
      <4>1. \A p \in Requests : request'[p].user = v <=> request[p].user = v /\ p # r
        BY <2>2, SavedDomainsAssumption
      <4>2. \A x : x \in Open(v)' <=> x \in Open(v)
        <5>1. request[r].user # v
          BY <2>2, SavedDomainsAssumption
        <5>2. QED
          BY <2>0, <4>1, <5>1, <1>0, OpenFacts
      <4>3. QED
        BY <4>2
    <3>2. QED
      BY <1>0, <3>1, LimitsOpen DEF Limits
  <2>3. QED
    BY <2>1, <2>2
<1>3. LimitOverrunBounded'
  BY <1>2 DEF LimitOverrunBounded, Open
<1>4. QED
  BY <1>1, <1>3 DEF Limits

\* What is saved was allowed, and is not allowed once more.
LEMMA LimitsSave ==
    ASSUME SInv, SInv', Limits, NEW r \in Requests, NEW u \in Users, NEW o, NEW d,
           request[r].user = u, o \in Granted(r), LiveOf(u)' \subseteq LiveOf(u) \cup {d},
           \A v \in Users \ {u} : LiveOf(v)' = LiveOf(v),
           \A p \in Requests \ {r} : request'[p] = request[p],
           request'[r].user \in {None, u}, Granted(r)' \subseteq Granted(r) \ {o}
    PROVE  Limits'
<1>0. /\ \A p \in Requests \ {r} : Granted(p)' = Granted(p)
      /\ SavedDomainLimit[u] \in Nat /\ Cardinality(Requests) \in Nat
  BY SavedDomainsAssumption, FS_CardinalityType DEF Granted, At
<1>1. GrantsWithinLimit'
  <2>1. Cardinality(Granted(r)') <= Cardinality(Granted(r)) /\ Cardinality(Granted(r)') \in Nat
        /\ Cardinality(Granted(r)) \in Nat
    BY GrantedFacts, FS_Subset, FS_CardinalityType
  <2>2. Cardinality(Granted(r)) <= SavedDomainLimit[u]
    BY DEF Limits, GrantsWithinLimit
  <2>3. Cardinality(Granted(r)') <= SavedDomainLimit[u]
    BY <1>0, <2>1, <2>2
  <2>4. \A v \in Users : request'[r].user = v => v = u
    BY SavedDomainsAssumption
  <2>5. QED
    BY <1>0, <2>3, <2>4 DEF Limits, GrantsWithinLimit
<1>2. ASSUME NEW v \in Users
      PROVE  Cardinality(LiveOf(v)') + Cardinality(Open(v)')
                 <= SavedDomainLimit[v] * Cardinality(Requests)
  <2>0. \A x : x \in Open(v)' <=>
            \E p \in Requests : request'[p].user = v /\ \E k \in Granted(p)' : x = <<p, k>>
    BY DEF Open
  <2>1. CASE v = u
    <3>1. Open(v)' \subseteq Open(u) \ {<<r, o>>} /\ <<r, o>> \in Open(u)
      BY <1>0, <2>0, <2>1, OpenFacts
    <3>2. IsFiniteSet(Open(u)) /\ Cardinality(Open(u)) \in Nat
      BY OpenIsFinite DEF Limits
    <3>3. IsFiniteSet(Open(u) \ {<<r, o>>})
          /\ Cardinality(Open(u) \ {<<r, o>>}) = Cardinality(Open(u)) - 1
      BY <3>1, <3>2, FS_RemoveElement
    <3>4. Cardinality(Open(v)') <= Cardinality(Open(u)) - 1 /\ Cardinality(Open(v)') \in Nat
      BY <3>1, <3>2, <3>3, FS_Subset, FS_CardinalityType
    <3>5. IsFiniteSet(LiveOf(u) \cup {d})
          /\ Cardinality(LiveOf(u) \cup {d}) <= Cardinality(LiveOf(u)) + 1
          /\ Cardinality(LiveOf(u) \cup {d}) \in Nat
      <4>1. IsFiniteSet(LiveOf(u)) /\ Cardinality(LiveOf(u)) \in Nat
        BY LiveFacts
      <4>2. /\ IsFiniteSet(LiveOf(u) \cup {d})
            /\ \/ Cardinality(LiveOf(u) \cup {d}) = Cardinality(LiveOf(u))
               \/ Cardinality(LiveOf(u) \cup {d}) = Cardinality(LiveOf(u)) + 1
        BY <4>1, FS_AddElement
      <4>3. QED
        BY <4>1, <4>2
    <3>6. Cardinality(LiveOf(v)') <= Cardinality(LiveOf(u) \cup {d})
          /\ Cardinality(LiveOf(v)') \in Nat
      BY <2>1, <3>5, FS_Subset, FS_CardinalityType
    <3>7. Cardinality(LiveOf(u)) + Cardinality(Open(u))
              <= SavedDomainLimit[u] * Cardinality(Requests)
      BY LimitsOpen DEF Limits
    <3>8. SavedDomainLimit[u] * Cardinality(Requests) \in Nat /\ Cardinality(LiveOf(u)) \in Nat
      BY <1>0, LiveFacts
    <3>9. QED
      BY <2>1, <3>2, <3>4, <3>5, <3>6, <3>7, <3>8
  <2>2. CASE v # u
    <3>1. request[r].user # v /\ request'[r].user # v
      BY <2>2, SavedDomainsAssumption
    <3>2. \A x : x \in Open(v)' <=> x \in Open(v)
      BY <1>0, <2>0, <3>1, OpenFacts
    <3>3. Open(v)' = Open(v)
      BY <3>2
    <3>4. QED
      BY <2>2, <3>3, LimitsOpen DEF Limits
  <2>3. QED
    BY <2>1, <2>2
<1>3. LimitOverrunBounded'
  BY <1>2 DEF LimitOverrunBounded, Open
<1>4. QED
  BY <1>1, <1>3 DEF Limits

\* One request moves on with no more than it was let through for.
LEMMA LimitsOne ==
    ASSUME SInv, SInv', Limits, NEW r \in Requests, NEW q, Becomes(r, q),
           \A u \in Users : LiveOf(u)' \subseteq LiveOf(u),
           \/ q.user = None
           \/ Granted(r)' = {}
           \/ q.user = request[r].user /\ Granted(r)' \subseteq Granted(r)
    PROVE  Limits'
<1>1. request'[r] = q /\ \A p \in Requests \ {r} : request'[p] = request[p]
  BY DEF Becomes, SInv, RowsOK
<1>2. \A p \in Requests \ {r} : Granted(p)' = Granted(p)
  BY <1>1 DEF Granted, At
<1>3. QED
  BY <1>1, <1>2, LimitsShrink, SavedDomainsAssumption

\* What a step that has the request write nothing to its rows leaves of them.
LEMMA GrantedStays ==
    ASSUME SInv, NEW r \in Requests, NEW q, Becomes(r, q)
    PROVE  /\ request'[r] = q
           /\ q.pc = "inserting" => Granted(r)' = {q.origin} \cup q.rest
           /\ q.pc = "finding" /\ q.flow = "import" => Granted(r)' = {q.origin} \cup q.rest
           /\ q.pc # "inserting" /\ ~(q.pc = "finding" /\ q.flow = "import") =>
                  Granted(r)' = q.rest
  BY DEF Becomes, Granted, At, SInv, RowsOK

LEMMA LiveStays ==
    ASSUME domain' = domain
    PROVE  \A u : LiveOf(u)' = LiveOf(u)
  BY DEF LiveOf, Live, Inserted

\* Rows that were there are live as before, or no more.
LEMMA LiveShrinks ==
    ASSUME SInv, NEW d \in Inserted, NEW row, domain' = [domain EXCEPT ![d] = row],
           row.owner = domain[d].owner, row.live => domain[d].live
    PROVE  \A u : LiveOf(u)' \subseteq LiveOf(u)
  BY DEF LiveOf, Live, Inserted, SInv, RowsOK

\* A request with no row left to write moves on and writes none.
LEMMA NothingGranted ==
    ASSUME SInv, SInv', Limits, NEW r \in Requests, NEW q, Becomes(r, q), domain' = domain,
           q.rest = {}, q.pc # "inserting", ~(q.pc = "finding" /\ q.flow = "import")
    PROVE  Limits'
<1>1. Granted(r)' = {}
  BY GrantedStays
<1>2. \A u \in Users : LiveOf(u)' \subseteq LiveOf(u)
  BY LiveStays
<1>3. QED
  BY <1>1, <1>2, LimitsOne

LEMMA IdleLimits ==
    ASSUME SInv, SInv', Limits, NEW r \in Requests, Leaves(r),
           \A u \in Users : LiveOf(u)' \subseteq LiveOf(u)
    PROVE  Limits'
  BY LimitsOne, IdleFacts DEF Leaves

\* After a row an import has the rest of them.
LEMMA RowLimits ==
    ASSUME SInv, SInv', Limits, NEW r \in Requests, NEW q \in AfterRow(r), Becomes(r, q),
           request[r].flow \in {"save", "import"},
           \A u \in Users : LiveOf(u)' \subseteq LiveOf(u)
    PROVE  Limits'
<1>1. \/ q = IdleRequest
      \/ /\ q.user = request[r].user /\ q.flow = "import" /\ q.pc \in {"finding", "storing"}
         /\ q.pc = "storing" => q.rest = {}
         /\ q.pc = "finding" => {q.origin} \cup q.rest = request[r].rest
  BY AfterRowFacts
<1>2. request[r].rest \subseteq Granted(r)
  BY DEF Granted
<1>3. q = IdleRequest \/ Granted(r)' = {} \/ Granted(r)' \subseteq Granted(r)
  BY <1>1, <1>2, GrantedStays
<1>4. QED
  BY <1>1, <1>3, IdleFacts, LimitsOne

\* A request of a handoff or a saved domain goes to another step than the INSERT.
LEMMA GoLimits ==
    ASSUME SInv, SInv', Limits, NEW r \in Requests, NEW pc \in Steps \ {"inserting"}, Goes(r, pc),
           request[r].flow # "import",
           \A u \in Users : LiveOf(u)' \subseteq LiveOf(u)
    PROVE  Limits'
<1>1. PICK q : q = [request[r] EXCEPT !.pc = pc]
  OBVIOUS
<1>2. q.pc = pc /\ q.rest = request[r].rest /\ q.flow = request[r].flow
  BY <1>1, AtStep DEF Request
<1>3. q.rest = {}
  BY <1>2, AtStep DEF StepOK
<1>4. QED
  BY <1>1, <1>2, <1>3, GrantedStays, LimitsOne DEF Goes

LEMMA LimitsStep == SInv /\ SInv' /\ Limits /\ [Next]_vars => Limits'
<1> SUFFICES ASSUME SInv, SInv', Limits, [Next]_vars
             PROVE  Limits'
  OBVIOUS
<1>a. \A r \in Requests : At(r, "idle") => request[r].user = None /\ request[r].rest = {}
  BY AtStep DEF At, StepOK
<1>b. \A r \in Requests : /\ request[r].flow # "import" => request[r].rest = {}
                          /\ ~At(r, "idle") => request[r].flow \in {"save", "import", "handoff"}
                          /\ ~At(r, "idle") => request[r].user \in Users
  BY AtStep, RequestFields DEF At, StepOK
<1>c. {"counting", "refinding", "reading", "claiming", "rerunning", "recording"}
          \subseteq Steps \ {"inserting"}
  BY DEF Steps
<1>d. \A r \in Requests : At(r, "refinding") \/ At(r, "reading") \/ At(r, "claiming")
                          \/ At(r, "rerunning") \/ At(r, "recording")
                              => request[r].flow = "handoff"
  BY AtStep DEF At, StepOK
<1>1. ASSUME NEW r \in Requests, NEW u \in Users, NEW o \in Origins, SaveDomain(r, u, o)
      PROVE  Limits'
  <2>1. PICK q : q = [IdleRequest EXCEPT !.flow = "save", !.pc = "finding", !.user = u,
                                         !.origin = o]
    OBVIOUS
  <2>2. q.rest = {} /\ q.flow = "save" /\ q.pc = "finding"
    BY <2>1 DEF IdleRequest
  <2>3. Becomes(r, q) /\ domain' = domain
    BY <1>1, <2>1 DEF SaveDomain
  <2>4. QED
    BY <2>2, <2>3, NothingGranted
<1>2. ASSUME NEW r \in Requests, NEW u \in Users, NEW k \in Keys,
             NEW file \in SUBSET Origins \ {{}}, NEW state \in States,
             ConfirmImport(r, u, k, file, state)
      PROVE  Limits'
  <2>1. PICK q : q = [IdleRequest EXCEPT !.flow = "import", !.user = u, !.monitoring = state,
                              !.key = k]
    OBVIOUS
  <2>2. PICK rows \in Planned(u, file) : \E go \in AtRows(q, rows) : Becomes(r, go)
    BY <1>2, <2>1 DEF ConfirmImport
  <2>3. PICK go \in AtRows(q, rows) : Becomes(r, go)
    BY <2>2
  <2>4. /\ q \in Request /\ q.flow = "import" /\ q.user = u /\ q.key = k
        /\ q.continuation = None /\ ~q.adopts
    BY <2>1 DEF Request, IdleRequest, States
  <2>5. rows \in SUBSET Origins
        /\ (rows = {} \/ Cardinality(rows) + Cardinality(LiveOf(u)) <= SavedDomainLimit[u])
    BY <2>2 DEF Planned
  <2>6. /\ go.user = u /\ go.pc \in {"finding", "storing"} /\ go.flow = "import"
        /\ go.pc = "storing" => go.rest = {}
        /\ go.pc = "finding" => {go.origin} \cup go.rest = rows
    BY <2>3, <2>4, <2>5, AtRowsFacts
  <2>7. request[r].user = None /\ domain' = domain
    BY <1>2, <1>a DEF ConfirmImport
  <2>8. request'[r] = go /\ \A p \in Requests \ {r} : request'[p] = request[p]
    BY <2>3 DEF Becomes, SInv, RowsOK
  <2>9. CASE go.pc = "storing"
    BY <2>3, <2>6, <2>7, <2>9, GrantedStays, LimitsOne, LiveStays
  <2>10. CASE go.pc = "finding"
    <3>1. Granted(r)' = rows /\ rows # {}
      BY <2>3, <2>6, <2>10, GrantedStays
    <3>2. Cardinality(Granted(r)') + Cardinality(LiveOf(u)) <= SavedDomainLimit[u]
      BY <2>5, <3>1
    <3>3. QED
      BY <2>6, <2>7, <2>8, <3>2, LimitsGrant
  <2>11. QED
    BY <2>6, <2>9, <2>10
<1>3. ASSUME NEW r \in Requests, FindExisting(r)
      PROVE  Limits'
  <2>0. domain' = domain /\ ~At(r, "idle")
    BY <1>3 DEF FindExisting, At
  <2>1. CASE Goes(r, "inserting") /\ request[r].flow = "import"
    <3>1. PICK q : q = [request[r] EXCEPT !.pc = "inserting"]
      OBVIOUS
    <3>2. /\ q.pc = "inserting" /\ q.rest = request[r].rest /\ q.origin = request[r].origin
          /\ q.user = request[r].user
      BY <3>1, AtStep DEF Request
    <3>3. Granted(r) = {request[r].origin} \cup request[r].rest
      BY <1>3, <2>1 DEF FindExisting, Granted, At
    <3>4. QED
      BY <2>0, <2>1, <3>1, <3>2, <3>3, GrantedStays, LimitsOne, LiveStays DEF Goes
  <2>2. CASE request[r].flow # "import" /\ (Goes(r, "counting") \/ Goes(r, "refinding"))
    BY <2>0, <2>2, <1>c, GoLimits, LiveStays
  <2>3. CASE request[r].flow # "handoff" /\ \E q \in AfterRow(r) : Becomes(r, q)
    BY <1>b, <2>0, <2>3, RowLimits, LiveStays
  <2>4. QED
    BY <1>3, <2>1, <2>2, <2>3 DEF FindExisting
<1>4. ASSUME NEW r \in Requests, CountActive(r)
      PROVE  Limits'
  <2>0. domain' = domain /\ ~At(r, "idle") /\ request[r].flow # "import"
    BY <1>4, AtStep DEF CountActive, At, StepOK
  <2>1. CASE HasRoom(request[r].user) /\ Goes(r, "inserting")
    <3>1. PICK q : q = [request[r] EXCEPT !.pc = "inserting"]
      OBVIOUS
    <3>2. /\ q.pc = "inserting" /\ q.rest = request[r].rest /\ q.origin = request[r].origin
          /\ q.user = request[r].user /\ Becomes(r, q)
      BY <2>1, <3>1, AtStep DEF Request, Goes
    <3>3. request'[r] = q /\ Granted(r)' = {q.origin}
      BY <1>b, <2>0, <3>2, GrantedStays
    <3>4. PICK u \in Users : u = request[r].user
      BY <1>b, <2>0
    <3>5. Cardinality(Granted(r)') = 1
      BY <3>3, FS_Singleton
    <3>6. Cardinality(Granted(r)') + Cardinality(LiveOf(u)) <= SavedDomainLimit[u]
      BY <2>1, <3>4, <3>5, LiveFacts, SavedDomainsAssumption DEF HasRoom
    <3>7. \A p \in Requests \ {r} : request'[p] = request[p]
      BY <3>2 DEF Becomes, SInv, RowsOK
    <3>8. QED
      BY <2>0, <3>2, <3>3, <3>4, <3>6, <3>7, LimitsGrant
  <2>2. CASE Fails(r)
    BY <2>0, <2>2, IdleLimits, LiveStays DEF Fails
  <2>3. QED
    BY <1>4, <2>1, <2>2 DEF CountActive
<1>5. ASSUME NEW r \in Requests, InsertDomain(r)
      PROVE  Limits'
  <2> DEFINE refused == Refused(request[r].user, request[r].origin)
  <2>0. ~At(r, "idle") /\ At(r, "inserting")
    BY <1>5 DEF InsertDomain, At
  <2>1. CASE refused
    BY <1>5, <2>1, IdleLimits, LiveStays DEF InsertDomain, Fails
  <2>2. CASE ~refused
    <3>1. PICK u \in Users : u = request[r].user
      BY <1>b, <2>0
    <3>2. PICK row : row = [owner |-> u, origin |-> request[r].origin,
                            state |-> "active", adopted |-> FALSE, live |-> TRUE]
      OBVIOUS
    <3>3. PICK d \in DomainIds :
              /\ NextId(d) /\ domain' = [domain EXCEPT ![d] = row]
              /\ \E q : /\ Becomes(r, q)
                        /\ \/ \E pc \in {"pausing", "reading"} :
                                   q = [request[r] EXCEPT !.pc = pc, !.domain = d]
                           \/ request[r].flow # "handoff" /\ q \in AfterRow(r)
      BY <1>5, <2>2, <3>1, <3>2 DEF InsertDomain, AfterInsert
    <3>4. PICK q : /\ Becomes(r, q)
                   /\ \/ \E pc \in {"pausing", "reading"} :
                              q = [request[r] EXCEPT !.pc = pc, !.domain = d]
                      \/ request[r].flow # "handoff" /\ q \in AfterRow(r)
      BY <3>3
    <3>5. /\ domain'[d] = row /\ row.owner = u /\ \A e \in DomainIds \ {d} : domain'[e] = domain[e]
          /\ d \notin Inserted
      BY <3>2, <3>3 DEF SInv, RowsOK, NextId
    <3>6. LiveOf(u)' \subseteq LiveOf(u) \cup {d}
      BY <3>5 DEF LiveOf, Live, Inserted
    <3>7. \A v \in Users \ {u} : LiveOf(v)' = LiveOf(v)
      BY <3>5 DEF LiveOf, Live, Inserted
    <3>8. /\ request[r].origin \in Granted(r) /\ request[r].origin \notin request[r].rest
          /\ request[r].rest \subseteq Granted(r)
      BY <2>0, AtStep DEF Granted, StepOK
    <3>9. q.user \in {None, u} /\ Granted(r)' \subseteq request[r].rest
      <4>1. CASE \E pc \in {"pausing", "reading"} : q = [request[r] EXCEPT !.pc = pc, !.domain = d]
        <5>1. q.pc \in {"pausing", "reading"} /\ q.user = u /\ q.rest = request[r].rest
          BY <3>1, <4>1, AtStep DEF Request
        <5>2. QED
          BY <3>4, <5>1, GrantedStays
      <4>2. CASE request[r].flow # "handoff" /\ q \in AfterRow(r)
        <5>1. \/ q = IdleRequest
              \/ /\ q.user = u /\ q.flow = "import" /\ q.pc \in {"finding", "storing"}
                 /\ q.pc = "storing" => q.rest = {}
                 /\ q.pc = "finding" => {q.origin} \cup q.rest = request[r].rest
          BY <1>b, <2>0, <3>1, <4>2, AfterRowFacts
        <5>2. q = IdleRequest => Granted(r)' = {}
          BY <3>4, IdleFacts, GrantedStays
        <5>3. QED
          BY <3>4, <5>1, <5>2, IdleFacts, GrantedStays
      <4>3. QED
        BY <3>4, <4>1, <4>2
    <3>10. request'[r] = q /\ \A p \in Requests \ {r} : request'[p] = request[p]
      BY <3>4 DEF Becomes, SInv, RowsOK
    <3>11. Granted(r)' \subseteq Granted(r) \ {request[r].origin}
      BY <3>8, <3>9
    <3>o. PICK o : o = request[r].origin
      OBVIOUS
    <3>12. QED
      BY <3>1, <3>6, <3>7, <3>8, <3>9, <3>10, <3>11, <3>o, LimitsSave
  <2>3. QED
    BY <2>1, <2>2
<1>6. ASSUME NEW r \in Requests, PauseCreated(r)
      PROVE  Limits'
  <2>0. ~At(r, "idle")
    BY <1>6 DEF PauseCreated, At
  <2>1. \A u \in Users : LiveOf(u)' \subseteq LiveOf(u)
    <3>1. CASE domain' = domain
      BY <3>1, LiveStays
    <3>2. CASE domain' # domain
      <4>1. PICK d \in Live : domain' = [domain EXCEPT ![d] = [domain[d] EXCEPT !.state = "paused"]]
        BY <1>6, <3>2 DEF PauseCreated
      <4>2. d \in Inserted /\ domain[d] \in Domain
        BY <4>1, InsertedFacts DEF Live, SInv
      <4>3. PICK row : row = [domain[d] EXCEPT !.state = "paused"]
        OBVIOUS
      <4>4. row.owner = domain[d].owner /\ row.live = domain[d].live
        BY <4>2, <4>3 DEF Domain
      <4>5. QED
        BY <4>1, <4>2, <4>3, <4>4, LiveShrinks
    <3>3. QED
      BY <3>1, <3>2
  <2>2. CASE request[r].flow = "handoff" /\ Goes(r, "reading")
    BY <1>c, <2>1, <2>2, GoLimits
  <2>3. CASE request[r].flow # "handoff" /\ \E q \in AfterRow(r) : Becomes(r, q)
    BY <1>b, <2>0, <2>1, <2>3, RowLimits
  <2>4. QED
    BY <1>6, <2>2, <2>3 DEF PauseCreated
<1>7. ASSUME NEW r \in Requests, StoreJob(r)
      PROVE  Limits'
  BY <1>7, IdleLimits, LiveStays DEF StoreJob
<1>8. ASSUME NEW r \in Requests, NEW u \in Users, NEW c \in Continuations,
           ConsumeContinuation(r, u, c)
      PROVE  Limits'
  <2>1. PICK q : q = [IdleRequest EXCEPT !.flow = "handoff", !.pc = "finding", !.user = u,
                              !.origin = AuditedOrigin, !.continuation = c]
    OBVIOUS
  <2>2. q.rest = {} /\ q.flow = "handoff" /\ q.pc = "finding"
    BY <2>1 DEF IdleRequest
  <2>3. Becomes(r, q) /\ domain' = domain
    BY <1>8, <2>1 DEF ConsumeContinuation
  <2>4. QED
    BY <2>2, <2>3, NothingGranted
<1>9. ASSUME NEW r \in Requests, FindOwned(r)
      PROVE  Limits'
  <2>1. CASE Fails(r)
    BY <1>9, <2>1, IdleLimits, LiveStays DEF FindOwned, Fails
  <2>2. CASE \E d : Becomes(r, [request[r] EXCEPT !.pc = "reading", !.domain = d])
    <3>1. PICK d : Becomes(r, [request[r] EXCEPT !.pc = "reading", !.domain = d])
      BY <2>2
    <3>2. PICK q : q = [request[r] EXCEPT !.pc = "reading", !.domain = d]
      OBVIOUS
    <3>3. q.pc = "reading" /\ q.rest = request[r].rest /\ request[r].rest = {}
      BY <1>9, <1>b, <1>d, <3>2, AtStep DEF FindOwned, Request
    <3>4. Becomes(r, q) /\ domain' = domain
      BY <1>9, <3>1, <3>2 DEF FindOwned
    <3>5. QED
      BY <3>3, <3>4, NothingGranted
  <2>3. QED
    BY <1>9, <2>1, <2>2 DEF FindOwned
<1>10. ASSUME NEW r \in Requests, ReadScan(r)
      PROVE  Limits'
  BY <1>10, <1>c, <1>d, GoLimits, IdleLimits, LiveStays DEF ReadScan
<1>11. ASSUME NEW r \in Requests, ClaimScan(r)
      PROVE  Limits'
  <2>0. request[r].flow = "handoff" /\ domain' = domain
    BY <1>11, <1>d DEF ClaimScan
  <2>1. CASE Goes(r, "rerunning")
    BY <1>c, <2>0, <2>1, GoLimits, LiveStays
  <2>2. CASE Becomes(r, [request[r] EXCEPT !.pc = "recording", !.adopts = TRUE])
    <3>1. PICK q : q = [request[r] EXCEPT !.pc = "recording", !.adopts = TRUE]
      OBVIOUS
    <3>2. q.pc = "recording" /\ q.rest = {}
      BY <1>b, <2>0, <3>1, AtStep DEF Request
    <3>3. Becomes(r, q)
      BY <2>2, <3>1
    <3>4. QED
      BY <2>0, <3>2, <3>3, NothingGranted
  <2>3. QED
    BY <1>11, <2>1, <2>2 DEF ClaimScan
<1>12. ASSUME NEW r \in Requests, Rerun(r)
      PROVE  Limits'
  BY <1>12, <1>c, <1>d, GoLimits, IdleLimits, LiveStays DEF Rerun
<1>13. ASSUME NEW r \in Requests, RecordScan(r)
      PROVE  Limits'
  <2>1. PICK d \in Inserted : d = request[r].domain
    BY <1>13, AtStep DEF RecordScan, At, StepOK, RowOf
  <2>2. PICK row : row = [domain[d] EXCEPT !.adopted = request[r].adopts]
    OBVIOUS
  <2>3. row.owner = domain[d].owner /\ row.live = domain[d].live
    BY <2>2, InsertedFacts DEF Domain, SInv
  <2>4. domain' = [domain EXCEPT ![d] = row]
    BY <1>13, <2>1, <2>2 DEF RecordScan
  <2>5. \A u \in Users : LiveOf(u)' \subseteq LiveOf(u)
    BY <2>3, <2>4, LiveShrinks
  <2>6. QED
    BY <1>13, <2>5, IdleLimits DEF RecordScan
<1>14. ASSUME NEW r \in Requests, RequestDies(r)
      PROVE  Limits'
  BY <1>14, IdleLimits, LiveStays DEF RequestDies, Fails
<1>15. ASSUME NEW d \in DomainIds, SoftDeleteDomain(d)
      PROVE  Limits'
  <2>1. d \in Inserted
    BY <1>15 DEF SoftDeleteDomain, Live
  <2>2. PICK row : row = [domain[d] EXCEPT !.live = FALSE]
    OBVIOUS
  <2>3. row.owner = domain[d].owner /\ ~row.live
    BY <2>1, <2>2, InsertedFacts DEF Domain, SInv
  <2>4. domain' = [domain EXCEPT ![d] = row]
    BY <1>15, <2>2 DEF SoftDeleteDomain
  <2>5. \A u \in Users : LiveOf(u)' \subseteq LiveOf(u)
    BY <2>1, <2>3, <2>4, LiveShrinks
  <2>6. \A p \in Requests : Granted(p)' = Granted(p) /\ request'[p] = request[p]
    BY <1>15 DEF SoftDeleteDomain, Granted, At
  <2>7. QED
    BY <2>5, <2>6, LimitsShrink
<1>16. ASSUME NEW c \in Continuations, CreateContinuation(c)
      PROVE  Limits'
  <2>1. domain' = domain /\ \A p \in Requests : Granted(p)' = Granted(p) /\ request'[p] = request[p]
    BY <1>16 DEF CreateContinuation, Granted, At
  <2>2. QED
    BY <2>1, LiveStays, LimitsShrink
<1>17. ASSUME NEW c \in Continuations, ContinuationLapses(c)
      PROVE  Limits'
  <2>1. domain' = domain /\ \A p \in Requests : Granted(p)' = Granted(p) /\ request'[p] = request[p]
    BY <1>17 DEF ContinuationLapses, Granted, At
  <2>2. QED
    BY <2>1, LiveStays, LimitsShrink
<1>18. CASE PurgeScan
  <2>1. domain' = domain /\ \A p \in Requests : Granted(p)' = Granted(p) /\ request'[p] = request[p]
    BY <1>18 DEF PurgeScan, Granted, At
  <2>2. QED
    BY <2>1, LiveStays, LimitsShrink
<1>19. CASE UNCHANGED vars
  <2>1. domain' = domain /\ \A p \in Requests : Granted(p)' = Granted(p) /\ request'[p] = request[p]
    BY <1>19 DEF vars, Granted, At
  <2>2. QED
    BY <2>1, LiveStays, LimitsShrink
<1>20. QED
  BY <1>1, <1>2, <1>3, <1>4, <1>5, <1>6, <1>7, <1>8, <1>9, <1>10, <1>11, <1>12, <1>13, <1>14,
     <1>15, <1>16, <1>17, <1>18, <1>19
  DEF Next, CreationStep, HandoffStep

-----------------------------------------------------------------------------
(* The theorems *)

\* Rows and requests keep their types, the unique index of live rows holds, and
\* a continuation is held by one request, of the account that used it.
THEOREM SavedDomainsInvariant == Spec => []SInv
<1>1. Init => SInv
  <2> SUFFICES ASSUME Init
               PROVE  SInv
    OBVIOUS
  <2>1. Inserted = {} /\ Live = {}
    BY DEF Init, Inserted, Live
  <2>2. request \in [Requests -> Request]
    BY IdleFacts DEF Init
  <2>3. RowsOK
    <3>1. domain \in [DomainIds -> Domain \cup {NoDomain}]
      BY DEF Init
    <3>2. continuation \in [Continuations -> {"none", "open"} \cup Users]
      BY DEF Init
    <3>3. QED
      BY <2>1, <2>2, <3>1, <3>2 DEF Init, RowsOK
  <2>4. RequestsOK
    BY IdleFacts DEF Init, RequestsOK, RowOf, ClaimOf
  <2>5. ContinuationsHeld
    BY IdleFacts, SavedDomainsAssumption DEF Init, ContinuationsHeld
  <2>6. QED
    BY <2>3, <2>4, <2>5 DEF SInv
<1>2. QED
  BY <1>1, SInvStep, PTL DEF Spec

THEOREM TypeCorrectness == Spec => []TypeOK
<1>1. SInv => TypeOK
  <2> SUFFICES ASSUME SInv, NEW u \in Users, NEW o \in Origins
               PROVE  Cardinality(Existing(u, o)) <= 1
    BY DEF SInv, RowsOK, TypeOK
  <2>1. \A d, e \in Existing(u, o) : d = e
    BY DEF Existing, LiveOf, SInv, RowsOK
  <2>2. CASE Existing(u, o) = {}
    BY <2>2, FS_EmptySet
  <2>3. CASE Existing(u, o) # {}
    <3>1. PICK d : Existing(u, o) = {d}
      BY <2>1, <2>3
    <3>2. Cardinality({d}) = 1
      BY FS_Singleton
    <3>3. QED
      BY <3>1, <3>2
  <2>4. QED
    BY <2>2, <2>3
<1>2. QED
  BY <1>1, SavedDomainsInvariant, PTL

\* Of any number of accounts that continue one anonymous audit, in any order of
\* their requests' statements, one adopts its scan at most.
THEOREM BaselineIsOwnHolds == Spec => []BaselineIsOwn
<1>1. Init => BaselineIsOwn
  BY DEF Init, BaselineIsOwn, Inserted
<1>2. QED
  BY <1>1, BaselineStep, SavedDomainsInvariant, PTL DEF Spec

\* A continuation that stays used has saved the audited origin for the account
\* that used it.
THEOREM UsedContinuationsSaveHolds == Spec => []UsedContinuationsSave
<1>1. Init => UsedContinuationsSave
  BY SavedDomainsAssumption DEF Init, UsedContinuationsSave
<1>2. QED
  BY <1>1, UsedStep, SavedDomainsInvariant, PTL DEF Spec

\* Requests that overlap overrun the saved-domain limit by no more than the limit
\* for each of them.
THEOREM LimitOverrunBoundedHolds == Spec => []LimitOverrunBounded
<1>1. Init => Limits
  <2> SUFFICES ASSUME Init
               PROVE  Limits
    OBVIOUS
  <2>1. \A r \in Requests : request[r].user \notin Users
    BY IdleFacts, SavedDomainsAssumption DEF Init
  <2>2. \A u \in Users : LiveOf(u) = {} /\ Open(u) = {}
    BY <2>1 DEF Init, LiveOf, Live, Inserted, Open
  <2>3. \A u \in Users : SavedDomainLimit[u] * Cardinality(Requests) \in Nat
    <3>1. Cardinality(Requests) \in Nat
      BY FS_CardinalityType, SavedDomainsAssumption
    <3>2. QED
      BY <3>1, SavedDomainsAssumption
  <2>4. LimitOverrunBounded
    BY <2>2, <2>3, FS_EmptySet, LimitsOpen
  <2>5. QED
    BY <2>1, <2>4 DEF Limits, GrantsWithinLimit
<1>2. Limits => LimitOverrunBounded
  BY DEF Limits
<1>3. QED
  BY <1>1, <1>2, SavedDomainsInvariant, LimitsStep, PTL DEF Spec

=============================================================================
