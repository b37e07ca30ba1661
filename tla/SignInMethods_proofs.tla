------------------------- MODULE SignInMethods_proofs -------------------------
(***************************************************************************)
(* Proofs about SignInMethods, for any users, rows and overlapping         *)
(* requests: no account is locked out except by overlapping or killed      *)
(* requests, a recovery code makes one session, and a suspension ends the  *)
(* sessions of the suspended user.                                         *)
(*                                                                         *)
(* None of the three is inductive by itself.  Each gets the facts about    *)
(* the requests under way that its next step rests on: what a request      *)
(* about to remove a method has read (Keeps), which codes are about to be  *)
(* spent (CInv), and which requests are past the check of the status       *)
(* (Cleared).                                                              *)
(***************************************************************************)
EXTENDS SignInMethods, FiniteSetTheorems, TLAPS

-----------------------------------------------------------------------------
(* Type correctness *)

Existing(u) == u \in Users /\ user[u] # "none"

\* Rows and requests name users that exist, since no user is ever removed.
Owned ==
    /\ \A k \in Passkeys : passkey[k].status # "none" => Existing(passkey[k].owner)
    /\ \A l \in Links : link[l].status # "none" => Existing(link[l].owner)
    /\ \A c \in Codes : code[c].status # "none" => Existing(code[c].owner)
    /\ \A s \in sessions : Existing(s.user)

\* Which fields of a request are set where.
Filled(q) ==
    /\ q.pc \notin {"idle", "google", "signup", "creating"} => Existing(q.user)
    /\ q.pc \in {"google", "signup", "creating", "linking", "inserting"} => q.subject \in Subjects
    /\ q.pc = "removing" => q.passkey \in Passkeys
    /\ q.pc = "disconnecting" => q.link \in Links
    /\ q.pc = "redeeming" => q.via = "code"
    /\ q.via = "code" => q.pc \in {"redeeming", "signedIn"} /\ q.code \in Codes

\* The tables, and the requests under way.
TablesOK ==
    /\ user \in [Users -> {"none", "active", "suspended"}]
    /\ admins \subseteq Users
    /\ passkey \in [Passkeys -> PasskeyRow]
    /\ link \in [Links -> LinkRow]
    /\ code \in [Codes -> CodeRow]
    /\ sessions \subseteq Session
    /\ redeemed \in [Codes -> Nat]
    /\ excused \subseteq Users \X {"methods", "sessions"}
    /\ Owned

RequestsOK ==
    /\ request \in [Requests -> Request]
    /\ \A r \in Requests : Filled(request[r])

TInv == TablesOK /\ RequestsOK

-----------------------------------------------------------------------------
(* Means to sign in *)

\* What a request holds is its user's, or removed meanwhile (and no new row has
\* taken its id); unless it was overtaken, its user keeps a passkey after it.
Keeps(q) ==
    /\ q.pc = "removing" =>
        /\ passkey[q.passkey].status = "none" \/ passkey[q.passkey].owner = q.user
        /\ ~q.overtaken => \E k \in ActivePasskeys(q.user) : k # q.passkey
    /\ q.pc = "disconnecting" =>
        /\ link[q.link].status = "none" \/ link[q.link].owner = q.user
        /\ ~q.overtaken => ActivePasskeys(q.user) # {}

LInv == OnlyOverlapsLockOut /\ \A r \in Requests : Keeps(request[r])

-----------------------------------------------------------------------------
(* Recovery codes *)

\* Request q has marked code c used and not made its session yet.
Spending(q, c) == q.pc = "signedIn" /\ q.via = "code" /\ q.code = c

\* A code that is unused, or was when a request not overtaken looked it up, has
\* made no session and is about to make none.
Untouched(c) == redeemed[c] = 0 /\ \A r \in Requests : ~Spending(request[r], c)

CInv ==
    /\ \A c \in Codes : code[c].status = "unused" => Untouched(c)
    /\ \A r \in Requests :
            request[r].pc = "redeeming" /\ ~request[r].overtaken => Untouched(request[r].code)
    /\ \A c \in Codes, r \in Requests :
            Spending(request[r], c) /\ ~request[r].overtaken =>
                /\ redeemed[c] = 0
                /\ \A q \in Requests : Spending(request[q], c) /\ ~request[q].overtaken => q = r
    /\ CodesAreSpentOnce

-----------------------------------------------------------------------------
(* Suspension *)

\* A request on its way to a session has read a status that was good, and still
\* is unless it was overtaken.
Cleared(q) ==
    q.pc \in {"signedIn", "registering", "firstCodes"} /\ q.via # "code" /\ ~q.overtaken =>
        user[q.user] # "suspended"

SInv == SuspensionEndsSessions /\ \A r \in Requests : Cleared(request[r])

-----------------------------------------------------------------------------
LEMMA TypeFromTInv == TInv => TypeOK
  BY DEF TInv, TablesOK, RequestsOK, Owned, TypeOK, OwnersExist, Existing

\* A step that gives request r the value q, marks others overtaken at most, and
\* removes no user.
LEMMA RequestMovesOthers ==
    ASSUME RequestsOK, NEW r \in Requests, NEW q \in Request, Filled(q)',
           request' = [o \in Requests |-> request'[o]], request'[r] = q,
           \A o \in Requests \ {r} :
               request'[o] \in {request[o], [request[o] EXCEPT !.overtaken = TRUE]},
           \A u \in Users : user[u] # "none" => user'[u] # "none"
    PROVE  RequestsOK'
<1>1. request' \in [Requests -> Request]
  <2>1. ASSUME NEW o \in Requests
        PROVE  request'[o] \in Request
    <3>1. CASE o = r
      BY <3>1
    <3>2. CASE o # r
      <4>1. request[o] \in Request
        BY DEF RequestsOK
      <4>2. [request[o] EXCEPT !.overtaken = TRUE] \in Request
        BY <4>1 DEF Request
      <4>3. QED
        BY <3>2, <4>1, <4>2
    <3>3. QED
      BY <3>1, <3>2
  <2>2. QED
    BY <2>1
<1>2. ASSUME NEW o \in Requests
      PROVE  Filled(request[o])'
  <2>1. CASE o = r
    BY <2>1 DEF Filled, Existing
  <2>2. CASE o # r
    <3>1. Filled(request[o]) /\ request[o] \in Request
      BY DEF RequestsOK
    <3>2. /\ request'[o].pc = request[o].pc /\ request'[o].user = request[o].user
          /\ request'[o].passkey = request[o].passkey
          /\ request'[o].subject = request[o].subject
          /\ request'[o].link = request[o].link /\ request'[o].code = request[o].code
          /\ request'[o].via = request[o].via
      BY <2>2, <3>1 DEF Request
    <3>3. QED
      BY <3>1, <3>2 DEF Filled, Existing
  <2>3. QED
    BY <2>1, <2>2
<1>3. QED
  BY <1>1, <1>2 DEF RequestsOK

LEMMA RequestMoves ==
    ASSUME RequestsOK, NEW r \in Requests, NEW q \in Request, Filled(q)',
           request' = [request EXCEPT ![r] = q],
           \A u \in Users : user[u] # "none" => user'[u] # "none"
    PROVE  RequestsOK'
<1>1. /\ request' = [o \in Requests |-> request'[o]] /\ request'[r] = q
      /\ \A o \in Requests \ {r} : request'[o] = request[o]
  BY DEF RequestsOK
<1>2. QED
  BY <1>1, RequestMovesOthers

LEMMA RequestsStay ==
    ASSUME RequestsOK, UNCHANGED request,
           \A u \in Users : user[u] # "none" => user'[u] # "none"
    PROVE  RequestsOK'
<1>1. ASSUME NEW o \in Requests
      PROVE  Filled(request[o])'
  BY DEF Filled, Existing, RequestsOK
<1>2. QED
  BY <1>1 DEF RequestsOK

LEMMA IdleIsOK == IdleRequest \in Request /\ Filled(IdleRequest)' /\ Filled(IdleRequest)
  BY DEF IdleRequest, Request, Filled

LEMMA TablesStay ==
    ASSUME TablesOK, UNCHANGED <<user, admins, passkey, link, code, sessions, redeemed, excused>>
    PROVE  TablesOK'
  BY DEF TablesOK, Owned, Existing

LEMMA TInvStep == TInv /\ [Next]_vars => TInv'
<1> SUFFICES ASSUME TInv, [Next]_vars
             PROVE  TInv'
  OBVIOUS
<1> USE SignInAssumption
<1>1. ASSUME NEW r \in Requests, NEW k \in Passkeys, FindCredential(r, k)
      PROVE  TInv'
  <2>1. TablesOK'
    BY <1>1, TablesStay DEF FindCredential, TInv
  <2>2. \A v \in Users : user[v] # "none" => user'[v] # "none"
    BY <1>1 DEF FindCredential, TInv, TablesOK
  <2>3. PICK q \in Request :
            q = [IdleRequest EXCEPT !.pc = "login", !.user = passkey[k].owner, !.via = "passkey"]
    BY <1>1, IdleIsOK DEF FindCredential, TInv, TablesOK, RequestsOK, Request, IdleRequest,
       PasskeyRow, LinkRow, CodeRow, LinkBySubject
  <2>4. Filled(q)'
    BY <1>1, <2>2, <2>3 DEF FindCredential, TInv, RequestsOK, TablesOK, Owned, Existing, Filled,
       IdleRequest, At
  <2>5. request' = [request EXCEPT ![r] = q]
    BY <1>1, <2>3 DEF FindCredential, TInv, RequestsOK
  <2>6. QED
    BY <2>1, <2>2, <2>3, <2>4, <2>5, RequestMoves DEF TInv
<1>2. ASSUME NEW r \in Requests, NEW k \in Passkeys, InsertFirstCredential(r, k)
      PROVE  TInv'
  <2>1. TablesOK'
    BY <1>2 DEF InsertFirstCredential, TInv, TablesOK, Owned, Existing, PasskeyRow, RequestsOK,
       Request, Filled, At, Existing
  <2>2. \A v \in Users : user[v] # "none" => user'[v] # "none"
    BY <1>2 DEF InsertFirstCredential, TInv, TablesOK
  <2>3. PICK q \in Request :
            q = [request[r] EXCEPT !.pc = "firstCodes"]
    BY <1>2, IdleIsOK DEF InsertFirstCredential, TInv, TablesOK, RequestsOK, Request,
       IdleRequest, PasskeyRow, LinkRow, CodeRow, LinkBySubject
  <2>4. Filled(q)'
    BY <1>2, <2>2, <2>3 DEF InsertFirstCredential, TInv, RequestsOK, TablesOK, Owned, Existing,
       Filled, IdleRequest, At
  <2>5. request' = [request EXCEPT ![r] = q]
    BY <1>2, <2>3 DEF InsertFirstCredential, TInv, RequestsOK
  <2>6. QED
    BY <2>1, <2>2, <2>3, <2>4, <2>5, RequestMoves DEF TInv
<1>3. ASSUME NEW r \in Requests, NEW u \in Users, InsertUser(r, u)
      PROVE  TInv'
  <2>1. TablesOK'
    BY <1>3 DEF InsertUser, TInv, TablesOK, Owned, Existing, NewUser
  <2>2. \A v \in Users : user[v] # "none" => user'[v] # "none"
    BY <1>3 DEF InsertUser, TInv, TablesOK, NewUser
  <2>3. PICK q \in Request :
            q = [IdleRequest EXCEPT !.pc = "registering", !.user = u]
    BY <1>3, IdleIsOK DEF InsertUser, TInv, TablesOK, RequestsOK, Request, IdleRequest,
       PasskeyRow, LinkRow, CodeRow, LinkBySubject
  <2>4. Filled(q)'
    <3>1. q.pc = "registering" /\ q.user = u /\ q.via = "passkey" /\ user'[u] # "none"
      BY <1>3, <2>2, <2>3 DEF InsertUser, IdleRequest, NewUser, TInv, TablesOK
    <3>2. QED
      BY <3>1, SignInAssumption DEF Filled, Existing
  <2>5. request' = [request EXCEPT ![r] = q]
    BY <1>3, <2>3 DEF InsertUser, TInv, RequestsOK
  <2>6. QED
    BY <2>1, <2>2, <2>3, <2>4, <2>5, RequestMoves DEF TInv
<1>4. ASSUME NEW r \in Requests, NEW u \in Users, NEW k \in Passkeys, ListActiveCredentials(r, u, k)
      PROVE  TInv'
  <2>1. TablesOK'
    BY <1>4, TablesStay DEF ListActiveCredentials, TInv
  <2>2. \A v \in Users : user[v] # "none" => user'[v] # "none"
    BY <1>4 DEF ListActiveCredentials, TInv, TablesOK
  <2>3. PICK q \in Request :
            q = [IdleRequest EXCEPT !.pc = "removing", !.user = u, !.passkey = k]
    BY <1>4, IdleIsOK DEF ListActiveCredentials, TInv, TablesOK, RequestsOK, Request,
       IdleRequest, PasskeyRow, LinkRow, CodeRow, LinkBySubject
  <2>4. Filled(q)'
    <3>1. q.pc = "removing" /\ q.user = u /\ q.passkey = k /\ q.via = "passkey" /\ user'[u] # "none"
      BY <1>4, <2>2, <2>3 DEF ListActiveCredentials, IdleRequest, SignedIn, TInv, TablesOK,
         Owned, Existing
    <3>2. QED
      BY <3>1, SignInAssumption DEF Filled, Existing
  <2>5. request' = [request EXCEPT ![r] = q]
    BY <1>4, <2>3 DEF ListActiveCredentials, TInv, RequestsOK
  <2>6. QED
    BY <2>1, <2>2, <2>3, <2>4, <2>5, RequestMoves DEF TInv
<1>5. ASSUME NEW r \in Requests, ReadUser(r)
      PROVE  TInv'
  <2>1. TablesOK'
    BY <1>5, TablesStay DEF ReadUser, TInv
  <2>2. \A v \in Users : user[v] # "none" => user'[v] # "none"
    BY <1>5 DEF ReadUser, TInv, TablesOK
  <2>3. PICK q \in Request :
            q = IF MayLogIn(request[r].user) THEN [request[r] EXCEPT !.pc = "signedIn"] ELSE IdleRequest
    BY <1>5, IdleIsOK DEF ReadUser, TInv, TablesOK, RequestsOK, Request, IdleRequest,
       PasskeyRow, LinkRow, CodeRow, LinkBySubject
  <2>4. Filled(q)'
    BY <1>5, <2>2, <2>3 DEF ReadUser, TInv, RequestsOK, TablesOK, Owned, Existing, Filled,
       IdleRequest, At
  <2>5. request' = [request EXCEPT ![r] = q]
    BY <1>5, <2>3 DEF ReadUser, Leaves, TInv, RequestsOK
  <2>6. QED
    BY <2>1, <2>2, <2>3, <2>4, <2>5, RequestMoves DEF TInv
<1>6. ASSUME NEW r \in Requests, RemoveCredential(r)
      PROVE  TInv'
  <2>1. TablesOK'
    BY <1>6 DEF RemoveCredential, TInv, TablesOK, Owned, Existing, PasskeyRow, NoPasskey,
       Excusing, At, RequestsOK, Request, Filled
  <2>2. \A v \in Users : user[v] # "none" => user'[v] # "none"
    BY <1>6 DEF RemoveCredential, TInv, TablesOK
  <2>3. PICK q \in Request :
            q = IdleRequest
    BY <1>6, IdleIsOK DEF RemoveCredential, TInv, TablesOK, RequestsOK, Request, IdleRequest,
       PasskeyRow, LinkRow, CodeRow, LinkBySubject
  <2>4. Filled(q)'
    BY <1>6, <2>2, <2>3 DEF RemoveCredential, TInv, RequestsOK, TablesOK, Owned, Existing,
       Filled, IdleRequest, At
  <2>5. request' = [o \in Requests |-> request'[o]] /\ request'[r] = q
    BY <1>6, <2>3 DEF RemoveCredential, Overtaking, TInv, RequestsOK
  <2>6. \A o \in Requests \ {r} :
            request'[o] \in {request[o], [request[o] EXCEPT !.overtaken = TRUE]}
    BY <1>6 DEF RemoveCredential, Overtaking, TInv, RequestsOK
  <2>7. QED
    BY <2>1, <2>2, <2>3, <2>4, <2>5, <2>6, RequestMovesOthers DEF TInv
<1>7. ASSUME NEW r \in Requests, CreateSession(r)
      PROVE  TInv'
  <2>1. TablesOK'
    <3>1. /\ request[r] \in Request /\ request[r].user \in Users /\ user[request[r].user] # "none"
          /\ request[r].via = "code" => request[r].code \in Codes
      BY <1>7 DEF CreateSession, TInv, RequestsOK, Filled, Existing, At
    <3>2. [user |-> request[r].user,
           checked |-> request[r].via # "code" /\ ~request[r].overtaken] \in Session
      BY <3>1 DEF Session
    <3>3. sessions' \subseteq Session /\ \A s \in sessions' : s.user \in Users /\ user[s.user] # "none"
      BY <1>7, <3>1, <3>2 DEF CreateSession, TInv, TablesOK, Owned, Existing
    <3>4. redeemed' \in [Codes -> Nat]
      BY <1>7, <3>1 DEF CreateSession, TInv, TablesOK
    <3>5. QED
      BY <1>7, <3>3, <3>4 DEF CreateSession, TInv, TablesOK, Owned, Existing
  <2>2. \A v \in Users : user[v] # "none" => user'[v] # "none"
    BY <1>7 DEF CreateSession, TInv, TablesOK
  <2>3. PICK q \in Request :
            q = IdleRequest
    BY <1>7, IdleIsOK DEF CreateSession, TInv, TablesOK, RequestsOK, Request, IdleRequest,
       PasskeyRow, LinkRow, CodeRow, LinkBySubject
  <2>4. Filled(q)'
    BY <1>7, <2>2, <2>3 DEF CreateSession, TInv, RequestsOK, TablesOK, Owned, Existing, Filled,
       IdleRequest, At
  <2>5. request' = [request EXCEPT ![r] = q]
    BY <1>7, <2>3 DEF CreateSession, Leaves, TInv, RequestsOK
  <2>6. QED
    BY <2>1, <2>2, <2>3, <2>4, <2>5, RequestMoves DEF TInv
<1>8. ASSUME NEW r \in Requests, NEW c \in Codes, LookUpCode(r, c)
      PROVE  TInv'
  <2>1. TablesOK'
    BY <1>8, TablesStay DEF LookUpCode, TInv
  <2>2. \A v \in Users : user[v] # "none" => user'[v] # "none"
    BY <1>8 DEF LookUpCode, TInv, TablesOK
  <2>3. PICK q \in Request :
            q = [IdleRequest EXCEPT !.pc = "redeeming", !.user = code[c].owner, !.code = c, !.via = "code"]
    BY <1>8, IdleIsOK DEF LookUpCode, TInv, TablesOK, RequestsOK, Request, IdleRequest,
       PasskeyRow, LinkRow, CodeRow, LinkBySubject
  <2>4. Filled(q)'
    <3>1. q.pc = "redeeming" /\ q.code = c /\ q.via = "code" /\ q.user \in Users /\ user'[q.user] # "none"
      BY <1>8, <2>2, <2>3 DEF LookUpCode, IdleRequest, Redeemable, TInv, TablesOK, Owned,
         Existing
    <3>2. QED
      BY <3>1, SignInAssumption DEF Filled, Existing
  <2>5. request' = [request EXCEPT ![r] = q]
    BY <1>8, <2>3 DEF LookUpCode, TInv, RequestsOK
  <2>6. QED
    BY <2>1, <2>2, <2>3, <2>4, <2>5, RequestMoves DEF TInv
<1>9. ASSUME NEW r \in Requests, MarkCodeUsed(r)
      PROVE  TInv'
  <2>1. TablesOK'
    <3>1. request[r].code \in Codes
      BY <1>9 DEF MarkCodeUsed, TInv, RequestsOK, Filled, At
    <3>2. \/ code' = code
          \/ /\ code[request[r].code].status # "none"
             /\ code' = [code EXCEPT ![request[r].code].status = "used"]
      BY <1>9 DEF MarkCodeUsed
    <3>3. code' \in [Codes -> CodeRow]
      BY <3>1, <3>2 DEF TInv, TablesOK, CodeRow
    <3>4. \A c \in Codes : code'[c].status # "none" => Existing(code'[c].owner)
      BY <3>1, <3>2 DEF TInv, TablesOK, CodeRow, Owned
    <3>5. QED
      BY <1>9, <3>3, <3>4 DEF MarkCodeUsed, TInv, TablesOK, Owned, Existing
  <2>2. \A v \in Users : user[v] # "none" => user'[v] # "none"
    BY <1>9 DEF MarkCodeUsed, TInv, TablesOK
  <2>3. PICK q \in Request :
            q = [request[r] EXCEPT !.pc = "signedIn"]
    BY <1>9, IdleIsOK DEF MarkCodeUsed, TInv, TablesOK, RequestsOK, Request, IdleRequest,
       PasskeyRow, LinkRow, CodeRow, LinkBySubject
  <2>4. Filled(q)'
    BY <1>9, <2>2, <2>3 DEF MarkCodeUsed, TInv, RequestsOK, TablesOK, Owned, Existing, Filled,
       IdleRequest, At
  <2>5. request' = [o \in Requests |-> request'[o]] /\ request'[r] = q
    BY <1>9, <2>3 DEF MarkCodeUsed, TInv, RequestsOK
  <2>6. \A o \in Requests \ {r} :
            request'[o] \in {request[o], [request[o] EXCEPT !.overtaken = TRUE]}
    BY <1>9 DEF MarkCodeUsed, TInv, RequestsOK
  <2>7. QED
    BY <2>1, <2>2, <2>3, <2>4, <2>5, <2>6, RequestMovesOthers DEF TInv
<1>10. ASSUME NEW r \in Requests, NEW u \in Users, StartRegeneration(r, u)
      PROVE  TInv'
  <2>1. TablesOK'
    BY <1>10 DEF StartRegeneration, TInv, TablesOK, Owned, Existing, CodeRow, WithoutCodesOf,
       NoCode
  <2>2. \A v \in Users : user[v] # "none" => user'[v] # "none"
    BY <1>10 DEF StartRegeneration, TInv, TablesOK
  <2>3. PICK q \in Request :
            q = [IdleRequest EXCEPT !.pc = "regenerating", !.user = u]
    BY <1>10, IdleIsOK DEF StartRegeneration, TInv, TablesOK, RequestsOK, Request, IdleRequest,
       PasskeyRow, LinkRow, CodeRow, LinkBySubject
  <2>4. Filled(q)'
    <3>1. q.pc = "regenerating" /\ q.user = u /\ q.via = "passkey" /\ user'[u] # "none"
      BY <1>10, <2>2, <2>3 DEF StartRegeneration, IdleRequest, SignedIn, TInv, TablesOK, Owned,
         Existing
    <3>2. QED
      BY <3>1, SignInAssumption DEF Filled, Existing
  <2>5. request' = [request EXCEPT ![r] = q]
    BY <1>10, <2>3 DEF StartRegeneration, TInv, RequestsOK
  <2>6. QED
    BY <2>1, <2>2, <2>3, <2>4, <2>5, RequestMoves DEF TInv
<1>11. ASSUME NEW r \in Requests, NEW new \in SUBSET Codes, InsertCodes(r, new)
      PROVE  TInv'
  <2>1. TablesOK'
    BY <1>11 DEF InsertCodes, TInv, TablesOK, Owned, Existing, CodeRow, RequestsOK, Request,
       Filled
  <2>2. \A v \in Users : user[v] # "none" => user'[v] # "none"
    BY <1>11 DEF InsertCodes, TInv, TablesOK
  <2>3. PICK q \in Request :
            q = IF At(r, "firstCodes") THEN [request[r] EXCEPT !.pc = "signedIn"] ELSE IdleRequest
    BY <1>11, IdleIsOK DEF InsertCodes, TInv, TablesOK, RequestsOK, Request, IdleRequest,
       PasskeyRow, LinkRow, CodeRow, LinkBySubject
  <2>4. Filled(q)'
    BY <1>11, <2>2, <2>3 DEF InsertCodes, TInv, RequestsOK, TablesOK, Owned, Existing, Filled,
       IdleRequest, At
  <2>5. request' = [request EXCEPT ![r] = q]
    BY <1>11, <2>3 DEF InsertCodes, Leaves, TInv, RequestsOK
  <2>6. QED
    BY <2>1, <2>2, <2>3, <2>4, <2>5, RequestMoves DEF TInv
<1>12. ASSUME NEW r \in Requests, NEW a \in {"google", "signup", "linking"},
             NEW u \in Users \cup {None}, NEW s \in Subjects, ConsumeOAuthIntent(r, a, u, s)
      PROVE  TInv'
  <2>1. TablesOK'
    BY <1>12, TablesStay DEF ConsumeOAuthIntent, TInv
  <2>2. \A v \in Users : user[v] # "none" => user'[v] # "none"
    BY <1>12 DEF ConsumeOAuthIntent, TInv, TablesOK
  <2>3. PICK q \in Request :
            q = [IdleRequest EXCEPT !.pc = a, !.user = u, !.subject = s, !.via = "google"]
    BY <1>12, IdleIsOK DEF ConsumeOAuthIntent, TInv, TablesOK, RequestsOK, Request, IdleRequest,
       PasskeyRow, LinkRow, CodeRow, LinkBySubject
  <2>4. Filled(q)'
    <3>1. /\ q.pc = a /\ q.user = u /\ q.subject = s /\ q.via = "google"
          /\ a = "linking" => u \in Users /\ user'[u] # "none"
      BY <1>12, <2>2, <2>3 DEF ConsumeOAuthIntent, IdleRequest, SignedIn, TInv, TablesOK, Owned,
         Existing
    <3>2. QED
      BY <3>1, SignInAssumption DEF Filled, Existing
  <2>5. request' = [request EXCEPT ![r] = q]
    BY <1>12, <2>3 DEF ConsumeOAuthIntent, TInv, RequestsOK
  <2>6. QED
    BY <2>1, <2>2, <2>3, <2>4, <2>5, RequestMoves DEF TInv
<1>13. ASSUME NEW r \in Requests, FindGoogleAccount(r)
      PROVE  TInv'
  <2>1. TablesOK'
    BY <1>13, TablesStay DEF FindGoogleAccount, TInv
  <2>2. \A v \in Users : user[v] # "none" => user'[v] # "none"
    BY <1>13 DEF FindGoogleAccount, TInv, TablesOK
  <2>3. PICK q \in Request :
            q = IF LinkBySubject(request[r].subject) = {} THEN IdleRequest
                       ELSE [request[r] EXCEPT
                               !.pc = "checking", !.subject = None,
                               !.user = link[CHOOSE l \in LinkBySubject(request[r].subject) : TRUE].owner]
    <3>1. CASE LinkBySubject(request[r].subject) = {}
      BY <3>1, IdleIsOK
    <3>2. CASE LinkBySubject(request[r].subject) # {}
      <4>1. (CHOOSE l \in LinkBySubject(request[r].subject) : TRUE) \in Links
        BY <3>2 DEF LinkBySubject
      <4>2. link[CHOOSE l \in LinkBySubject(request[r].subject) : TRUE].owner \in Users \cup {None}
        BY <4>1 DEF TInv, TablesOK, LinkRow
      <4>3. request[r] \in Request
        BY DEF TInv, RequestsOK
      <4>4. QED
        BY <3>2, <4>2, <4>3 DEF Request
    <3>3. QED
      BY <3>1, <3>2
  <2>4. Filled(q)'
    <3>1. CASE LinkBySubject(request[r].subject) = {}
      BY <2>3, <3>1, IdleIsOK
    <3>2. CASE LinkBySubject(request[r].subject) # {}
      <4>1. PICK l \in LinkBySubject(request[r].subject) :
                l = CHOOSE x \in LinkBySubject(request[r].subject) : TRUE
        BY <3>2
      <4>2. l \in Links /\ link[l].owner \in Users /\ user[link[l].owner] # "none"
        BY DEF LinkBySubject, TInv, TablesOK, Owned, Existing
      <4>3. request[r].pc = "google" /\ request[r].via # "code" /\ request[r] \in Request
        BY <1>13 DEF FindGoogleAccount, At, TInv, RequestsOK, Filled
      <4>4. q.pc = "checking" /\ q.via # "code" /\ q.user = link[l].owner
        BY <2>3, <3>2, <4>1, <4>3 DEF Request
      <4>5. QED
        BY <2>2, <4>2, <4>4 DEF Filled, Existing
    <3>3. QED
      BY <3>1, <3>2
  <2>5. request' = [request EXCEPT ![r] = q]
    BY <1>13, <2>3 DEF FindGoogleAccount, Leaves, TInv, RequestsOK
  <2>6. QED
    BY <2>1, <2>2, <2>3, <2>4, <2>5, RequestMoves DEF TInv
<1>14. ASSUME NEW r \in Requests, CheckGoogleUser(r)
      PROVE  TInv'
  <2>1. TablesOK'
    BY <1>14, TablesStay DEF CheckGoogleUser, TInv
  <2>2. \A v \in Users : user[v] # "none" => user'[v] # "none"
    BY <1>14 DEF CheckGoogleUser, TInv, TablesOK
  <2>3. PICK q \in Request :
            q = IF MayUseGoogle(request[r].user) THEN [request[r] EXCEPT !.pc = "signedIn"] ELSE IdleRequest
    BY <1>14, IdleIsOK DEF CheckGoogleUser, TInv, TablesOK, RequestsOK, Request, IdleRequest,
       PasskeyRow, LinkRow, CodeRow, LinkBySubject
  <2>4. Filled(q)'
    BY <1>14, <2>2, <2>3 DEF CheckGoogleUser, TInv, RequestsOK, TablesOK, Owned, Existing,
       Filled, IdleRequest, At
  <2>5. request' = [request EXCEPT ![r] = q]
    BY <1>14, <2>3 DEF CheckGoogleUser, Leaves, TInv, RequestsOK
  <2>6. QED
    BY <2>1, <2>2, <2>3, <2>4, <2>5, RequestMoves DEF TInv
<1>15. ASSUME NEW r \in Requests, LookForAccount(r)
      PROVE  TInv'
  <2>1. TablesOK'
    BY <1>15, TablesStay DEF LookForAccount, TInv
  <2>2. \A v \in Users : user[v] # "none" => user'[v] # "none"
    BY <1>15 DEF LookForAccount, TInv, TablesOK
  <2>3. PICK q \in Request :
            q = [request[r] EXCEPT !.pc = IF LinkBySubject(request[r].subject) # {} THEN "google" ELSE "creating"]
    BY <1>15, IdleIsOK DEF LookForAccount, TInv, TablesOK, RequestsOK, Request, IdleRequest,
       PasskeyRow, LinkRow, CodeRow, LinkBySubject
  <2>4. Filled(q)'
    BY <1>15, <2>2, <2>3 DEF LookForAccount, TInv, RequestsOK, TablesOK, Owned, Existing,
       Filled, IdleRequest, At
  <2>5. request' = [request EXCEPT ![r] = q]
    BY <1>15, <2>3 DEF LookForAccount, TInv, RequestsOK
  <2>6. QED
    BY <2>1, <2>2, <2>3, <2>4, <2>5, RequestMoves DEF TInv
<1>16. ASSUME NEW r \in Requests, CheckLink(r)
      PROVE  TInv'
  <2>1. TablesOK'
    BY <1>16, TablesStay DEF CheckLink, TInv
  <2>2. \A v \in Users : user[v] # "none" => user'[v] # "none"
    BY <1>16 DEF CheckLink, TInv, TablesOK
  <2>3. PICK q \in Request :
            q = IF request[r].user \notin admins /\ CanLink(request[r].user, request[r].subject)
                       THEN [request[r] EXCEPT !.pc = "inserting"] ELSE IdleRequest
    BY <1>16, IdleIsOK DEF CheckLink, TInv, TablesOK, RequestsOK, Request, IdleRequest,
       PasskeyRow, LinkRow, CodeRow, LinkBySubject
  <2>4. Filled(q)'
    BY <1>16, <2>2, <2>3 DEF CheckLink, TInv, RequestsOK, TablesOK, Owned, Existing, Filled,
       IdleRequest, At
  <2>5. request' = [request EXCEPT ![r] = q]
    BY <1>16, <2>3 DEF CheckLink, Leaves, TInv, RequestsOK
  <2>6. QED
    BY <2>1, <2>2, <2>3, <2>4, <2>5, RequestMoves DEF TInv
<1>17. ASSUME NEW r \in Requests, NEW u \in Users, NEW l \in Links, CreateAccount(r, u, l)
      PROVE  TInv'
  <2>1. TablesOK'
    BY <1>17 DEF CreateAccount, TInv, TablesOK, Owned, Existing, Linked, LinkRow, NewUser,
       RequestsOK, Request, Filled, At
  <2>2. \A v \in Users : user[v] # "none" => user'[v] # "none"
    BY <1>17 DEF CreateAccount, TInv, TablesOK, NewUser
  <2>3. PICK q \in Request :
            q = IF LinkBySubject(request[r].subject) = {}
                       THEN [request[r] EXCEPT !.pc = "signedIn", !.user = u, !.subject = None]
                       ELSE [request[r] EXCEPT !.pc = "google"]
    BY <1>17, IdleIsOK DEF CreateAccount, TInv, TablesOK, RequestsOK, Request, IdleRequest,
       PasskeyRow, LinkRow, CodeRow, LinkBySubject
  <2>4. Filled(q)'
    <3>1. /\ q.via # "code" /\ q.subject \in Subjects \cup {None}
          /\ \/ q.pc = "signedIn" /\ q.user = u /\ user'[u] # "none"
             \/ q.pc = "google" /\ q.subject \in Subjects
      BY <1>17, <2>2, <2>3 DEF CreateAccount, IdleRequest, At, NewUser, TInv, RequestsOK,
         Request, Filled, TablesOK
    <3>2. QED
      BY <3>1, SignInAssumption DEF Filled, Existing
  <2>5. request' = [request EXCEPT ![r] = q]
    BY <1>17, <2>3 DEF CreateAccount, TInv, RequestsOK
  <2>6. QED
    BY <2>1, <2>2, <2>3, <2>4, <2>5, RequestMoves DEF TInv
<1>18. ASSUME NEW r \in Requests, NEW u \in Users, NEW l \in Links, StartDisconnect(r, u, l)
      PROVE  TInv'
  <2>1. TablesOK'
    BY <1>18, TablesStay DEF StartDisconnect, TInv
  <2>2. \A v \in Users : user[v] # "none" => user'[v] # "none"
    BY <1>18 DEF StartDisconnect, TInv, TablesOK
  <2>3. PICK q \in Request :
            q = [IdleRequest EXCEPT !.pc = "disconnecting", !.user = u, !.link = l]
    BY <1>18, IdleIsOK DEF StartDisconnect, TInv, TablesOK, RequestsOK, Request, IdleRequest,
       PasskeyRow, LinkRow, CodeRow, LinkBySubject
  <2>4. Filled(q)'
    <3>1. q.pc = "disconnecting" /\ q.user = u /\ q.link = l /\ q.via = "passkey" /\ user'[u] # "none"
      BY <1>18, <2>2, <2>3 DEF StartDisconnect, IdleRequest, SignedIn, TInv, TablesOK, Owned,
         Existing
    <3>2. QED
      BY <3>1, SignInAssumption DEF Filled, Existing
  <2>5. request' = [request EXCEPT ![r] = q]
    BY <1>18, <2>3 DEF StartDisconnect, TInv, RequestsOK
  <2>6. QED
    BY <2>1, <2>2, <2>3, <2>4, <2>5, RequestMoves DEF TInv
<1>19. ASSUME NEW r \in Requests, NEW l \in Links, InsertLink(r, l)
      PROVE  TInv'
  <2>1. TablesOK'
    BY <1>19 DEF InsertLink, TInv, TablesOK, Owned, Existing, Linked, LinkRow, RequestsOK,
       Request, Filled, At
  <2>2. \A v \in Users : user[v] # "none" => user'[v] # "none"
    BY <1>19 DEF InsertLink, TInv, TablesOK
  <2>3. PICK q \in Request :
            q = IdleRequest
    BY <1>19, IdleIsOK DEF InsertLink, TInv, TablesOK, RequestsOK, Request, IdleRequest,
       PasskeyRow, LinkRow, CodeRow, LinkBySubject
  <2>4. Filled(q)'
    BY <1>19, <2>2, <2>3 DEF InsertLink, TInv, RequestsOK, TablesOK, Owned, Existing, Filled,
       IdleRequest, At
  <2>5. request' = [request EXCEPT ![r] = q]
    BY <1>19, <2>3 DEF InsertLink, Leaves, TInv, RequestsOK
  <2>6. QED
    BY <2>1, <2>2, <2>3, <2>4, <2>5, RequestMoves DEF TInv
<1>20. ASSUME NEW r \in Requests, DeleteLink(r)
      PROVE  TInv'
  <2>1. TablesOK'
    BY <1>20 DEF DeleteLink, TInv, TablesOK, Owned, Existing, LinkRow, NoLink, Excusing, At,
       RequestsOK, Request, Filled
  <2>2. \A v \in Users : user[v] # "none" => user'[v] # "none"
    BY <1>20 DEF DeleteLink, TInv, TablesOK
  <2>3. PICK q \in Request :
            q = IdleRequest
    BY <1>20, IdleIsOK DEF DeleteLink, TInv, TablesOK, RequestsOK, Request, IdleRequest,
       PasskeyRow, LinkRow, CodeRow, LinkBySubject
  <2>4. Filled(q)'
    BY <1>20, <2>2, <2>3 DEF DeleteLink, TInv, RequestsOK, TablesOK, Owned, Existing, Filled,
       IdleRequest, At
  <2>5. request' = [request EXCEPT ![r] = q]
    BY <1>20, <2>3 DEF DeleteLink, Leaves, TInv, RequestsOK
  <2>6. QED
    BY <2>1, <2>2, <2>3, <2>4, <2>5, RequestMoves DEF TInv
<1>21. ASSUME NEW r \in Requests, NEW u \in Users, SuspendUser(r, u)
      PROVE  TInv'
  <2>1. TablesOK'
    BY <1>21 DEF SuspendUser, TInv, TablesOK, Owned, Existing
  <2>2. \A v \in Users : user[v] # "none" => user'[v] # "none"
    BY <1>21 DEF SuspendUser, TInv, TablesOK
  <2>3. PICK q \in Request :
            q = [IdleRequest EXCEPT !.pc = "suspending", !.user = u]
    BY <1>21, IdleIsOK DEF SuspendUser, TInv, TablesOK, RequestsOK, Request, IdleRequest,
       PasskeyRow, LinkRow, CodeRow, LinkBySubject
  <2>4. Filled(q)'
    BY <1>21, <2>2, <2>3 DEF SuspendUser, TInv, RequestsOK, TablesOK, Owned, Existing, Filled,
       IdleRequest, At
  <2>5. request' = [o \in Requests |-> request'[o]] /\ request'[r] = q
    BY <1>21, <2>3 DEF SuspendUser, Overtaking, TInv, RequestsOK
  <2>6. \A o \in Requests \ {r} :
            request'[o] \in {request[o], [request[o] EXCEPT !.overtaken = TRUE]}
    BY <1>21 DEF SuspendUser, Overtaking, TInv, RequestsOK
  <2>7. QED
    BY <2>1, <2>2, <2>3, <2>4, <2>5, <2>6, RequestMovesOthers DEF TInv
<1>22. ASSUME NEW r \in Requests, RevokeSessionsOfSuspended(r)
      PROVE  TInv'
  <2>1. TablesOK'
    BY <1>22 DEF RevokeSessionsOfSuspended, TInv, TablesOK, Owned, Existing,
       SessionsAfterSuspension, WithoutSessions
  <2>2. \A v \in Users : user[v] # "none" => user'[v] # "none"
    BY <1>22 DEF RevokeSessionsOfSuspended, TInv, TablesOK
  <2>3. PICK q \in Request :
            q = IdleRequest
    BY <1>22, IdleIsOK DEF RevokeSessionsOfSuspended, TInv, TablesOK, RequestsOK, Request,
       IdleRequest, PasskeyRow, LinkRow, CodeRow, LinkBySubject
  <2>4. Filled(q)'
    BY <1>22, <2>2, <2>3 DEF RevokeSessionsOfSuspended, TInv, RequestsOK, TablesOK, Owned,
       Existing, Filled, IdleRequest, At
  <2>5. request' = [request EXCEPT ![r] = q]
    BY <1>22, <2>3 DEF RevokeSessionsOfSuspended, Leaves, TInv, RequestsOK
  <2>6. QED
    BY <2>1, <2>2, <2>3, <2>4, <2>5, RequestMoves DEF TInv
<1>23. ASSUME NEW r \in Requests, RequestDies(r)
      PROVE  TInv'
  <2>1. TablesOK'
    BY <1>23 DEF RequestDies, TInv, TablesOK, Owned, Existing, At, RequestsOK, Request, Filled
  <2>2. \A v \in Users : user[v] # "none" => user'[v] # "none"
    BY <1>23 DEF RequestDies, TInv, TablesOK
  <2>3. PICK q \in Request :
            q = IdleRequest
    BY <1>23, IdleIsOK DEF RequestDies, TInv, TablesOK, RequestsOK, Request, IdleRequest,
       PasskeyRow, LinkRow, CodeRow, LinkBySubject
  <2>4. Filled(q)'
    BY <1>23, <2>2, <2>3 DEF RequestDies, TInv, RequestsOK, TablesOK, Owned, Existing, Filled,
       IdleRequest, At
  <2>5. request' = [request EXCEPT ![r] = q]
    BY <1>23, <2>3 DEF RequestDies, Leaves, TInv, RequestsOK
  <2>6. QED
    BY <2>1, <2>2, <2>3, <2>4, <2>5, RequestMoves DEF TInv
<1>24. ASSUME NEW u \in Users, NEW k \in Passkeys, InsertCredential(u, k)
      PROVE  TInv'
  <2>1. TablesOK'
    BY <1>24 DEF InsertCredential, TInv, TablesOK, Owned, Existing, PasskeyRow, SignedIn
  <2>2. \A v \in Users : user[v] # "none" => user'[v] # "none"
    BY <1>24 DEF InsertCredential, TInv, TablesOK
  <2>3. QED
    BY <1>24, <2>1, <2>2, RequestsStay DEF InsertCredential, TInv
<1>25. ASSUME NEW s \in sessions, RevokeSession(s)
      PROVE  TInv'
  <2>1. TablesOK'
    BY <1>25 DEF RevokeSession, TInv, TablesOK, Owned, Existing
  <2>2. \A v \in Users : user[v] # "none" => user'[v] # "none"
    BY <1>25 DEF RevokeSession, TInv, TablesOK
  <2>3. QED
    BY <1>25, <2>1, <2>2, RequestsStay DEF RevokeSession, TInv
<1>26. ASSUME NEW u \in Users, RevokeAllSessions(u)
      PROVE  TInv'
  <2>1. TablesOK'
    BY <1>26 DEF RevokeAllSessions, TInv, TablesOK, Owned, Existing, WithoutSessions
  <2>2. \A v \in Users : user[v] # "none" => user'[v] # "none"
    BY <1>26 DEF RevokeAllSessions, TInv, TablesOK
  <2>3. QED
    BY <1>26, <2>1, <2>2, RequestsStay DEF RevokeAllSessions, TInv
<1>27. ASSUME NEW u \in Users, RestoreUser(u)
      PROVE  TInv'
  <2>1. TablesOK'
    BY <1>27 DEF RestoreUser, TInv, TablesOK, Owned, Existing
  <2>2. \A v \in Users : user[v] # "none" => user'[v] # "none"
    BY <1>27 DEF RestoreUser, TInv, TablesOK
  <2>3. QED
    BY <1>27, <2>1, <2>2, RequestsStay DEF RestoreUser, TInv
<1>28. ASSUME NEW u \in Users, AssignRole(u)
      PROVE  TInv'
  <2>1. TablesOK'
    BY <1>28 DEF AssignRole, TInv, TablesOK, Owned, Existing
  <2>2. \A v \in Users : user[v] # "none" => user'[v] # "none"
    BY <1>28 DEF AssignRole, TInv, TablesOK
  <2>3. QED
    BY <1>28, <2>1, <2>2, RequestsStay DEF AssignRole, TInv
<1>29. ASSUME NEW u \in Users, RequestOrCancelDeletion(u)
      PROVE  TInv'
  <2>1. TablesOK'
    BY <1>29 DEF RequestOrCancelDeletion, TInv, TablesOK, Owned, Existing
  <2>2. \A v \in Users : user[v] # "none" => user'[v] # "none"
    BY <1>29 DEF RequestOrCancelDeletion, TInv, TablesOK
  <2>3. QED
    BY <1>29, <2>1, <2>2, RequestsStay DEF RequestOrCancelDeletion, TInv
<1>30. CASE UNCHANGED vars
  BY <1>30, TablesStay, RequestsStay DEF vars, TInv
<1>31. QED
  BY <1>1, <1>2, <1>3, <1>4, <1>5, <1>6, <1>7, <1>8, <1>9, <1>10, <1>11, <1>12, <1>13, <1>14,
     <1>15, <1>16, <1>17, <1>18, <1>19, <1>20, <1>21, <1>22, <1>23, <1>24, <1>25, <1>26, <1>27,
     <1>28, <1>29, <1>30
  DEF Next, PasskeyStep, CodeStep, GoogleStep, AdminStep, OwnerStep

-----------------------------------------------------------------------------
(* No account is locked out *)

\* A step that removes no row, or excuse, and begins no removal.
LEMMA MethodsStay ==
    ASSUME TInv, LInv, UNCHANGED <<passkey, link, excused>>,
           \A u \in Users : user'[u] # "none" => user[u] # "none",
           \A o \in Requests :
               request[o].pc = "registering" =>
                   request'[o].pc = "registering" /\ request'[o].user = request[o].user,
           \A o \in Requests :
               request'[o].pc \in {"removing", "disconnecting"} =>
                   /\ request'[o].pc = request[o].pc /\ request'[o].user = request[o].user
                   /\ request'[o].passkey = request[o].passkey
                   /\ request'[o].link = request[o].link
                   /\ request[o].overtaken => request'[o].overtaken
    PROVE  LInv'
<1>1. OnlyOverlapsLockOut'
  BY DEF LInv, OnlyOverlapsLockOut, HasMethod, ActivePasskeys, LinkOf, At
<1>2. ASSUME NEW o \in Requests
      PROVE  Keeps(request[o])'
  <2>1. Keeps(request[o]) /\ (request[o].overtaken \in BOOLEAN)
    BY DEF LInv, TInv, RequestsOK, Request
  <2>2. QED
    BY <2>1 DEF Keeps, ActivePasskeys
<1>3. QED
  BY <1>1, <1>2 DEF LInv

\* The same when request r begins to remove a passkey or a link.
LEMMA RemovalBegins ==
    ASSUME TInv, LInv, UNCHANGED <<user, passkey, link, excused>>,
           NEW r \in Requests, request[r].pc = "idle", Keeps(request[r])',
           \A o \in Requests \ {r} : request'[o] = request[o]
    PROVE  LInv'
<1>1. OnlyOverlapsLockOut'
  BY DEF LInv, OnlyOverlapsLockOut, HasMethod, ActivePasskeys, LinkOf, At
<1>2. ASSUME NEW o \in Requests, o # r
      PROVE  Keeps(request[o])'
  BY <1>2 DEF LInv, Keeps, ActivePasskeys
<1>3. QED
  BY <1>1, <1>2 DEF LInv

LEMMA LInvStep == TInv /\ LInv /\ [Next]_vars => LInv'
<1> SUFFICES ASSUME TInv, LInv, [Next]_vars
             PROVE  LInv'
  OBVIOUS
<1> USE SignInAssumption
<1>1. ASSUME NEW r \in Requests, NEW k \in Passkeys, FindCredential(r, k)
      PROVE  LInv'
  <2>1. \A o \in Requests :
            /\ request[o].pc = "registering" =>
                   request'[o].pc = "registering" /\ request'[o].user = request[o].user
            /\ request'[o].pc \in {"removing", "disconnecting"} =>
                   /\ request'[o].pc = request[o].pc /\ request'[o].user = request[o].user
                   /\ request'[o].passkey = request[o].passkey
                   /\ request'[o].link = request[o].link
                   /\ request[o].overtaken => request'[o].overtaken
    BY <1>1 DEF FindCredential, At, IdleRequest, TInv, RequestsOK, Request
  <2>2. \A v \in Users : user'[v] # "none" => user[v] # "none"
    BY <1>1 DEF FindCredential, TInv, TablesOK
  <2>3. QED
    BY <1>1, <2>1, <2>2, MethodsStay DEF FindCredential
<1>2. ASSUME NEW r \in Requests, NEW k \in Passkeys, InsertFirstCredential(r, k)
      PROVE  LInv'
  <2>1. /\ request'[r].pc = "firstCodes"
        /\ \A o \in Requests \ {r} : request'[o] = request[o]
    BY <1>2 DEF InsertFirstCredential, TInv, RequestsOK, Request
  <2>2. /\ passkey'[k] = [status |-> "active", owner |-> request[r].user]
        /\ \A x \in Passkeys \ {k} : passkey'[x] = passkey[x]
    BY <1>2 DEF InsertFirstCredential, TInv, TablesOK
  <2>3. PICK w : w = request[r].user
    OBVIOUS
  <2>3a. HasMethod(w)'
    BY <2>2, <2>3 DEF HasMethod, ActivePasskeys
  <2>4. \A u \in Users : HasMethod(u) => HasMethod(u)'
    BY <1>2, <2>2 DEF InsertFirstCredential, HasMethod, ActivePasskeys, LinkOf
  <2>5. OnlyOverlapsLockOut'
    BY <1>2, <2>1, <2>3, <2>3a, <2>4 DEF InsertFirstCredential, At, LInv, OnlyOverlapsLockOut
  <2>6. \A o \in Requests : Keeps(request[o])'
    BY <1>2, <2>1, <2>2 DEF InsertFirstCredential, Unheld, LInv, Keeps, ActivePasskeys
  <2>7. QED
    BY <2>5, <2>6 DEF LInv
<1>3. ASSUME NEW r \in Requests, NEW u \in Users, InsertUser(r, u)
      PROVE  LInv'
  <2>1. /\ request'[r].pc = "registering" /\ request'[r].user = u /\ request[r].pc = "idle"
        /\ \A o \in Requests \ {r} : request'[o] = request[o]
    BY <1>3 DEF InsertUser, At, IdleRequest, TInv, RequestsOK
  <2>2. OnlyOverlapsLockOut'
    BY <1>3, <2>1 DEF InsertUser, At, LInv, OnlyOverlapsLockOut, HasMethod, ActivePasskeys,
       LinkOf, TInv, TablesOK
  <2>3. \A o \in Requests : Keeps(request[o])'
    BY <1>3, <2>1 DEF InsertUser, LInv, Keeps, ActivePasskeys
  <2>4. QED
    BY <2>2, <2>3 DEF LInv
<1>4. ASSUME NEW r \in Requests, NEW u \in Users, NEW k \in Passkeys, ListActiveCredentials(r, u, k)
      PROVE  LInv'
  <2>1. request'[r] = [IdleRequest EXCEPT !.pc = "removing", !.user = u, !.passkey = k]
    BY <1>4 DEF ListActiveCredentials, TInv, RequestsOK
  <2>2. /\ request'[r].pc = "removing" /\ request'[r].user = u /\ request'[r].passkey = k
    BY <2>1 DEF IdleRequest
  <2>3. k \in ActivePasskeys(u) /\ \E x \in ActivePasskeys(u) : x # k
    <3>1. k \in ActivePasskeys(u) /\ Cardinality(ActivePasskeys(u)) > 1
      BY <1>4 DEF ListActiveCredentials, MayRemove
    <3>2. SUFFICES ASSUME \A x \in ActivePasskeys(u) : x = k
                   PROVE  FALSE
      BY <3>1
    <3>3. ActivePasskeys(u) = {k}
      BY <3>1, <3>2
    <3>4. Cardinality({k}) = 1
      BY FS_Singleton
    <3>5. QED
      BY <3>1, <3>3, <3>4
  <2>4. Keeps(request[r])'
    BY <1>4, <2>2, <2>3 DEF ListActiveCredentials, Keeps, ActivePasskeys
  <2>5. \A o \in Requests \ {r} : request'[o] = request[o]
    BY <1>4 DEF ListActiveCredentials, TInv, RequestsOK
  <2>6. QED
    BY <1>4, <2>4, <2>5, RemovalBegins DEF ListActiveCredentials, At
<1>5. ASSUME NEW r \in Requests, ReadUser(r)
      PROVE  LInv'
  <2>1. \A o \in Requests :
            /\ request[o].pc = "registering" =>
                   request'[o].pc = "registering" /\ request'[o].user = request[o].user
            /\ request'[o].pc \in {"removing", "disconnecting"} =>
                   /\ request'[o].pc = request[o].pc /\ request'[o].user = request[o].user
                   /\ request'[o].passkey = request[o].passkey
                   /\ request'[o].link = request[o].link
                   /\ request[o].overtaken => request'[o].overtaken
    BY <1>5 DEF ReadUser, At, Leaves, IdleRequest, TInv, RequestsOK, Request
  <2>2. \A v \in Users : user'[v] # "none" => user[v] # "none"
    BY <1>5 DEF ReadUser, TInv, TablesOK
  <2>3. QED
    BY <1>5, <2>1, <2>2, MethodsStay DEF ReadUser
<1>6. ASSUME NEW r \in Requests, RemoveCredential(r)
      PROVE  LInv'
  <2>1. /\ request[r].pc = "removing" /\ Keeps(request[r]) /\ request[r].overtaken \in BOOLEAN
        /\ request[r].passkey \in Passkeys /\ request[r].user \in Users
    BY <1>6 DEF RemoveCredential, At, LInv, TInv, RequestsOK, Request, Filled, Existing
  <2>2. /\ request'[r].pc = "idle"
        /\ \A o \in Requests \ {r} :
               /\ request'[o].pc = request[o].pc /\ request'[o].user = request[o].user
               /\ request'[o].passkey = request[o].passkey
               /\ request'[o].link = request[o].link
               /\ request[o].overtaken => request'[o].overtaken
               /\ request[o].user = request[r].user
                        /\ request[o].pc \in {"removing", "disconnecting"} =>
                     request'[o].overtaken
    BY <1>6 DEF RemoveCredential, Overtaking, IdleRequest, TInv, RequestsOK, Request
  <2>3. /\ passkey'[request[r].passkey].status = "none"
        /\ \A x \in Passkeys \ {request[r].passkey} : passkey'[x] = passkey[x]
    BY <1>6, <2>1 DEF RemoveCredential, NoPasskey, TInv, TablesOK
  <2>4. ASSUME NEW u \in Users, u # request[r].user
        PROVE  ActivePasskeys(u)' = ActivePasskeys(u)
    BY <2>1, <2>3, <2>4 DEF ActivePasskeys, Keeps
  <2>5. \A u \in Users \ {request[r].user} : HasMethod(u) => HasMethod(u)'
    BY <1>6, <2>4 DEF RemoveCredential, HasMethod, LinkOf
  <2>5a. PICK w : w = request[r].user
    OBVIOUS
  <2>6. /\ excused \subseteq excused'
        /\ <<w, "methods">> \in excused' \/ HasMethod(w)'
    BY <1>6, <2>1, <2>3, <2>5a DEF RemoveCredential, Excusing, HasMethod, ActivePasskeys, Keeps
  <2>7. OnlyOverlapsLockOut'
    BY <1>6, <2>1, <2>2, <2>5, <2>5a, <2>6 DEF RemoveCredential, At, LInv, OnlyOverlapsLockOut
  <2>8. ASSUME NEW o \in Requests, o # r
        PROVE  Keeps(request[o])'
    <3>1. Keeps(request[o]) /\ request[o] \in Request /\ Filled(request[o])
      BY DEF LInv, TInv, RequestsOK
    <3>2. CASE request[o].user = request[r].user
      BY <1>6, <2>2, <2>3, <2>8, <3>1, <3>2 DEF RemoveCredential, Keeps
    <3>3. CASE request[o].user # request[r].user
      BY <1>6, <2>2, <2>3, <2>4, <2>8, <3>1, <3>3 DEF RemoveCredential, Keeps, Filled, Existing
    <3>4. QED
      BY <3>2, <3>3
  <2>9. QED
    BY <2>2, <2>7, <2>8 DEF LInv, Keeps
<1>7. ASSUME NEW r \in Requests, CreateSession(r)
      PROVE  LInv'
  <2>1. \A o \in Requests :
            /\ request[o].pc = "registering" =>
                   request'[o].pc = "registering" /\ request'[o].user = request[o].user
            /\ request'[o].pc \in {"removing", "disconnecting"} =>
                   /\ request'[o].pc = request[o].pc /\ request'[o].user = request[o].user
                   /\ request'[o].passkey = request[o].passkey
                   /\ request'[o].link = request[o].link
                   /\ request[o].overtaken => request'[o].overtaken
    BY <1>7 DEF CreateSession, At, Leaves, IdleRequest, TInv, RequestsOK, Request
  <2>2. \A v \in Users : user'[v] # "none" => user[v] # "none"
    BY <1>7 DEF CreateSession, TInv, TablesOK
  <2>3. QED
    BY <1>7, <2>1, <2>2, MethodsStay DEF CreateSession
<1>8. ASSUME NEW r \in Requests, NEW c \in Codes, LookUpCode(r, c)
      PROVE  LInv'
  <2>1. \A o \in Requests :
            /\ request[o].pc = "registering" =>
                   request'[o].pc = "registering" /\ request'[o].user = request[o].user
            /\ request'[o].pc \in {"removing", "disconnecting"} =>
                   /\ request'[o].pc = request[o].pc /\ request'[o].user = request[o].user
                   /\ request'[o].passkey = request[o].passkey
                   /\ request'[o].link = request[o].link
                   /\ request[o].overtaken => request'[o].overtaken
    BY <1>8 DEF LookUpCode, At, IdleRequest, TInv, RequestsOK, Request
  <2>2. \A v \in Users : user'[v] # "none" => user[v] # "none"
    BY <1>8 DEF LookUpCode, TInv, TablesOK
  <2>3. QED
    BY <1>8, <2>1, <2>2, MethodsStay DEF LookUpCode
<1>9. ASSUME NEW r \in Requests, MarkCodeUsed(r)
      PROVE  LInv'
  <2>1. \A o \in Requests :
            /\ request[o].pc = "registering" =>
                   request'[o].pc = "registering" /\ request'[o].user = request[o].user
            /\ request'[o].pc \in {"removing", "disconnecting"} =>
                   /\ request'[o].pc = request[o].pc /\ request'[o].user = request[o].user
                   /\ request'[o].passkey = request[o].passkey
                   /\ request'[o].link = request[o].link
                   /\ request[o].overtaken => request'[o].overtaken
    BY <1>9 DEF MarkCodeUsed, At, IdleRequest, TInv, RequestsOK, Request
  <2>2. \A v \in Users : user'[v] # "none" => user[v] # "none"
    BY <1>9 DEF MarkCodeUsed, TInv, TablesOK
  <2>3. QED
    BY <1>9, <2>1, <2>2, MethodsStay DEF MarkCodeUsed
<1>10. ASSUME NEW r \in Requests, NEW u \in Users, StartRegeneration(r, u)
      PROVE  LInv'
  <2>1. \A o \in Requests :
            /\ request[o].pc = "registering" =>
                   request'[o].pc = "registering" /\ request'[o].user = request[o].user
            /\ request'[o].pc \in {"removing", "disconnecting"} =>
                   /\ request'[o].pc = request[o].pc /\ request'[o].user = request[o].user
                   /\ request'[o].passkey = request[o].passkey
                   /\ request'[o].link = request[o].link
                   /\ request[o].overtaken => request'[o].overtaken
    BY <1>10 DEF StartRegeneration, At, IdleRequest, TInv, RequestsOK, Request
  <2>2. \A v \in Users : user'[v] # "none" => user[v] # "none"
    BY <1>10 DEF StartRegeneration, TInv, TablesOK
  <2>3. QED
    BY <1>10, <2>1, <2>2, MethodsStay DEF StartRegeneration
<1>11. ASSUME NEW r \in Requests, NEW new \in SUBSET Codes, InsertCodes(r, new)
      PROVE  LInv'
  <2>1. \A o \in Requests :
            /\ request[o].pc = "registering" =>
                   request'[o].pc = "registering" /\ request'[o].user = request[o].user
            /\ request'[o].pc \in {"removing", "disconnecting"} =>
                   /\ request'[o].pc = request[o].pc /\ request'[o].user = request[o].user
                   /\ request'[o].passkey = request[o].passkey
                   /\ request'[o].link = request[o].link
                   /\ request[o].overtaken => request'[o].overtaken
    BY <1>11 DEF InsertCodes, At, Leaves, IdleRequest, TInv, RequestsOK, Request
  <2>2. \A v \in Users : user'[v] # "none" => user[v] # "none"
    BY <1>11 DEF InsertCodes, TInv, TablesOK
  <2>3. QED
    BY <1>11, <2>1, <2>2, MethodsStay DEF InsertCodes
<1>12. ASSUME NEW r \in Requests, NEW a \in {"google", "signup", "linking"},
             NEW u \in Users \cup {None}, NEW s \in Subjects, ConsumeOAuthIntent(r, a, u, s)
      PROVE  LInv'
  <2>1. \A o \in Requests :
            /\ request[o].pc = "registering" =>
                   request'[o].pc = "registering" /\ request'[o].user = request[o].user
            /\ request'[o].pc \in {"removing", "disconnecting"} =>
                   /\ request'[o].pc = request[o].pc /\ request'[o].user = request[o].user
                   /\ request'[o].passkey = request[o].passkey
                   /\ request'[o].link = request[o].link
                   /\ request[o].overtaken => request'[o].overtaken
    BY <1>12 DEF ConsumeOAuthIntent, At, IdleRequest, TInv, RequestsOK, Request
  <2>2. \A v \in Users : user'[v] # "none" => user[v] # "none"
    BY <1>12 DEF ConsumeOAuthIntent, TInv, TablesOK
  <2>3. QED
    BY <1>12, <2>1, <2>2, MethodsStay DEF ConsumeOAuthIntent
<1>13. ASSUME NEW r \in Requests, FindGoogleAccount(r)
      PROVE  LInv'
  <2>1. \A o \in Requests :
            /\ request[o].pc = "registering" =>
                   request'[o].pc = "registering" /\ request'[o].user = request[o].user
            /\ request'[o].pc \in {"removing", "disconnecting"} =>
                   /\ request'[o].pc = request[o].pc /\ request'[o].user = request[o].user
                   /\ request'[o].passkey = request[o].passkey
                   /\ request'[o].link = request[o].link
                   /\ request[o].overtaken => request'[o].overtaken
    BY <1>13 DEF FindGoogleAccount, At, Leaves, IdleRequest, TInv, RequestsOK, Request
  <2>2. \A v \in Users : user'[v] # "none" => user[v] # "none"
    BY <1>13 DEF FindGoogleAccount, TInv, TablesOK
  <2>3. QED
    BY <1>13, <2>1, <2>2, MethodsStay DEF FindGoogleAccount
<1>14. ASSUME NEW r \in Requests, CheckGoogleUser(r)
      PROVE  LInv'
  <2>1. \A o \in Requests :
            /\ request[o].pc = "registering" =>
                   request'[o].pc = "registering" /\ request'[o].user = request[o].user
            /\ request'[o].pc \in {"removing", "disconnecting"} =>
                   /\ request'[o].pc = request[o].pc /\ request'[o].user = request[o].user
                   /\ request'[o].passkey = request[o].passkey
                   /\ request'[o].link = request[o].link
                   /\ request[o].overtaken => request'[o].overtaken
    BY <1>14 DEF CheckGoogleUser, At, Leaves, IdleRequest, TInv, RequestsOK, Request
  <2>2. \A v \in Users : user'[v] # "none" => user[v] # "none"
    BY <1>14 DEF CheckGoogleUser, TInv, TablesOK
  <2>3. QED
    BY <1>14, <2>1, <2>2, MethodsStay DEF CheckGoogleUser
<1>15. ASSUME NEW r \in Requests, LookForAccount(r)
      PROVE  LInv'
  <2>1. \A o \in Requests :
            /\ request[o].pc = "registering" =>
                   request'[o].pc = "registering" /\ request'[o].user = request[o].user
            /\ request'[o].pc \in {"removing", "disconnecting"} =>
                   /\ request'[o].pc = request[o].pc /\ request'[o].user = request[o].user
                   /\ request'[o].passkey = request[o].passkey
                   /\ request'[o].link = request[o].link
                   /\ request[o].overtaken => request'[o].overtaken
    BY <1>15 DEF LookForAccount, At, IdleRequest, TInv, RequestsOK, Request
  <2>2. \A v \in Users : user'[v] # "none" => user[v] # "none"
    BY <1>15 DEF LookForAccount, TInv, TablesOK
  <2>3. QED
    BY <1>15, <2>1, <2>2, MethodsStay DEF LookForAccount
<1>16. ASSUME NEW r \in Requests, CheckLink(r)
      PROVE  LInv'
  <2>1. \A o \in Requests :
            /\ request[o].pc = "registering" =>
                   request'[o].pc = "registering" /\ request'[o].user = request[o].user
            /\ request'[o].pc \in {"removing", "disconnecting"} =>
                   /\ request'[o].pc = request[o].pc /\ request'[o].user = request[o].user
                   /\ request'[o].passkey = request[o].passkey
                   /\ request'[o].link = request[o].link
                   /\ request[o].overtaken => request'[o].overtaken
    BY <1>16 DEF CheckLink, At, Leaves, IdleRequest, TInv, RequestsOK, Request
  <2>2. \A v \in Users : user'[v] # "none" => user[v] # "none"
    BY <1>16 DEF CheckLink, TInv, TablesOK
  <2>3. QED
    BY <1>16, <2>1, <2>2, MethodsStay DEF CheckLink
<1>17. ASSUME NEW r \in Requests, NEW u \in Users, NEW l \in Links, CreateAccount(r, u, l)
      PROVE  LInv'
  <2>1. CASE LinkBySubject(request[r].subject) = {}
    <3>1. /\ request'[r].pc = "signedIn" /\ request[r].pc = "creating"
          /\ \A o \in Requests \ {r} : request'[o] = request[o]
      BY <1>17, <2>1 DEF CreateAccount, At, TInv, RequestsOK, Request
    <3>2. /\ link'[l].status = "linked" /\ link'[l].owner = u
          /\ link[l].status = "none" /\ Unheld(l)
          /\ \A x \in Links \ {l} : link'[x] = link[x]
      BY <1>17, <2>1 DEF CreateAccount, Linked, TInv, TablesOK
    <3>3. \A v \in Users : HasMethod(v) => HasMethod(v)'
      BY <1>17, <3>2 DEF CreateAccount, HasMethod, ActivePasskeys, LinkOf
    <3>4. HasMethod(u)' /\ \A v \in Users \ {u} : user'[v] = user[v]
      BY <1>17, <2>1, <3>2 DEF CreateAccount, HasMethod, LinkOf, TInv, TablesOK
    <3>5. OnlyOverlapsLockOut'
      BY <1>17, <3>1, <3>3, <3>4 DEF CreateAccount, At, LInv, OnlyOverlapsLockOut
    <3>6. ASSUME NEW o \in Requests, o # r
          PROVE  Keeps(request[o])'
      <4>1. request'[o] = request[o] /\ Keeps(request[o]) /\ request[o].link # l
        BY <3>6, <3>1, <3>2 DEF Unheld, LInv
      <4>2. request[o].pc = "disconnecting" => link'[request[o].link] = link[request[o].link]
        BY <3>1, <3>2, <4>1 DEF TInv, RequestsOK, Filled
      <4>3. QED
        BY <1>17, <4>1, <4>2 DEF CreateAccount, Keeps, ActivePasskeys
    <3>7. QED
      BY <3>1, <3>5, <3>6 DEF LInv, Keeps
  <2>2. CASE LinkBySubject(request[r].subject) # {}
    <3>1. /\ request'[r].pc = "google" /\ request[r].pc = "creating"
          /\ \A o \in Requests \ {r} : request'[o] = request[o]
      BY <1>17, <2>2 DEF CreateAccount, At, TInv, RequestsOK, Request
    <3>2. UNCHANGED <<user, link, passkey, excused>>
      BY <1>17, <2>2 DEF CreateAccount
    <3>3. QED
      BY <3>1, <3>2, MethodsStay
  <2>3. QED
    BY <2>1, <2>2
<1>18. ASSUME NEW r \in Requests, NEW u \in Users, NEW l \in Links, StartDisconnect(r, u, l)
      PROVE  LInv'
  <2>1. request'[r] = [IdleRequest EXCEPT !.pc = "disconnecting", !.user = u, !.link = l]
    BY <1>18 DEF StartDisconnect, TInv, RequestsOK
  <2>2. /\ request'[r].pc = "disconnecting" /\ request'[r].user = u /\ request'[r].link = l
    BY <2>1 DEF IdleRequest
  <2>3. Keeps(request[r])'
    BY <1>18, <2>2 DEF StartDisconnect, MayDisconnect, LinkOf, Keeps, ActivePasskeys
  <2>4. \A o \in Requests \ {r} : request'[o] = request[o]
    BY <1>18 DEF StartDisconnect, TInv, RequestsOK
  <2>5. QED
    BY <1>18, <2>3, <2>4, RemovalBegins DEF StartDisconnect, At
<1>19. ASSUME NEW r \in Requests, NEW l \in Links, InsertLink(r, l)
      PROVE  LInv'
  <2>1. /\ request'[r].pc = "idle" /\ request[r].pc = "inserting"
        /\ \A o \in Requests \ {r} : request'[o] = request[o]
    BY <1>19 DEF InsertLink, At, Leaves, IdleRequest, TInv, RequestsOK
  <2>2. CASE link' = link
    BY <1>19, <2>1, <2>2, MethodsStay DEF InsertLink
  <2>3. CASE link' = Linked(l, request[r].user, request[r].subject)
    <3>1. link[l].status = "none" /\ Unheld(l) /\ \A x \in Links \ {l} : link'[x] = link[x]
      BY <1>19, <2>3 DEF InsertLink, Linked, TInv, TablesOK
    <3>2. \A v \in Users : HasMethod(v) => HasMethod(v)'
      BY <1>19, <3>1 DEF InsertLink, HasMethod, ActivePasskeys, LinkOf
    <3>3. OnlyOverlapsLockOut'
      BY <1>19, <2>1, <3>2 DEF InsertLink, At, LInv, OnlyOverlapsLockOut
    <3>4. ASSUME NEW o \in Requests, o # r
          PROVE  Keeps(request[o])'
      <4>1. request'[o] = request[o] /\ Keeps(request[o]) /\ request[o].link # l
        BY <3>4, <2>1, <3>1 DEF Unheld, LInv
      <4>2. request[o].pc = "disconnecting" => link'[request[o].link] = link[request[o].link]
        BY <2>1, <3>1, <4>1 DEF TInv, RequestsOK, Filled
      <4>3. QED
        BY <1>19, <4>1, <4>2 DEF InsertLink, Keeps, ActivePasskeys
    <3>5. QED
      BY <2>1, <3>3, <3>4 DEF LInv, Keeps
  <2>4. QED
    BY <1>19, <2>2, <2>3 DEF InsertLink
<1>20. ASSUME NEW r \in Requests, DeleteLink(r)
      PROVE  LInv'
  <2>1. /\ request'[r].pc = "idle" /\ request[r].pc = "disconnecting" /\ Keeps(request[r])
        /\ request[r].overtaken \in BOOLEAN /\ request[r].link \in Links
        /\ \A o \in Requests \ {r} : request'[o] = request[o]
    BY <1>20 DEF DeleteLink, At, Leaves, IdleRequest, LInv, TInv, RequestsOK, Request, Filled
  <2>2. /\ link'[request[r].link].status = "none"
        /\ \A x \in Links \ {request[r].link} : link'[x] = link[x]
    BY <1>20, <2>1 DEF DeleteLink, NoLink, TInv, TablesOK
  <2>3. \A u \in Users \ {request[r].user} : HasMethod(u) => HasMethod(u)'
    BY <1>20, <2>1, <2>2 DEF DeleteLink, HasMethod, ActivePasskeys, LinkOf, Keeps
  <2>3a. PICK w : w = request[r].user
    OBVIOUS
  <2>4. /\ excused \subseteq excused'
        /\ <<w, "methods">> \in excused' \/ HasMethod(w)'
    BY <1>20, <2>1, <2>3a DEF DeleteLink, Excusing, HasMethod, ActivePasskeys, Keeps
  <2>5. OnlyOverlapsLockOut'
    BY <1>20, <2>1, <2>3, <2>3a, <2>4 DEF DeleteLink, At, LInv, OnlyOverlapsLockOut
  <2>6. \A o \in Requests : Keeps(request[o])'
    BY <1>20, <2>1, <2>2 DEF DeleteLink, LInv, Keeps, ActivePasskeys
  <2>7. QED
    BY <2>5, <2>6 DEF LInv
<1>21. ASSUME NEW r \in Requests, NEW u \in Users, SuspendUser(r, u)
      PROVE  LInv'
  <2>1. \A o \in Requests :
            /\ request[o].pc = "registering" =>
                   request'[o].pc = "registering" /\ request'[o].user = request[o].user
            /\ request'[o].pc \in {"removing", "disconnecting"} =>
                   /\ request'[o].pc = request[o].pc /\ request'[o].user = request[o].user
                   /\ request'[o].passkey = request[o].passkey
                   /\ request'[o].link = request[o].link
                   /\ request[o].overtaken => request'[o].overtaken
    BY <1>21 DEF SuspendUser, At, IdleRequest, Overtaking, TInv, RequestsOK, Request
  <2>2. \A v \in Users : user'[v] # "none" => user[v] # "none"
    BY <1>21 DEF SuspendUser, TInv, TablesOK
  <2>3. QED
    BY <1>21, <2>1, <2>2, MethodsStay DEF SuspendUser
<1>22. ASSUME NEW r \in Requests, RevokeSessionsOfSuspended(r)
      PROVE  LInv'
  <2>1. \A o \in Requests :
            /\ request[o].pc = "registering" =>
                   request'[o].pc = "registering" /\ request'[o].user = request[o].user
            /\ request'[o].pc \in {"removing", "disconnecting"} =>
                   /\ request'[o].pc = request[o].pc /\ request'[o].user = request[o].user
                   /\ request'[o].passkey = request[o].passkey
                   /\ request'[o].link = request[o].link
                   /\ request[o].overtaken => request'[o].overtaken
    BY <1>22 DEF RevokeSessionsOfSuspended, At, Leaves, IdleRequest, TInv, RequestsOK, Request
  <2>2. \A v \in Users : user'[v] # "none" => user[v] # "none"
    BY <1>22 DEF RevokeSessionsOfSuspended, TInv, TablesOK
  <2>3. QED
    BY <1>22, <2>1, <2>2, MethodsStay DEF RevokeSessionsOfSuspended
<1>23. ASSUME NEW r \in Requests, RequestDies(r)
      PROVE  LInv'
  <2>1. /\ request'[r].pc = "idle"
        /\ \A o \in Requests \ {r} : request'[o] = request[o]
    BY <1>23 DEF RequestDies, Leaves, IdleRequest, TInv, RequestsOK
  <2>2. /\ excused \subseteq excused'
        /\ request[r].pc = "registering" => <<request[r].user, "methods">> \in excused'
    BY <1>23 DEF RequestDies, At
  <2>3. OnlyOverlapsLockOut'
    BY <1>23, <2>1, <2>2 DEF RequestDies, At, LInv, OnlyOverlapsLockOut, HasMethod,
       ActivePasskeys, LinkOf
  <2>4. \A o \in Requests : Keeps(request[o])'
    BY <1>23, <2>1 DEF RequestDies, LInv, Keeps, ActivePasskeys
  <2>5. QED
    BY <2>3, <2>4 DEF LInv
<1>24. ASSUME NEW u \in Users, NEW k \in Passkeys, InsertCredential(u, k)
      PROVE  LInv'
  <2>1. /\ passkey'[k] = [status |-> "active", owner |-> u]
        /\ \A x \in Passkeys \ {k} : passkey'[x] = passkey[x]
    BY <1>24 DEF InsertCredential, TInv, TablesOK
  <2>2. \A v \in Users : HasMethod(v) => HasMethod(v)'
    BY <1>24, <2>1 DEF InsertCredential, HasMethod, ActivePasskeys, LinkOf
  <2>3. OnlyOverlapsLockOut'
    BY <1>24, <2>2 DEF InsertCredential, At, LInv, OnlyOverlapsLockOut
  <2>4. \A o \in Requests : Keeps(request[o])'
    BY <1>24, <2>1 DEF InsertCredential, Unheld, LInv, Keeps, ActivePasskeys
  <2>5. QED
    BY <2>3, <2>4 DEF LInv
<1>25. ASSUME NEW s \in sessions, RevokeSession(s)
      PROVE  LInv'
  BY <1>25, MethodsStay DEF RevokeSession
<1>26. ASSUME NEW u \in Users, RevokeAllSessions(u)
      PROVE  LInv'
  BY <1>26, MethodsStay DEF RevokeAllSessions
<1>27. ASSUME NEW u \in Users, RestoreUser(u)
      PROVE  LInv'
  BY <1>27, MethodsStay DEF RestoreUser
<1>28. ASSUME NEW u \in Users, AssignRole(u)
      PROVE  LInv'
  BY <1>28, MethodsStay DEF AssignRole
<1>29. ASSUME NEW u \in Users, RequestOrCancelDeletion(u)
      PROVE  LInv'
  <2>1. user[u] # "none"
    BY <1>29 DEF RequestOrCancelDeletion, SignedIn, TInv, TablesOK, Owned, Existing
  <2>2. QED
    BY <1>29, <2>1, MethodsStay DEF RequestOrCancelDeletion, TInv, TablesOK
<1>30. CASE UNCHANGED vars
  BY <1>30, MethodsStay DEF vars
<1>31. QED
  BY <1>1, <1>2, <1>3, <1>4, <1>5, <1>6, <1>7, <1>8, <1>9, <1>10, <1>11, <1>12, <1>13, <1>14,
     <1>15, <1>16, <1>17, <1>18, <1>19, <1>20, <1>21, <1>22, <1>23, <1>24, <1>25, <1>26, <1>27,
     <1>28, <1>29, <1>30
  DEF Next, PasskeyStep, CodeStep, GoogleStep, AdminStep, OwnerStep

-----------------------------------------------------------------------------
(* A recovery code makes one session *)

\* A step that adds no code and looks none up, marks none and redeems none.
LEMMA CodesStay ==
    ASSUME TInv', CInv, UNCHANGED redeemed,
           \A c \in Codes : code'[c].status = "unused" => code[c].status = "unused",
           \A o \in Requests :
               request'[o].via = "code" =>
                   /\ request'[o].pc = request[o].pc /\ request[o].via = "code"
                   /\ request'[o].code = request[o].code
                   /\ request[o].overtaken => request'[o].overtaken
    PROVE  CInv'
<1>1. ASSUME NEW o \in Requests, request'[o].pc = "redeeming"
      PROVE  request'[o].via = "code" /\ request'[o].code \in Codes
  BY <1>1 DEF TInv, RequestsOK, Filled
<1>2. ASSUME NEW o \in Requests, NEW c \in Codes, Spending(request[o], c)'
      PROVE  /\ Spending(request[o], c)
             /\ request[o].overtaken => request'[o].overtaken
  BY <1>2 DEF Spending
<1>3. ASSUME NEW c \in Codes, Untouched(c)
      PROVE  Untouched(c)'
  BY <1>2, <1>3 DEF Untouched
<1>4. ASSUME NEW o \in Requests, request'[o].pc = "redeeming", ~request'[o].overtaken
      PROVE  Untouched(request[o].code)'
  <2>1. PICK c \in Codes : c = request'[o].code
    BY <1>1, <1>4
  <2>2. Untouched(c)
    BY <1>1, <1>4, <2>1 DEF CInv
  <2>3. Untouched(c)'
    BY <1>3, <2>2
  <2>4. QED
    BY <2>1, <2>3 DEF Untouched, Spending
<1>5. \A c \in Codes : code'[c].status = "unused" => Untouched(c)'
  BY <1>3 DEF CInv
<1>6. ASSUME NEW c \in Codes, NEW r \in Requests, Spending(request[r], c)', ~request'[r].overtaken
      PROVE  /\ redeemed'[c] = 0
             /\ \A q \in Requests : Spending(request[q], c)' /\ ~request'[q].overtaken => q = r
  BY <1>2, <1>6 DEF CInv
<1>7. QED
  BY <1>4, <1>5, <1>6 DEF CInv, CodesAreSpentOnce

LEMMA CInvStep == TInv /\ TInv' /\ CInv /\ [Next]_vars => CInv'
<1> SUFFICES ASSUME TInv, CInv, [Next]_vars, TInv'
             PROVE  CInv'
  OBVIOUS
<1> USE SignInAssumption
<1>1. ASSUME NEW r \in Requests, NEW k \in Passkeys, FindCredential(r, k)
      PROVE  CInv'
  <2>1. \A o \in Requests :
            request'[o].via = "code" =>
                /\ request'[o].pc = request[o].pc /\ request[o].via = "code"
                /\ request'[o].code = request[o].code
                /\ request[o].overtaken => request'[o].overtaken
    BY <1>1 DEF FindCredential, At, IdleRequest, TInv, RequestsOK, Request, Filled
  <2>2. QED
    BY <1>1, <2>1, CodesStay DEF FindCredential
<1>2. ASSUME NEW r \in Requests, NEW k \in Passkeys, InsertFirstCredential(r, k)
      PROVE  CInv'
  <2>1. \A o \in Requests :
            request'[o].via = "code" =>
                /\ request'[o].pc = request[o].pc /\ request[o].via = "code"
                /\ request'[o].code = request[o].code
                /\ request[o].overtaken => request'[o].overtaken
    BY <1>2 DEF InsertFirstCredential, At, TInv, RequestsOK, Request, Filled
  <2>2. QED
    BY <1>2, <2>1, CodesStay DEF InsertFirstCredential
<1>3. ASSUME NEW r \in Requests, NEW u \in Users, InsertUser(r, u)
      PROVE  CInv'
  <2>1. \A o \in Requests :
            request'[o].via = "code" =>
                /\ request'[o].pc = request[o].pc /\ request[o].via = "code"
                /\ request'[o].code = request[o].code
                /\ request[o].overtaken => request'[o].overtaken
    BY <1>3 DEF InsertUser, At, IdleRequest, TInv, RequestsOK, Request, Filled
  <2>2. QED
    BY <1>3, <2>1, CodesStay DEF InsertUser
<1>4. ASSUME NEW r \in Requests, NEW u \in Users, NEW k \in Passkeys, ListActiveCredentials(r, u, k)
      PROVE  CInv'
  <2>1. \A o \in Requests :
            request'[o].via = "code" =>
                /\ request'[o].pc = request[o].pc /\ request[o].via = "code"
                /\ request'[o].code = request[o].code
                /\ request[o].overtaken => request'[o].overtaken
    BY <1>4 DEF ListActiveCredentials, At, IdleRequest, TInv, RequestsOK, Request, Filled
  <2>2. QED
    BY <1>4, <2>1, CodesStay DEF ListActiveCredentials
<1>5. ASSUME NEW r \in Requests, ReadUser(r)
      PROVE  CInv'
  <2>1. \A o \in Requests :
            request'[o].via = "code" =>
                /\ request'[o].pc = request[o].pc /\ request[o].via = "code"
                /\ request'[o].code = request[o].code
                /\ request[o].overtaken => request'[o].overtaken
    BY <1>5 DEF ReadUser, At, Leaves, IdleRequest, TInv, RequestsOK, Request, Filled
  <2>2. QED
    BY <1>5, <2>1, CodesStay DEF ReadUser
<1>6. ASSUME NEW r \in Requests, RemoveCredential(r)
      PROVE  CInv'
  <2>1. \A o \in Requests :
            request'[o].via = "code" =>
                /\ request'[o].pc = request[o].pc /\ request[o].via = "code"
                /\ request'[o].code = request[o].code
                /\ request[o].overtaken => request'[o].overtaken
    BY <1>6 DEF RemoveCredential, At, IdleRequest, Overtaking, TInv, RequestsOK, Request, Filled
  <2>2. QED
    BY <1>6, <2>1, CodesStay DEF RemoveCredential
<1>7. ASSUME NEW r \in Requests, CreateSession(r)
      PROVE  CInv'
  <2>1. /\ request'[r].pc = "idle" /\ request'[r].via = "passkey" /\ request[r].pc = "signedIn"
        /\ \A o \in Requests \ {r} : request'[o] = request[o]
    BY <1>7 DEF CreateSession, At, Leaves, IdleRequest, TInv, RequestsOK
  <2>2. CASE request[r].via = "code" /\ ~request[r].overtaken
    <3>1. PICK c \in Codes : c = request[r].code
      BY <1>7, <2>2 DEF TInv, RequestsOK, Filled
    <3>2. Spending(request[r], c) /\ redeemed[c] = 0
      BY <2>1, <2>2, <3>1 DEF Spending, CInv
    <3>3. redeemed'[c] = 1 /\ \A x \in Codes \ {c} : redeemed'[x] = redeemed[x]
      BY <1>7, <2>2, <3>1, <3>2 DEF CreateSession, TInv, TablesOK
    <3>4. ASSUME NEW x \in Codes, Untouched(x)
          PROVE  x # c /\ Untouched(x)'
      BY <2>1, <3>2, <3>3, <3>4 DEF Untouched, Spending
    <3>5. \A x \in Codes : code'[x].status = "unused" => Untouched(x)'
      BY <1>7, <3>4 DEF CreateSession, CInv
    <3>6. ASSUME NEW o \in Requests, request'[o].pc = "redeeming", ~request'[o].overtaken
          PROVE  Untouched(request[o].code)'
      <4>1. request'[o] = request[o] /\ request[o].code \in Codes /\ Untouched(request[o].code)
        BY <2>1, <3>6 DEF CInv, TInv, RequestsOK, Filled
      <4>2. PICK x \in Codes : x = request[o].code
        BY <4>1
      <4>3. Untouched(x)'
        BY <3>4, <4>1, <4>2
      <4>4. QED
        BY <4>1, <4>2, <4>3 DEF Untouched, Spending
    <3>7. ASSUME NEW x \in Codes, NEW o \in Requests, Spending(request[o], x)', ~request'[o].overtaken
          PROVE  /\ redeemed'[x] = 0
                 /\ \A q \in Requests : Spending(request[q], x)' /\ ~request'[q].overtaken => q = o
      BY <2>1, <2>2, <3>2, <3>3, <3>7 DEF CInv, Spending
    <3>8. CodesAreSpentOnce'
      BY <3>3 DEF CodesAreSpentOnce, CInv
    <3>9. QED
      BY <3>5, <3>6, <3>7, <3>8 DEF CInv
  <2>3. CASE ~(request[r].via = "code" /\ ~request[r].overtaken)
    <3>1. \A o \in Requests :
            request'[o].via = "code" =>
                /\ request'[o].pc = request[o].pc /\ request[o].via = "code"
                /\ request'[o].code = request[o].code
                /\ request[o].overtaken => request'[o].overtaken
      BY <2>1
    <3>2. UNCHANGED <<code, redeemed>>
      BY <1>7, <2>3 DEF CreateSession
    <3>3. QED
      BY <3>1, <3>2, CodesStay
  <2>4. QED
    BY <2>2, <2>3
<1>8. ASSUME NEW r \in Requests, NEW c \in Codes, LookUpCode(r, c)
      PROVE  CInv'
  <2>1. /\ request'[r].pc = "redeeming" /\ request'[r].code = c /\ code[c].status = "unused"
        /\ \A o \in Requests \ {r} : request'[o] = request[o]
    BY <1>8 DEF LookUpCode, Redeemable, IdleRequest, TInv, RequestsOK
  <2>2. ASSUME NEW x \in Codes, Untouched(x)
        PROVE  Untouched(x)'
    BY <1>8, <2>1, <2>2 DEF LookUpCode, Untouched, Spending
  <2>3. \A x \in Codes : code'[x].status = "unused" => Untouched(x)'
    BY <1>8, <2>2 DEF LookUpCode, CInv
  <2>4. ASSUME NEW o \in Requests, request'[o].pc = "redeeming", ~request'[o].overtaken
        PROVE  Untouched(request[o].code)'
    <3>1. PICK x \in Codes : x = request'[o].code /\ Untouched(x)
      BY <2>1, <2>4 DEF CInv, TInv, RequestsOK, Filled
    <3>2. Untouched(x)'
      BY <2>2, <3>1
    <3>3. QED
      BY <3>1, <3>2 DEF Untouched, Spending
  <2>5. ASSUME NEW x \in Codes, NEW o \in Requests, Spending(request[o], x)', ~request'[o].overtaken
        PROVE  /\ redeemed'[x] = 0
               /\ \A q \in Requests : Spending(request[q], x)' /\ ~request'[q].overtaken => q = o
    BY <1>8, <2>1, <2>5 DEF LookUpCode, CInv, Spending
  <2>6. QED
    BY <1>8, <2>3, <2>4, <2>5 DEF LookUpCode, CInv, CodesAreSpentOnce
<1>9. ASSUME NEW r \in Requests, MarkCodeUsed(r)
      PROVE  CInv'
  <2>1. PICK c \in Codes : c = request[r].code
    BY <1>9 DEF MarkCodeUsed, At, TInv, RequestsOK, Filled
  <2>2. /\ request'[r].pc = "signedIn" /\ request'[r].code = c /\ request[r].pc = "redeeming"
        /\ request'[r].overtaken = request[r].overtaken
        /\ \A o \in Requests \ {r} :
               \/ request[o].pc = "redeeming" /\ request[o].code = c /\ request'[o].overtaken
                  /\ request'[o].pc = "redeeming"
               \/ ~(request[o].pc = "redeeming" /\ request[o].code = c) /\ request'[o] = request[o]
    BY <1>9, <2>1 DEF MarkCodeUsed, At, TInv, RequestsOK, Request
  <2>3. /\ code'[c].status # "unused"
        /\ \A x \in Codes \ {c} : code'[x] = code[x]
    BY <1>9, <2>1 DEF MarkCodeUsed, TInv, TablesOK, CodeRow
  <2>4. ASSUME NEW x \in Codes, x # c, Untouched(x)
        PROVE  Untouched(x)'
    BY <1>9, <2>2, <2>4 DEF MarkCodeUsed, Untouched, Spending
  <2>5. \A x \in Codes : code'[x].status = "unused" => Untouched(x)'
    BY <2>3, <2>4 DEF CInv
  <2>6. ASSUME NEW o \in Requests, request'[o].pc = "redeeming", ~request'[o].overtaken
        PROVE  Untouched(request[o].code)'
    <3>1. o # r /\ request'[o] = request[o] /\ request[o].code # c
      BY <2>2, <2>6
    <3>2. PICK x \in Codes : x = request[o].code /\ Untouched(x)
      BY <2>6, <3>1 DEF CInv, TInv, RequestsOK, Filled
    <3>3. Untouched(x)'
      BY <2>4, <3>1, <3>2
    <3>4. QED
      BY <3>1, <3>2, <3>3 DEF Untouched, Spending
  <2>7. ASSUME NEW x \in Codes, NEW o \in Requests, Spending(request[o], x)', ~request'[o].overtaken
        PROVE  /\ redeemed'[x] = 0
               /\ \A q \in Requests : Spending(request[q], x)' /\ ~request'[q].overtaken => q = o
    <3>1. CASE ~request[r].overtaken
      <4>1. Untouched(c)
        BY <2>1, <2>2, <3>1 DEF CInv
      <4>2. QED
        BY <1>9, <2>2, <2>7, <3>1, <4>1 DEF MarkCodeUsed, CInv, Untouched, Spending
    <3>2. CASE request[r].overtaken
      BY <1>9, <2>2, <2>7, <3>2 DEF MarkCodeUsed, CInv, Spending
    <3>3. QED
      BY <3>1, <3>2 DEF TInv, RequestsOK, Request
  <2>8. QED
    BY <1>9, <2>5, <2>6, <2>7 DEF MarkCodeUsed, CInv, CodesAreSpentOnce
<1>10. ASSUME NEW r \in Requests, NEW u \in Users, StartRegeneration(r, u)
      PROVE  CInv'
  <2>1. /\ request'[r].pc = "regenerating" /\ request'[r].via = "passkey"
        /\ \A o \in Requests \ {r} : request'[o] = request[o]
    BY <1>10 DEF StartRegeneration, IdleRequest, TInv, RequestsOK
  <2>2. \A c \in Codes : code'[c].status = "unused" => code[c].status = "unused"
    BY <1>10 DEF StartRegeneration, WithoutCodesOf, NoCode
  <2>3. QED
    BY <1>10, <2>1, <2>2, CodesStay DEF StartRegeneration
<1>11. ASSUME NEW r \in Requests, NEW new \in SUBSET Codes, InsertCodes(r, new)
      PROVE  CInv'
  <2>1. /\ \/ request'[r].pc = "signedIn" /\ request'[r].via # "code"
           \/ request'[r].pc = "idle"
        /\ \A o \in Requests \ {r} : request'[o] = request[o]
    BY <1>11 DEF InsertCodes, At, Leaves, IdleRequest, TInv, RequestsOK, Request, Filled
  <2>2. /\ \A c \in new : redeemed'[c] = 0 /\ Unheld(c)
        /\ \A c \in Codes \ new : redeemed'[c] = redeemed[c] /\ code'[c] = code[c]
    BY <1>11 DEF InsertCodes
  <2>3. \A c \in new, o \in Requests : ~Spending(request[o], c)'
    BY <2>1, <2>2 DEF Spending, Unheld
  <2>4. ASSUME NEW c \in Codes, Untouched(c) \/ c \in new
        PROVE  Untouched(c)'
    BY <2>1, <2>2, <2>3, <2>4 DEF Untouched, Spending
  <2>5. \A c \in Codes : code'[c].status = "unused" => Untouched(c)'
    BY <2>2, <2>4 DEF CInv
  <2>6. ASSUME NEW o \in Requests, request'[o].pc = "redeeming", ~request'[o].overtaken
        PROVE  Untouched(request[o].code)'
    <3>1. o # r /\ request'[o] = request[o]
      BY <2>1, <2>6
    <3>2. PICK c \in Codes : c = request[o].code /\ Untouched(c)
      BY <2>6, <3>1 DEF CInv, TInv, RequestsOK, Filled
    <3>3. Untouched(c)'
      BY <2>4, <3>2
    <3>4. QED
      BY <3>1, <3>2, <3>3 DEF Untouched, Spending
  <2>7. ASSUME NEW c \in Codes, NEW o \in Requests, Spending(request[o], c)', ~request'[o].overtaken
        PROVE  /\ redeemed'[c] = 0
               /\ \A q \in Requests : Spending(request[q], c)' /\ ~request'[q].overtaken => q = o
    BY <2>1, <2>2, <2>3, <2>7 DEF CInv, Spending
  <2>8. CodesAreSpentOnce'
    BY <2>2 DEF CodesAreSpentOnce, CInv
  <2>9. QED
    BY <2>5, <2>6, <2>7, <2>8 DEF CInv
<1>12. ASSUME NEW r \in Requests, NEW a \in {"google", "signup", "linking"},
             NEW u \in Users \cup {None}, NEW s \in Subjects, ConsumeOAuthIntent(r, a, u, s)
      PROVE  CInv'
  <2>1. \A o \in Requests :
            request'[o].via = "code" =>
                /\ request'[o].pc = request[o].pc /\ request[o].via = "code"
                /\ request'[o].code = request[o].code
                /\ request[o].overtaken => request'[o].overtaken
    BY <1>12 DEF ConsumeOAuthIntent, At, IdleRequest, TInv, RequestsOK, Request, Filled
  <2>2. QED
    BY <1>12, <2>1, CodesStay DEF ConsumeOAuthIntent
<1>13. ASSUME NEW r \in Requests, FindGoogleAccount(r)
      PROVE  CInv'
  <2>1. \A o \in Requests :
            request'[o].via = "code" =>
                /\ request'[o].pc = request[o].pc /\ request[o].via = "code"
                /\ request'[o].code = request[o].code
                /\ request[o].overtaken => request'[o].overtaken
    BY <1>13 DEF FindGoogleAccount, At, Leaves, IdleRequest, TInv, RequestsOK, Request, Filled
  <2>2. QED
    BY <1>13, <2>1, CodesStay DEF FindGoogleAccount
<1>14. ASSUME NEW r \in Requests, CheckGoogleUser(r)
      PROVE  CInv'
  <2>1. \A o \in Requests :
            request'[o].via = "code" =>
                /\ request'[o].pc = request[o].pc /\ request[o].via = "code"
                /\ request'[o].code = request[o].code
                /\ request[o].overtaken => request'[o].overtaken
    BY <1>14 DEF CheckGoogleUser, At, Leaves, IdleRequest, TInv, RequestsOK, Request, Filled
  <2>2. QED
    BY <1>14, <2>1, CodesStay DEF CheckGoogleUser
<1>15. ASSUME NEW r \in Requests, LookForAccount(r)
      PROVE  CInv'
  <2>1. \A o \in Requests :
            request'[o].via = "code" =>
                /\ request'[o].pc = request[o].pc /\ request[o].via = "code"
                /\ request'[o].code = request[o].code
                /\ request[o].overtaken => request'[o].overtaken
    BY <1>15 DEF LookForAccount, At, TInv, RequestsOK, Request, Filled
  <2>2. QED
    BY <1>15, <2>1, CodesStay DEF LookForAccount
<1>16. ASSUME NEW r \in Requests, CheckLink(r)
      PROVE  CInv'
  <2>1. \A o \in Requests :
            request'[o].via = "code" =>
                /\ request'[o].pc = request[o].pc /\ request[o].via = "code"
                /\ request'[o].code = request[o].code
                /\ request[o].overtaken => request'[o].overtaken
    BY <1>16 DEF CheckLink, At, Leaves, IdleRequest, TInv, RequestsOK, Request, Filled
  <2>2. QED
    BY <1>16, <2>1, CodesStay DEF CheckLink
<1>17. ASSUME NEW r \in Requests, NEW u \in Users, NEW l \in Links, CreateAccount(r, u, l)
      PROVE  CInv'
  <2>1. \A o \in Requests :
            request'[o].via = "code" =>
                /\ request'[o].pc = request[o].pc /\ request[o].via = "code"
                /\ request'[o].code = request[o].code
                /\ request[o].overtaken => request'[o].overtaken
    BY <1>17 DEF CreateAccount, At, TInv, RequestsOK, Request, Filled
  <2>2. QED
    BY <1>17, <2>1, CodesStay DEF CreateAccount
<1>18. ASSUME NEW r \in Requests, NEW u \in Users, NEW l \in Links, StartDisconnect(r, u, l)
      PROVE  CInv'
  <2>1. \A o \in Requests :
            request'[o].via = "code" =>
                /\ request'[o].pc = request[o].pc /\ request[o].via = "code"
                /\ request'[o].code = request[o].code
                /\ request[o].overtaken => request'[o].overtaken
    BY <1>18 DEF StartDisconnect, At, IdleRequest, TInv, RequestsOK, Request, Filled
  <2>2. QED
    BY <1>18, <2>1, CodesStay DEF StartDisconnect
<1>19. ASSUME NEW r \in Requests, NEW l \in Links, InsertLink(r, l)
      PROVE  CInv'
  <2>1. \A o \in Requests :
            request'[o].via = "code" =>
                /\ request'[o].pc = request[o].pc /\ request[o].via = "code"
                /\ request'[o].code = request[o].code
                /\ request[o].overtaken => request'[o].overtaken
    BY <1>19 DEF InsertLink, At, Leaves, IdleRequest, TInv, RequestsOK, Request, Filled
  <2>2. QED
    BY <1>19, <2>1, CodesStay DEF InsertLink
<1>20. ASSUME NEW r \in Requests, DeleteLink(r)
      PROVE  CInv'
  <2>1. \A o \in Requests :
            request'[o].via = "code" =>
                /\ request'[o].pc = request[o].pc /\ request[o].via = "code"
                /\ request'[o].code = request[o].code
                /\ request[o].overtaken => request'[o].overtaken
    BY <1>20 DEF DeleteLink, At, Leaves, IdleRequest, TInv, RequestsOK, Request, Filled
  <2>2. QED
    BY <1>20, <2>1, CodesStay DEF DeleteLink
<1>21. ASSUME NEW r \in Requests, NEW u \in Users, SuspendUser(r, u)
      PROVE  CInv'
  <2>1. \A o \in Requests :
            request'[o].via = "code" =>
                /\ request'[o].pc = request[o].pc /\ request[o].via = "code"
                /\ request'[o].code = request[o].code
                /\ request[o].overtaken => request'[o].overtaken
    BY <1>21 DEF SuspendUser, At, IdleRequest, Overtaking, TInv, RequestsOK, Request, Filled
  <2>2. QED
    BY <1>21, <2>1, CodesStay DEF SuspendUser
<1>22. ASSUME NEW r \in Requests, RevokeSessionsOfSuspended(r)
      PROVE  CInv'
  <2>1. \A o \in Requests :
            request'[o].via = "code" =>
                /\ request'[o].pc = request[o].pc /\ request[o].via = "code"
                /\ request'[o].code = request[o].code
                /\ request[o].overtaken => request'[o].overtaken
    BY <1>22 DEF RevokeSessionsOfSuspended, At, Leaves, IdleRequest, TInv, RequestsOK, Request,
       Filled
  <2>2. QED
    BY <1>22, <2>1, CodesStay DEF RevokeSessionsOfSuspended
<1>23. ASSUME NEW r \in Requests, RequestDies(r)
      PROVE  CInv'
  <2>1. \A o \in Requests :
            request'[o].via = "code" =>
                /\ request'[o].pc = request[o].pc /\ request[o].via = "code"
                /\ request'[o].code = request[o].code
                /\ request[o].overtaken => request'[o].overtaken
    BY <1>23 DEF RequestDies, At, Leaves, IdleRequest, TInv, RequestsOK, Request, Filled
  <2>2. QED
    BY <1>23, <2>1, CodesStay DEF RequestDies
<1>24. ASSUME NEW u \in Users, NEW k \in Passkeys, InsertCredential(u, k)
      PROVE  CInv'
  BY <1>24, CodesStay DEF InsertCredential
<1>25. ASSUME NEW s \in sessions, RevokeSession(s)
      PROVE  CInv'
  BY <1>25, CodesStay DEF RevokeSession
<1>26. ASSUME NEW u \in Users, RevokeAllSessions(u)
      PROVE  CInv'
  BY <1>26, CodesStay DEF RevokeAllSessions
<1>27. ASSUME NEW u \in Users, RestoreUser(u)
      PROVE  CInv'
  BY <1>27, CodesStay DEF RestoreUser
<1>28. ASSUME NEW u \in Users, AssignRole(u)
      PROVE  CInv'
  BY <1>28, CodesStay DEF AssignRole
<1>29. ASSUME NEW u \in Users, RequestOrCancelDeletion(u)
      PROVE  CInv'
  BY <1>29, CodesStay DEF RequestOrCancelDeletion
<1>30. CASE UNCHANGED vars
  BY <1>30, CodesStay DEF vars
<1>31. QED
  BY <1>1, <1>2, <1>3, <1>4, <1>5, <1>6, <1>7, <1>8, <1>9, <1>10, <1>11, <1>12, <1>13, <1>14,
     <1>15, <1>16, <1>17, <1>18, <1>19, <1>20, <1>21, <1>22, <1>23, <1>24, <1>25, <1>26, <1>27,
     <1>28, <1>29, <1>30
  DEF Next, PasskeyStep, CodeStep, GoogleStep, AdminStep, OwnerStep

-----------------------------------------------------------------------------
(* A suspension ends the sessions *)

\* A step that suspends nobody, makes no session, and takes no request past the
\* reading of a status.
LEMMA SuspensionStays ==
    ASSUME TInv, TInv', SInv, sessions' \subseteq sessions, excused \subseteq excused',
           \A u \in Users : user'[u] = "suspended" => user[u] = "suspended",
           \A o \in Requests :
               request[o].pc = "suspending" =>
                   \/ request'[o].pc = "suspending" /\ request'[o].user = request[o].user
                   \/ <<request[o].user, "sessions">> \in excused',
           \A o \in Requests :
               request'[o].pc \in {"signedIn", "registering", "firstCodes"} =>
                   \/ request'[o].via = "code"
                   \/ user'[request'[o].user] # "suspended"
                   \/ /\ request[o].pc \in {"signedIn", "registering", "firstCodes"}
                      /\ request'[o].user = request[o].user /\ request[o].via # "code"
                      /\ request[o].overtaken => request'[o].overtaken
    PROVE  SInv'
<1>1. SuspensionEndsSessions'
  <2>1. \A s \in sessions' : s.user \in Users
    BY DEF TInv, TablesOK, Owned, Existing
  <2>2. QED
    BY <2>1 DEF SInv, SuspensionEndsSessions, At
<1>2. ASSUME NEW o \in Requests
      PROVE  Cleared(request[o])'
  <2>1. request'[o].pc \in {"signedIn", "registering", "firstCodes"} => request'[o].user \in Users
    BY DEF TInv, RequestsOK, Filled, Existing
  <2>2. Cleared(request[o]) /\ request[o].overtaken \in BOOLEAN
    BY DEF SInv, TInv, RequestsOK, Request
  <2>3. QED
    BY <2>1, <2>2 DEF Cleared
<1>3. QED
  BY <1>1, <1>2 DEF SInv

LEMMA SInvStep == TInv /\ TInv' /\ SInv /\ [Next]_vars => SInv'
<1> SUFFICES ASSUME TInv, TInv', SInv, [Next]_vars
             PROVE  SInv'
  OBVIOUS
<1> USE SignInAssumption
<1>1. ASSUME NEW r \in Requests, NEW k \in Passkeys, FindCredential(r, k)
      PROVE  SInv'
  <2>1. \A o \in Requests :
            /\ request[o].pc = "suspending" =>
                   request'[o].pc = "suspending" /\ request'[o].user = request[o].user
            /\ request'[o].pc \in {"signedIn", "registering", "firstCodes"} =>
                   \/ request'[o].via = "code"
                   \/ user'[request'[o].user] # "suspended"
                   \/ /\ request[o].pc \in {"signedIn", "registering", "firstCodes"}
                      /\ request'[o].user = request[o].user /\ request[o].via # "code"
                      /\ request[o].overtaken => request'[o].overtaken
    BY <1>1 DEF FindCredential, At, IdleRequest, TInv, RequestsOK, Request, Filled
  <2>2. QED
    BY <1>1, <2>1, SuspensionStays DEF FindCredential
<1>2. ASSUME NEW r \in Requests, NEW k \in Passkeys, InsertFirstCredential(r, k)
      PROVE  SInv'
  <2>1. \A o \in Requests :
            /\ request[o].pc = "suspending" =>
                   request'[o].pc = "suspending" /\ request'[o].user = request[o].user
            /\ request'[o].pc \in {"signedIn", "registering", "firstCodes"} =>
                   \/ request'[o].via = "code"
                   \/ user'[request'[o].user] # "suspended"
                   \/ /\ request[o].pc \in {"signedIn", "registering", "firstCodes"}
                      /\ request'[o].user = request[o].user /\ request[o].via # "code"
                      /\ request[o].overtaken => request'[o].overtaken
    BY <1>2 DEF InsertFirstCredential, At, IdleRequest, TInv, RequestsOK, Request, Filled
  <2>2. QED
    BY <1>2, <2>1, SuspensionStays DEF InsertFirstCredential
<1>3. ASSUME NEW r \in Requests, NEW u \in Users, InsertUser(r, u)
      PROVE  SInv'
  <2>1. /\ request'[r].pc = "registering" /\ request'[r].user = u /\ request[r].pc = "idle"
        /\ \A o \in Requests \ {r} : request'[o] = request[o]
    BY <1>3 DEF InsertUser, At, IdleRequest, TInv, RequestsOK
  <2>2. user'[u] = "active" /\ \A v \in Users \ {u} : user'[v] = user[v]
    BY <1>3 DEF InsertUser, NewUser, TInv, TablesOK
  <2>3. /\ UNCHANGED <<sessions, excused>>
        /\ \A v \in Users : user'[v] = "suspended" => user[v] = "suspended"
    BY <1>3, <2>2 DEF InsertUser
  <2>4. \A o \in Requests :
            /\ request[o].pc = "suspending" =>
                   request'[o].pc = "suspending" /\ request'[o].user = request[o].user
            /\ request'[o].pc \in {"signedIn", "registering", "firstCodes"} =>
                   \/ request'[o].via = "code"
                   \/ user'[request'[o].user] # "suspended"
                   \/ /\ request[o].pc \in {"signedIn", "registering", "firstCodes"}
                      /\ request'[o].user = request[o].user /\ request[o].via # "code"
                      /\ request[o].overtaken => request'[o].overtaken
    BY <2>1, <2>2 DEF TInv, RequestsOK, Filled
  <2>5. QED
    BY <2>3, <2>4, SuspensionStays
<1>4. ASSUME NEW r \in Requests, NEW u \in Users, NEW k \in Passkeys, ListActiveCredentials(r, u, k)
      PROVE  SInv'
  <2>1. \A o \in Requests :
            /\ request[o].pc = "suspending" =>
                   request'[o].pc = "suspending" /\ request'[o].user = request[o].user
            /\ request'[o].pc \in {"signedIn", "registering", "firstCodes"} =>
                   \/ request'[o].via = "code"
                   \/ user'[request'[o].user] # "suspended"
                   \/ /\ request[o].pc \in {"signedIn", "registering", "firstCodes"}
                      /\ request'[o].user = request[o].user /\ request[o].via # "code"
                      /\ request[o].overtaken => request'[o].overtaken
    BY <1>4 DEF ListActiveCredentials, At, IdleRequest, TInv, RequestsOK, Request, Filled
  <2>2. QED
    BY <1>4, <2>1, SuspensionStays DEF ListActiveCredentials
<1>5. ASSUME NEW r \in Requests, ReadUser(r)
      PROVE  SInv'
  <2>1. \A o \in Requests :
            /\ request[o].pc = "suspending" =>
                   request'[o].pc = "suspending" /\ request'[o].user = request[o].user
            /\ request'[o].pc \in {"signedIn", "registering", "firstCodes"} =>
                   \/ request'[o].via = "code"
                   \/ user'[request'[o].user] # "suspended"
                   \/ /\ request[o].pc \in {"signedIn", "registering", "firstCodes"}
                      /\ request'[o].user = request[o].user /\ request[o].via # "code"
                      /\ request[o].overtaken => request'[o].overtaken
    BY <1>5 DEF ReadUser, At, Leaves, IdleRequest, TInv, RequestsOK, Request, Filled, MayLogIn
  <2>2. QED
    BY <1>5, <2>1, SuspensionStays DEF ReadUser
<1>6. ASSUME NEW r \in Requests, RemoveCredential(r)
      PROVE  SInv'
  <2>1. \A o \in Requests :
            /\ request[o].pc = "suspending" =>
                   request'[o].pc = "suspending" /\ request'[o].user = request[o].user
            /\ request'[o].pc \in {"signedIn", "registering", "firstCodes"} =>
                   \/ request'[o].via = "code"
                   \/ user'[request'[o].user] # "suspended"
                   \/ /\ request[o].pc \in {"signedIn", "registering", "firstCodes"}
                      /\ request'[o].user = request[o].user /\ request[o].via # "code"
                      /\ request[o].overtaken => request'[o].overtaken
    BY <1>6 DEF RemoveCredential, At, IdleRequest, Overtaking, TInv, RequestsOK, Request, Filled
  <2>2. QED
    BY <1>6, <2>1, SuspensionStays DEF RemoveCredential, Excusing
<1>7. ASSUME NEW r \in Requests, CreateSession(r)
      PROVE  SInv'
  <2>1. /\ request'[r].pc = "idle" /\ request[r].pc = "signedIn" /\ UNCHANGED <<user, excused>>
        /\ \A o \in Requests \ {r} : request'[o] = request[o]
    BY <1>7 DEF CreateSession, At, Leaves, IdleRequest, TInv, RequestsOK
  <2>2. ASSUME NEW s \in sessions', user[s.user] = "suspended", s \notin sessions
        PROVE  ~s.checked
    <3>1. /\ s.user = request[r].user
          /\ s.checked = (request[r].via # "code" /\ ~request[r].overtaken)
      BY <1>7, <2>2 DEF CreateSession
    <3>2. ~(request[r].via # "code" /\ ~request[r].overtaken)
      BY <2>1, <2>2, <3>1 DEF SInv, Cleared
    <3>3. QED
      BY <3>1, <3>2
  <2>3. SuspensionEndsSessions'
    BY <2>1, <2>2 DEF SInv, SuspensionEndsSessions, At
  <2>4. \A o \in Requests : Cleared(request[o])'
    BY <2>1 DEF SInv, Cleared
  <2>5. QED
    BY <2>3, <2>4 DEF SInv
<1>8. ASSUME NEW r \in Requests, NEW c \in Codes, LookUpCode(r, c)
      PROVE  SInv'
  <2>1. \A o \in Requests :
            /\ request[o].pc = "suspending" =>
                   request'[o].pc = "suspending" /\ request'[o].user = request[o].user
            /\ request'[o].pc \in {"signedIn", "registering", "firstCodes"} =>
                   \/ request'[o].via = "code"
                   \/ user'[request'[o].user] # "suspended"
                   \/ /\ request[o].pc \in {"signedIn", "registering", "firstCodes"}
                      /\ request'[o].user = request[o].user /\ request[o].via # "code"
                      /\ request[o].overtaken => request'[o].overtaken
    BY <1>8 DEF LookUpCode, At, IdleRequest, TInv, RequestsOK, Request, Filled
  <2>2. QED
    BY <1>8, <2>1, SuspensionStays DEF LookUpCode
<1>9. ASSUME NEW r \in Requests, MarkCodeUsed(r)
      PROVE  SInv'
  <2>1. \A o \in Requests :
            /\ request[o].pc = "suspending" =>
                   request'[o].pc = "suspending" /\ request'[o].user = request[o].user
            /\ request'[o].pc \in {"signedIn", "registering", "firstCodes"} =>
                   \/ request'[o].via = "code"
                   \/ user'[request'[o].user] # "suspended"
                   \/ /\ request[o].pc \in {"signedIn", "registering", "firstCodes"}
                      /\ request'[o].user = request[o].user /\ request[o].via # "code"
                      /\ request[o].overtaken => request'[o].overtaken
    BY <1>9 DEF MarkCodeUsed, At, IdleRequest, TInv, RequestsOK, Request, Filled
  <2>2. QED
    BY <1>9, <2>1, SuspensionStays DEF MarkCodeUsed
<1>10. ASSUME NEW r \in Requests, NEW u \in Users, StartRegeneration(r, u)
      PROVE  SInv'
  <2>1. \A o \in Requests :
            /\ request[o].pc = "suspending" =>
                   request'[o].pc = "suspending" /\ request'[o].user = request[o].user
            /\ request'[o].pc \in {"signedIn", "registering", "firstCodes"} =>
                   \/ request'[o].via = "code"
                   \/ user'[request'[o].user] # "suspended"
                   \/ /\ request[o].pc \in {"signedIn", "registering", "firstCodes"}
                      /\ request'[o].user = request[o].user /\ request[o].via # "code"
                      /\ request[o].overtaken => request'[o].overtaken
    BY <1>10 DEF StartRegeneration, At, IdleRequest, TInv, RequestsOK, Request, Filled
  <2>2. QED
    BY <1>10, <2>1, SuspensionStays DEF StartRegeneration
<1>11. ASSUME NEW r \in Requests, NEW new \in SUBSET Codes, InsertCodes(r, new)
      PROVE  SInv'
  <2>1. \A o \in Requests :
            /\ request[o].pc = "suspending" =>
                   request'[o].pc = "suspending" /\ request'[o].user = request[o].user
            /\ request'[o].pc \in {"signedIn", "registering", "firstCodes"} =>
                   \/ request'[o].via = "code"
                   \/ user'[request'[o].user] # "suspended"
                   \/ /\ request[o].pc \in {"signedIn", "registering", "firstCodes"}
                      /\ request'[o].user = request[o].user /\ request[o].via # "code"
                      /\ request[o].overtaken => request'[o].overtaken
    BY <1>11 DEF InsertCodes, At, Leaves, IdleRequest, TInv, RequestsOK, Request, Filled
  <2>2. QED
    BY <1>11, <2>1, SuspensionStays DEF InsertCodes
<1>12. ASSUME NEW r \in Requests, NEW a \in {"google", "signup", "linking"},
             NEW u \in Users \cup {None}, NEW s \in Subjects, ConsumeOAuthIntent(r, a, u, s)
      PROVE  SInv'
  <2>1. \A o \in Requests :
            /\ request[o].pc = "suspending" =>
                   request'[o].pc = "suspending" /\ request'[o].user = request[o].user
            /\ request'[o].pc \in {"signedIn", "registering", "firstCodes"} =>
                   \/ request'[o].via = "code"
                   \/ user'[request'[o].user] # "suspended"
                   \/ /\ request[o].pc \in {"signedIn", "registering", "firstCodes"}
                      /\ request'[o].user = request[o].user /\ request[o].via # "code"
                      /\ request[o].overtaken => request'[o].overtaken
    BY <1>12 DEF ConsumeOAuthIntent, At, IdleRequest, TInv, RequestsOK, Request, Filled
  <2>2. QED
    BY <1>12, <2>1, SuspensionStays DEF ConsumeOAuthIntent
<1>13. ASSUME NEW r \in Requests, FindGoogleAccount(r)
      PROVE  SInv'
  <2>1. \A o \in Requests :
            /\ request[o].pc = "suspending" =>
                   request'[o].pc = "suspending" /\ request'[o].user = request[o].user
            /\ request'[o].pc \in {"signedIn", "registering", "firstCodes"} =>
                   \/ request'[o].via = "code"
                   \/ user'[request'[o].user] # "suspended"
                   \/ /\ request[o].pc \in {"signedIn", "registering", "firstCodes"}
                      /\ request'[o].user = request[o].user /\ request[o].via # "code"
                      /\ request[o].overtaken => request'[o].overtaken
    BY <1>13 DEF FindGoogleAccount, At, Leaves, IdleRequest, TInv, RequestsOK, Request, Filled
  <2>2. QED
    BY <1>13, <2>1, SuspensionStays DEF FindGoogleAccount
<1>14. ASSUME NEW r \in Requests, CheckGoogleUser(r)
      PROVE  SInv'
  <2>1. \A o \in Requests :
            /\ request[o].pc = "suspending" =>
                   request'[o].pc = "suspending" /\ request'[o].user = request[o].user
            /\ request'[o].pc \in {"signedIn", "registering", "firstCodes"} =>
                   \/ request'[o].via = "code"
                   \/ user'[request'[o].user] # "suspended"
                   \/ /\ request[o].pc \in {"signedIn", "registering", "firstCodes"}
                      /\ request'[o].user = request[o].user /\ request[o].via # "code"
                      /\ request[o].overtaken => request'[o].overtaken
    BY <1>14 DEF CheckGoogleUser, At, Leaves, IdleRequest, TInv, RequestsOK, Request, Filled,
       MayUseGoogle, MayLogIn
  <2>2. QED
    BY <1>14, <2>1, SuspensionStays DEF CheckGoogleUser
<1>15. ASSUME NEW r \in Requests, LookForAccount(r)
      PROVE  SInv'
  <2>1. \A o \in Requests :
            /\ request[o].pc = "suspending" =>
                   request'[o].pc = "suspending" /\ request'[o].user = request[o].user
            /\ request'[o].pc \in {"signedIn", "registering", "firstCodes"} =>
                   \/ request'[o].via = "code"
                   \/ user'[request'[o].user] # "suspended"
                   \/ /\ request[o].pc \in {"signedIn", "registering", "firstCodes"}
                      /\ request'[o].user = request[o].user /\ request[o].via # "code"
                      /\ request[o].overtaken => request'[o].overtaken
    BY <1>15 DEF LookForAccount, At, IdleRequest, TInv, RequestsOK, Request, Filled
  <2>2. QED
    BY <1>15, <2>1, SuspensionStays DEF LookForAccount
<1>16. ASSUME NEW r \in Requests, CheckLink(r)
      PROVE  SInv'
  <2>1. \A o \in Requests :
            /\ request[o].pc = "suspending" =>
                   request'[o].pc = "suspending" /\ request'[o].user = request[o].user
            /\ request'[o].pc \in {"signedIn", "registering", "firstCodes"} =>
                   \/ request'[o].via = "code"
                   \/ user'[request'[o].user] # "suspended"
                   \/ /\ request[o].pc \in {"signedIn", "registering", "firstCodes"}
                      /\ request'[o].user = request[o].user /\ request[o].via # "code"
                      /\ request[o].overtaken => request'[o].overtaken
    BY <1>16 DEF CheckLink, At, Leaves, IdleRequest, TInv, RequestsOK, Request, Filled
  <2>2. QED
    BY <1>16, <2>1, SuspensionStays DEF CheckLink
<1>17. ASSUME NEW r \in Requests, NEW u \in Users, NEW l \in Links, CreateAccount(r, u, l)
      PROVE  SInv'
  <2>1. /\ UNCHANGED <<sessions, excused>>
        /\ \A v \in Users : user'[v] = "suspended" => user[v] = "suspended"
    BY <1>17 DEF CreateAccount, NewUser, TInv, TablesOK
  <2>2. /\ \/ request'[r].pc = "google"
           \/ request'[r].user = u /\ user'[u] = "active"
        /\ request[r].pc = "creating"
        /\ \A o \in Requests \ {r} : request'[o] = request[o]
    BY <1>17 DEF CreateAccount, At, NewUser, TInv, TablesOK, RequestsOK, Request
  <2>3. \A o \in Requests :
            /\ request[o].pc = "suspending" =>
                   request'[o].pc = "suspending" /\ request'[o].user = request[o].user
            /\ request'[o].pc \in {"signedIn", "registering", "firstCodes"} =>
                   \/ request'[o].via = "code"
                   \/ user'[request'[o].user] # "suspended"
                   \/ /\ request[o].pc \in {"signedIn", "registering", "firstCodes"}
                      /\ request'[o].user = request[o].user /\ request[o].via # "code"
                      /\ request[o].overtaken => request'[o].overtaken
    BY <2>2 DEF TInv, RequestsOK, Filled
  <2>4. QED
    BY <2>1, <2>3, SuspensionStays
<1>18. ASSUME NEW r \in Requests, NEW u \in Users, NEW l \in Links, StartDisconnect(r, u, l)
      PROVE  SInv'
  <2>1. \A o \in Requests :
            /\ request[o].pc = "suspending" =>
                   request'[o].pc = "suspending" /\ request'[o].user = request[o].user
            /\ request'[o].pc \in {"signedIn", "registering", "firstCodes"} =>
                   \/ request'[o].via = "code"
                   \/ user'[request'[o].user] # "suspended"
                   \/ /\ request[o].pc \in {"signedIn", "registering", "firstCodes"}
                      /\ request'[o].user = request[o].user /\ request[o].via # "code"
                      /\ request[o].overtaken => request'[o].overtaken
    BY <1>18 DEF StartDisconnect, At, IdleRequest, TInv, RequestsOK, Request, Filled
  <2>2. QED
    BY <1>18, <2>1, SuspensionStays DEF StartDisconnect
<1>19. ASSUME NEW r \in Requests, NEW l \in Links, InsertLink(r, l)
      PROVE  SInv'
  <2>1. \A o \in Requests :
            /\ request[o].pc = "suspending" =>
                   request'[o].pc = "suspending" /\ request'[o].user = request[o].user
            /\ request'[o].pc \in {"signedIn", "registering", "firstCodes"} =>
                   \/ request'[o].via = "code"
                   \/ user'[request'[o].user] # "suspended"
                   \/ /\ request[o].pc \in {"signedIn", "registering", "firstCodes"}
                      /\ request'[o].user = request[o].user /\ request[o].via # "code"
                      /\ request[o].overtaken => request'[o].overtaken
    BY <1>19 DEF InsertLink, At, Leaves, IdleRequest, TInv, RequestsOK, Request, Filled
  <2>2. QED
    BY <1>19, <2>1, SuspensionStays DEF InsertLink
<1>20. ASSUME NEW r \in Requests, DeleteLink(r)
      PROVE  SInv'
  <2>1. \A o \in Requests :
            /\ request[o].pc = "suspending" =>
                   request'[o].pc = "suspending" /\ request'[o].user = request[o].user
            /\ request'[o].pc \in {"signedIn", "registering", "firstCodes"} =>
                   \/ request'[o].via = "code"
                   \/ user'[request'[o].user] # "suspended"
                   \/ /\ request[o].pc \in {"signedIn", "registering", "firstCodes"}
                      /\ request'[o].user = request[o].user /\ request[o].via # "code"
                      /\ request[o].overtaken => request'[o].overtaken
    BY <1>20 DEF DeleteLink, At, Leaves, IdleRequest, TInv, RequestsOK, Request, Filled
  <2>2. QED
    BY <1>20, <2>1, SuspensionStays DEF DeleteLink, Excusing
<1>21. ASSUME NEW r \in Requests, NEW u \in Users, SuspendUser(r, u)
      PROVE  SInv'
  <2>1. /\ request'[r].pc = "suspending" /\ request'[r].user = u /\ request[r].pc = "idle"
        /\ \A o \in Requests \ {r} :
               /\ request'[o].pc = request[o].pc /\ request'[o].user = request[o].user
               /\ request'[o].via = request[o].via
               /\ request[o].overtaken => request'[o].overtaken
               /\ request[o].user = u /\ request[o].pc \in {"signedIn", "registering", "firstCodes"} =>
                     request'[o].overtaken
    <3>1. /\ request'[r] = [IdleRequest EXCEPT !.pc = "suspending", !.user = u]
          /\ request[r].pc = "idle"
      BY <1>21 DEF SuspendUser, At, TInv, RequestsOK
    <3>2. ASSUME NEW o \in Requests \ {r}
          PROVE  request'[o] = IF /\ request[o].user = u
                                  /\ request[o].pc \in {"signedIn", "registering", "firstCodes"}
                               THEN [request[o] EXCEPT !.overtaken = TRUE] ELSE request[o]
      BY <1>21 DEF SuspendUser, Overtaking, TInv, RequestsOK
    <3>3. \A o \in Requests : request[o] \in Request
      BY DEF TInv, RequestsOK
    <3>4. request'[r].pc = "suspending" /\ request'[r].user = u
      BY <3>1 DEF IdleRequest
    <3>5. ASSUME NEW o \in Requests \ {r}
          PROVE  /\ request'[o].pc = request[o].pc /\ request'[o].user = request[o].user
                 /\ request'[o].via = request[o].via
                 /\ request[o].overtaken => request'[o].overtaken
                 /\ request[o].user = u
                       /\ request[o].pc \in {"signedIn", "registering", "firstCodes"} =>
                     request'[o].overtaken
      <4>1. request[o] \in Request
        BY <3>3
      <4>2. CASE /\ request[o].user = u
                 /\ request[o].pc \in {"signedIn", "registering", "firstCodes"}
        BY <3>2, <4>1, <4>2 DEF Request
      <4>3. CASE ~(/\ request[o].user = u
                   /\ request[o].pc \in {"signedIn", "registering", "firstCodes"})
        BY <3>2, <4>3
      <4>4. QED
        BY <4>2, <4>3
    <3>6. QED
      BY <3>1, <3>4, <3>5
  <2>2. /\ UNCHANGED <<sessions, excused>>
        /\ \A v \in Users \ {u} : user'[v] = user[v]
    BY <1>21 DEF SuspendUser, TInv, TablesOK
  <2>3. \A s \in sessions : s.user \in Users
    BY DEF TInv, TablesOK, Owned, Existing
  <2>4. SuspensionEndsSessions'
    BY <2>1, <2>2, <2>3 DEF SInv, SuspensionEndsSessions, At
  <2>5. ASSUME NEW o \in Requests, o # r
        PROVE  Cleared(request[o])'
    <3>1. Cleared(request[o]) /\ request[o].overtaken \in BOOLEAN /\ Filled(request[o])
      BY DEF SInv, TInv, RequestsOK, Request
    <3>2. QED
      BY <2>1, <2>2, <2>5, <3>1 DEF Cleared, Filled, Existing
  <2>6. QED
    BY <2>1, <2>4, <2>5 DEF SInv, Cleared
<1>22. ASSUME NEW r \in Requests, RevokeSessionsOfSuspended(r)
      PROVE  SInv'
  <2>1. /\ request'[r].pc = "idle" /\ UNCHANGED <<user, excused>>
        /\ \A o \in Requests \ {r} : request'[o] = request[o]
    BY <1>22 DEF RevokeSessionsOfSuspended, Leaves, IdleRequest, TInv, RequestsOK
  <2>2. \A s \in sessions' : s \in sessions /\ s.user # request[r].user
    BY <1>22 DEF RevokeSessionsOfSuspended, SessionsAfterSuspension, WithoutSessions
  <2>3. SuspensionEndsSessions'
    BY <2>1, <2>2 DEF SInv, SuspensionEndsSessions, At
  <2>4. \A o \in Requests : Cleared(request[o])'
    BY <2>1 DEF SInv, Cleared
  <2>5. QED
    BY <2>3, <2>4 DEF SInv
<1>23. ASSUME NEW r \in Requests, RequestDies(r)
      PROVE  SInv'
  <2>1. /\ request'[r].pc = "idle" /\ UNCHANGED <<user, sessions>>
        /\ \A o \in Requests \ {r} : request'[o] = request[o]
    BY <1>23 DEF RequestDies, Leaves, IdleRequest, TInv, RequestsOK
  <2>2. /\ excused \subseteq excused'
        /\ request[r].pc = "suspending" => <<request[r].user, "sessions">> \in excused'
    BY <1>23 DEF RequestDies, At
  <2>3. SuspensionEndsSessions'
    BY <2>1, <2>2 DEF SInv, SuspensionEndsSessions, At
  <2>4. \A o \in Requests : Cleared(request[o])'
    BY <2>1 DEF SInv, Cleared
  <2>5. QED
    BY <2>3, <2>4 DEF SInv
<1>24. ASSUME NEW u \in Users, NEW k \in Passkeys, InsertCredential(u, k)
      PROVE  SInv'
  BY <1>24, SuspensionStays DEF InsertCredential
<1>25. ASSUME NEW s \in sessions, RevokeSession(s)
      PROVE  SInv'
  BY <1>25, SuspensionStays DEF RevokeSession
<1>26. ASSUME NEW u \in Users, RevokeAllSessions(u)
      PROVE  SInv'
  BY <1>26, SuspensionStays DEF RevokeAllSessions, WithoutSessions
<1>27. ASSUME NEW u \in Users, RestoreUser(u)
      PROVE  SInv'
  <2>1. \A v \in Users : user'[v] = "suspended" => user[v] = "suspended"
    BY <1>27 DEF RestoreUser, TInv, TablesOK
  <2>2. UNCHANGED <<sessions, request, excused>>
    BY <1>27 DEF RestoreUser
  <2>3. QED
    BY <2>1, <2>2, SuspensionStays
<1>28. ASSUME NEW u \in Users, AssignRole(u)
      PROVE  SInv'
  BY <1>28, SuspensionStays DEF AssignRole
<1>29. ASSUME NEW u \in Users, RequestOrCancelDeletion(u)
      PROVE  SInv'
  <2>1. \A v \in Users : user'[v] = "suspended" => user[v] = "suspended"
    BY <1>29 DEF RequestOrCancelDeletion, TInv, TablesOK
  <2>2. UNCHANGED <<sessions, request, excused>>
    BY <1>29 DEF RequestOrCancelDeletion
  <2>3. QED
    BY <2>1, <2>2, SuspensionStays
<1>30. CASE UNCHANGED vars
  BY <1>30, SuspensionStays DEF vars
<1>31. QED
  BY <1>1, <1>2, <1>3, <1>4, <1>5, <1>6, <1>7, <1>8, <1>9, <1>10, <1>11, <1>12, <1>13, <1>14,
     <1>15, <1>16, <1>17, <1>18, <1>19, <1>20, <1>21, <1>22, <1>23, <1>24, <1>25, <1>26, <1>27,
     <1>28, <1>29, <1>30
  DEF Next, PasskeyStep, CodeStep, GoogleStep, AdminStep, OwnerStep

-----------------------------------------------------------------------------
(* The theorems *)

\* The tables and requests hold only values of their types: rows, sessions and
\* requests name users that exist.
THEOREM TypeCorrect == Spec => []TInv
<1>1. Init => TInv
  BY SignInAssumption
  DEF Init, TInv, TablesOK, RequestsOK, Owned, Filled, NoPasskey, NoLink, NoCode, IdleRequest, PasskeyRow, LinkRow, CodeRow, Request
<1>2. QED
  BY <1>1, TInvStep, PTL DEF Spec

THEOREM TypeCorrectness == Spec => []TypeOK
  BY TypeCorrect, TypeFromTInv, PTL

\* Whatever the interleaving of removals, disconnections and registrations, an
\* account is without a passkey and a Google link only where a request was
\* overtaken by a removal or killed in its registration.
THEOREM OnlyOverlapsLockOutHolds == Spec => []OnlyOverlapsLockOut
<1>1. Init => LInv
  BY DEF Init, LInv, OnlyOverlapsLockOut, Keeps, IdleRequest
<1>2. LInv => OnlyOverlapsLockOut
  BY DEF LInv
<1>3. QED
  BY <1>1, <1>2, TypeCorrect, LInvStep, PTL DEF Spec

\* A recovery code makes one session, for any number of codes, users and
\* overlapping requests.
THEOREM CodesAreSpentOnceHolds == Spec => []CodesAreSpentOnce
<1>1. Init => CInv
  BY DEF Init, CInv, CodesAreSpentOnce, Untouched, Spending, NoCode, IdleRequest
<1>2. CInv => CodesAreSpentOnce
  BY DEF CInv
<1>3. QED
  BY <1>1, <1>2, TypeCorrect, CInvStep, PTL DEF Spec

\* No session that a request made after reading a good status survives the
\* suspension of its user.
THEOREM SuspensionEndsSessionsHolds == Spec => []SuspensionEndsSessions
<1>1. Init => SInv
  BY DEF Init, SInv, SuspensionEndsSessions, Cleared, IdleRequest
<1>2. SInv => SuspensionEndsSessions
  BY DEF SInv
<1>3. QED
  BY <1>1, <1>2, TypeCorrect, SInvStep, PTL DEF Spec
=============================================================================
