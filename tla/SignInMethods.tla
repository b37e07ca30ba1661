---------------------------- MODULE SignInMethods ----------------------------
(***************************************************************************)
(* How a user signs in, and how an account keeps or loses the means to:    *)
(* passkeys, a linked Google identity, one-time recovery codes, sessions   *)
(* and the suspension of a user.                                           *)
(*                                                                         *)
(* Every request runs in a worker of its own without a transaction around  *)
(* it: what one statement read may be out of date when the next one        *)
(* writes.  Each action is one SQL statement, or a few between which       *)
(* nothing another request does can be told apart.                         *)
(***************************************************************************)
EXTENDS Naturals, FiniteSets

CONSTANTS
    Users,              \* ids of users, existing or to be registered
    Passkeys,           \* ids of passkey_credentials rows
    Subjects,           \* the "sub" claims of Google identities
    Links,              \* ids of oauth_accounts rows
    Codes,              \* ids of recovery_codes rows
    None,               \* no user, no passkey, ...
    Requests,           \* requests that may overlap
    CodeCount           \* CODE_COUNT

ASSUME SignInAssumption ==
    /\ None \notin Users \cup Passkeys \cup Subjects \cup Links \cup Codes
    /\ CodeCount \in Nat \ {0}

VARIABLES
    user,               \* user[u]: users.status, "none" without a row; "active" stands
                        \* for "pending_deletion" too, which no sign-in tells apart
    admins,             \* users with an active row in admin_role_assignments
    passkey,            \* passkey[k]: a row of passkey_credentials
    link,               \* link[l]: a row of oauth_accounts
    code,               \* code[c]: a row of recovery_codes
    sessions,           \* the live sessions, as far as the properties tell them apart
    request,            \* request[r]: a request
    redeemed,           \* history: sessions made by code c, overtaken requests aside
    excused             \* history: what overlapping or killed requests have broken

vars == <<user, admins, passkey, link, code, sessions, request,
          redeemed, excused>>

-----------------------------------------------------------------------------
(* Rows and requests *)

\* An id without a row is free for a new one, see Unheld; a removed passkey is
\* never read again and counts as without.
PasskeyRow == [status: {"none", "active"}, owner: Users \cup {None}]

\* idx_oauth_accounts_provider_subject and idx_oauth_accounts_user_provider are
\* the guards of CanLink.
LinkRow == [status: {"none", "linked"}, owner: Users \cup {None},
            subject: Subjects \cup {None}]

CodeRow == [status: {"none", "unused", "used"}, owner: Users \cup {None}]

\* checked: made by a request that read the user's status, and was not overtaken.
Session == [user: Users, checked: BOOLEAN]

\* overtaken (history): another request changed what this one has read and will
\* not read again.
Request ==
    [pc: {"idle", "login", "google", "signup", "creating", "linking", "inserting",
          "checking", "signedIn", "redeeming", "removing", "disconnecting",
          "regenerating", "registering", "firstCodes", "suspending"},
     user: Users \cup {None}, passkey: Passkeys \cup {None},
     subject: Subjects \cup {None}, link: Links \cup {None}, code: Codes \cup {None},
     via: {"passkey", "code", "google"}, overtaken: BOOLEAN]

\* The foreign keys on users.id: what is in the tables belongs to a user who is.
OwnersExist ==
    /\ \A k \in Passkeys : passkey[k].status # "none" => user[passkey[k].owner] # "none"
    /\ \A l \in Links : link[l].status # "none" => user[link[l].owner] # "none"
    /\ \A c \in Codes : code[c].status # "none" => user[code[c].owner] # "none"
    /\ \A s \in sessions : user[s.user] # "none"

TypeOK ==
    /\ user \in [Users -> {"none", "active", "suspended"}]
    /\ admins \subseteq Users
    /\ passkey \in [Passkeys -> PasskeyRow]
    /\ link \in [Links -> LinkRow]
    /\ code \in [Codes -> CodeRow]
    /\ sessions \subseteq Session
    /\ request \in [Requests -> Request]
    /\ redeemed \in [Codes -> Nat]
    /\ excused \subseteq Users \X {"methods", "sessions"}
    /\ OwnersExist

NoPasskey == [status |-> "none", owner |-> None]
NoLink == [status |-> "none", owner |-> None, subject |-> None]
NoCode == [status |-> "none", owner |-> None]

IdleRequest ==
    [pc |-> "idle", user |-> None, passkey |-> None, subject |-> None, link |-> None,
     code |-> None, via |-> "passkey", overtaken |-> FALSE]

At(r, pc) == request[r].pc = pc
Leaves(r) == request' = [request EXCEPT ![r] = IdleRequest]

\* The requests about user u that are at one of pcs have read what changes now.
Overtaking(u, pcs) ==
    [q \in Requests |->
        IF request[q].user = u /\ request[q].pc \in pcs
        THEN [request[q] EXCEPT !.overtaken = TRUE] ELSE request[q]]

ActivePasskeys(u) == {k \in Passkeys : passkey[k].status = "active" /\ passkey[k].owner = u}
LinkOf(u) == {l \in Links : link[l].status = "linked" /\ link[l].owner = u}
LinkBySubject(s) == {l \in Links : link[l].status = "linked" /\ link[l].subject = s}
UnusedCodes(u) == {c \in Codes : code[c].status = "unused" /\ code[c].owner = u}

\* No request remembers the row that had this id: a new row is told from the old.
Unheld(id) == \A r \in Requests : id \notin {request[r].passkey, request[r].link, request[r].code}

SignedIn(u) == \E s \in sessions : s.user = u

-----------------------------------------------------------------------------
(* Sessions *)

\* createSession, the last statement of every sign-in.
CreateSession(r) ==
    /\ At(r, "signedIn")
    /\ sessions' = sessions \cup
           {[user |-> request[r].user,
             checked |-> request[r].via # "code" /\ ~request[r].overtaken]}
    /\ redeemed' = IF request[r].via = "code" /\ ~request[r].overtaken
                   THEN [redeemed EXCEPT ![request[r].code] = @ + 1] ELSE redeemed
    /\ Leaves(r)
    /\ UNCHANGED <<user, admins, passkey, link, code, excused>>

\* One session ends: logout, a revocation by its owner, or its expiry.
RevokeSession(s) ==
    /\ sessions' = sessions \ {s}
    /\ UNCHANGED <<user, admins, passkey, link, code, request, redeemed, excused>>

WithoutSessions(u) == {s \in sessions : s.user # u}

\* "Sign out all sessions", by the user or an admin.
RevokeAllSessions(u) ==
    /\ SignedIn(u)
    /\ sessions' = WithoutSessions(u)
    /\ UNCHANGED <<user, admins, passkey, link, code, request, redeemed, excused>>

-----------------------------------------------------------------------------
(* Signing in with a passkey *)

\* login/finish: findActiveCredentialById, and the ceremony succeeds.
FindCredential(r, k) ==
    /\ At(r, "idle") /\ passkey[k].status = "active"
    /\ request' = [request EXCEPT ![r] = [IdleRequest EXCEPT
                       !.pc = "login", !.user = passkey[k].owner, !.via = "passkey"]]
    /\ UNCHANGED <<user, admins, passkey, link, code, sessions, redeemed, excused>>

MayLogIn(u) == user[u] \notin {"none", "suspended"}

\* login/finish: the user is read, and refused when suspended.
ReadUser(r) ==
    /\ At(r, "login")
    /\ IF MayLogIn(request[r].user)
       THEN request' = [request EXCEPT ![r].pc = "signedIn"]
       ELSE Leaves(r)
    /\ UNCHANGED <<user, admins, passkey, link, code, sessions, redeemed, excused>>

-----------------------------------------------------------------------------
(* Recovery codes *)

\* A faulty variant: a used code is found again.
RedeemableEvenUsed(c) == code[c].status \in {"unused", "used"}

Redeemable(c) == code[c].status = "unused"

\* redeemRecoveryCode: the SELECT by hash.
LookUpCode(r, c) ==
    /\ At(r, "idle") /\ Redeemable(c)
    /\ request' = [request EXCEPT ![r] = [IdleRequest EXCEPT
                       !.pc = "redeeming", !.user = code[c].owner, !.code = c, !.via = "code"]]
    /\ UNCHANGED <<user, admins, passkey, link, code, sessions, redeemed, excused>>

\* redeemRecoveryCode: used_at is set by id, whatever it is by now; the row may
\* have been deleted.  Other requests holding the code are overtaken.
MarkCodeUsed(r) ==
    LET c == request[r].code
    IN  /\ At(r, "redeeming")
        /\ code' = IF code[c].status = "none" THEN code
                   ELSE [code EXCEPT ![c].status = "used"]
        /\ request' =
               [q \in Requests |->
                   IF q = r THEN [request[r] EXCEPT !.pc = "signedIn"]
                   ELSE IF request[q].pc = "redeeming" /\ request[q].code = c
                        THEN [request[q] EXCEPT !.overtaken = TRUE] ELSE request[q]]
        /\ UNCHANGED <<user, admins, passkey, link, sessions, redeemed, excused>>

WithoutCodesOf(u) ==
    [c \in Codes |-> IF code[c].owner = u THEN NoCode ELSE code[c]]

\* generateRecoveryCodes, the DELETE: asked for by a signed-in user.
StartRegeneration(r, u) ==
    /\ At(r, "idle") /\ SignedIn(u)
    /\ code' = WithoutCodesOf(u)
    /\ request' = [request EXCEPT ![r] = [IdleRequest EXCEPT !.pc = "regenerating", !.user = u]]
    /\ UNCHANGED <<user, admins, passkey, link, sessions, redeemed, excused>>

\* generateRecoveryCodes, the INSERT.  A registration goes on to its session.
InsertCodes(r, new) ==
    LET u == request[r].user
    IN  /\ request[r].pc \in {"regenerating", "firstCodes"}
        /\ Cardinality(new) = CodeCount /\ \A c \in new : code[c].status = "none" /\ Unheld(c)
        /\ code' = [c \in Codes |-> IF c \in new THEN [status |-> "unused", owner |-> u]
                                    ELSE code[c]]
        /\ IF At(r, "firstCodes")
           THEN request' = [request EXCEPT ![r].pc = "signedIn"]
           ELSE Leaves(r)
        /\ redeemed' = [c \in Codes |-> IF c \in new THEN 0 ELSE redeemed[c]]
        /\ UNCHANGED <<user, admins, passkey, link, sessions, excused>>

-----------------------------------------------------------------------------
(* Passkeys *)

NewUser == "active"

\* register/finish: the users row.
InsertUser(r, u) ==
    /\ At(r, "idle") /\ user[u] = "none"
    /\ user' = [user EXCEPT ![u] = NewUser]
    /\ request' = [request EXCEPT ![r] = [IdleRequest EXCEPT
                       !.pc = "registering", !.user = u]]
    /\ UNCHANGED <<admins, passkey, link, code, sessions, redeemed, excused>>

\* register/finish: insertCredential and the DELETE of codes nobody has yet.
InsertFirstCredential(r, k) ==
    /\ At(r, "registering") /\ passkey[k].status = "none" /\ Unheld(k)
    /\ passkey' = [passkey EXCEPT ![k] = [status |-> "active", owner |-> request[r].user]]
    /\ request' = [request EXCEPT ![r].pc = "firstCodes"]
    /\ UNCHANGED <<user, admins, link, code, sessions, redeemed, excused>>

\* passkeys/finish: a signed-in user adds a passkey.
InsertCredential(u, k) ==
    /\ SignedIn(u) /\ passkey[k].status = "none" /\ Unheld(k)
    /\ passkey' = [passkey EXCEPT ![k] = [status |-> "active", owner |-> u]]
    /\ UNCHANGED <<user, admins, link, code, sessions, request, redeemed, excused>>

\* The count of active passkeys, and the roles when two are left.
MayRemove(u) ==
    /\ Cardinality(ActivePasskeys(u)) > 1
    /\ Cardinality(ActivePasskeys(u)) <= 2 => u \notin admins

\* removeCredential: the list of active passkeys and, if need be, the roles.
ListActiveCredentials(r, u, k) ==
    /\ At(r, "idle") /\ SignedIn(u)
    /\ MayRemove(u) /\ k \in ActivePasskeys(u)
    /\ request' = [request EXCEPT ![r] = [IdleRequest EXCEPT
                       !.pc = "removing", !.user = u, !.passkey = k]]
    /\ UNCHANGED <<user, admins, passkey, link, code, sessions, redeemed, excused>>

Excusing(r) ==
    IF request[r].overtaken THEN excused \cup {<<request[r].user, "methods">>} ELSE excused

\* removeCredential: removed_at is set, whatever else was removed meanwhile.
RemoveCredential(r) ==
    /\ At(r, "removing")
    /\ passkey' = [passkey EXCEPT ![request[r].passkey] = NoPasskey]
    /\ excused' = Excusing(r)
    /\ request' = [Overtaking(request[r].user, {"removing", "disconnecting"})
                      EXCEPT ![r] = IdleRequest]
    /\ UNCHANGED <<user, admins, link, code, sessions, redeemed>>

-----------------------------------------------------------------------------
(* Google *)

\* google/begin or google/link/begin, and the callback for the one-time state it
\* issued: consumeOAuthIntent is one conditional UPDATE, so that a state starts at
\* most one request, and there are as many states as are asked for.  The intent to
\* link belongs to a user, who must be signed in.
ConsumeOAuthIntent(r, action, u, s) ==
    /\ At(r, "idle")
    /\ IF action = "linking" THEN u \in Users /\ SignedIn(u) ELSE u = None
    /\ request' = [request EXCEPT ![r] = [IdleRequest EXCEPT
                       !.pc = action, !.user = u, !.subject = s, !.via = "google"]]
    /\ UNCHANGED <<user, admins, passkey, link, code, sessions, redeemed, excused>>

\* resolveGoogleSignIn, findGoogleAccountBySubject; "not_linked" without a row.
FindGoogleAccount(r) ==
    LET found == LinkBySubject(request[r].subject)
    IN  /\ At(r, "google")
        /\ IF found = {} THEN Leaves(r)
           ELSE request' = [request EXCEPT ![r].pc = "checking", ![r].subject = None,
                                           ![r].user = link[CHOOSE l \in found : TRUE].owner]
        /\ UNCHANGED <<user, admins, passkey, link, code, sessions, redeemed, excused>>

MayUseGoogle(u) == MayLogIn(u) /\ u \notin admins

\* resolveGoogleSignIn: the user's status and roles.
CheckGoogleUser(r) ==
    /\ At(r, "checking")
    /\ IF MayUseGoogle(request[r].user)
       THEN request' = [request EXCEPT ![r].pc = "signedIn"]
       ELSE Leaves(r)
    /\ UNCHANGED <<user, admins, passkey, link, code, sessions, redeemed, excused>>

\* Both unique indexes of oauth_accounts.
CanLink(u, s) == LinkBySubject(s) = {} /\ LinkOf(u) = {}

Linked(l, u, s) == [link EXCEPT ![l] = [status |-> "linked", owner |-> u, subject |-> s]]

\* resolveOrCreateGoogleSignUp: an account that exists is signed in to.
LookForAccount(r) ==
    /\ At(r, "signup")
    /\ request' = [request EXCEPT ![r].pc =
                       IF LinkBySubject(request[r].subject) # {} THEN "google" ELSE "creating"]
    /\ UNCHANGED <<user, admins, passkey, link, code, sessions, redeemed, excused>>

\* resolveOrCreateGoogleSignUp: the batch inserts both rows or, when the index
\* refuses the second, neither; then the account of the winner is signed in to.
CreateAccount(r, u, l) ==
    /\ At(r, "creating")
    /\ IF LinkBySubject(request[r].subject) = {}
       THEN /\ user[u] = "none" /\ link[l].status = "none" /\ Unheld(l)
            /\ user' = [user EXCEPT ![u] = NewUser]
            /\ link' = Linked(l, u, request[r].subject)
            /\ request' = [request EXCEPT ![r].pc = "signedIn", ![r].user = u,
                                           ![r].subject = None]
       ELSE /\ request' = [request EXCEPT ![r].pc = "google"]
            /\ UNCHANGED <<user, link>>
    /\ UNCHANGED <<admins, passkey, code, sessions, redeemed, excused>>

\* linkGoogleAccount, the SELECTs: refused for an admin and for an identity or
\* a user that is linked already.
CheckLink(r) ==
    /\ At(r, "linking")
    /\ IF request[r].user \notin admins /\ CanLink(request[r].user, request[r].subject)
       THEN request' = [request EXCEPT ![r].pc = "inserting"]
       ELSE Leaves(r)
    /\ UNCHANGED <<user, admins, passkey, link, code, sessions, redeemed, excused>>

\* linkGoogleAccount, the INSERT, which the indexes may refuse.
InsertLink(r, l) ==
    LET u == request[r].user
        s == request[r].subject
    IN  /\ At(r, "inserting") /\ link[l].status = "none" /\ Unheld(l)
        /\ link' = IF CanLink(u, s) THEN Linked(l, u, s) ELSE link
        /\ Leaves(r)
        /\ UNCHANGED <<user, admins, passkey, code, sessions, redeemed, excused>>

\* A faulty variant: recovery codes are counted as a way to sign in.
CodesKeepAccess(u) == ActivePasskeys(u) # {} \/ UnusedCodes(u) # {}

MayDisconnect(u) == ActivePasskeys(u) # {}

\* disconnectGoogleAccount: the link and the passkeys are read.
StartDisconnect(r, u, l) ==
    /\ At(r, "idle") /\ SignedIn(u)
    /\ l \in LinkOf(u) /\ MayDisconnect(u)
    /\ request' = [request EXCEPT ![r] = [IdleRequest EXCEPT
                       !.pc = "disconnecting", !.user = u, !.link = l]]
    /\ UNCHANGED <<user, admins, passkey, link, code, sessions, redeemed, excused>>

\* disconnectGoogleAccount: the DELETE by id.
DeleteLink(r) ==
    /\ At(r, "disconnecting")
    /\ link' = [link EXCEPT ![request[r].link] = NoLink]
    /\ excused' = Excusing(r)
    /\ Leaves(r)
    /\ UNCHANGED <<user, admins, passkey, code, sessions, redeemed>>

-----------------------------------------------------------------------------
(* Administration and the account *)

\* suspendUser: the status, read by nobody who is already past it.
SuspendUser(r, u) ==
    /\ At(r, "idle") /\ user[u] # "none"
    /\ user' = [user EXCEPT ![u] = "suspended"]
    /\ request' = [Overtaking(u, {"signedIn", "registering", "firstCodes"}) EXCEPT ![r] =
                       [IdleRequest EXCEPT !.pc = "suspending", !.user = u]]
    /\ UNCHANGED <<admins, passkey, link, code, sessions, redeemed, excused>>

\* A faulty variant: the sessions are left alone.
SessionsAfterAll(u) == sessions

SessionsAfterSuspension(u) == WithoutSessions(u)

\* suspendUser: the sessions.
RevokeSessionsOfSuspended(r) ==
    /\ At(r, "suspending")
    /\ sessions' = SessionsAfterSuspension(request[r].user)
    /\ Leaves(r)
    /\ UNCHANGED <<user, admins, passkey, link, code, redeemed, excused>>

RestoreUser(u) ==
    /\ user[u] # "none"
    /\ user' = [user EXCEPT ![u] = "active"]
    /\ UNCHANGED <<admins, passkey, link, code, sessions, request, redeemed, excused>>

\* requestAccountDeletion and cancelAccountDeletion write the status of a
\* signed-in user, whatever it is.
RequestOrCancelDeletion(u) ==
    /\ SignedIn(u)
    /\ user' = [user EXCEPT ![u] = "active"]
    /\ UNCHANGED <<admins, passkey, link, code, sessions, request, redeemed, excused>>

\* A role is assigned (by SQL: no endpoint does).
AssignRole(u) ==
    /\ user[u] # "none" /\ u \notin admins
    /\ admins' = admins \cup {u}
    /\ UNCHANGED <<user, passkey, link, code, sessions, request, redeemed, excused>>

\* The invocation is killed.  A registration may leave a user without a method.
RequestDies(r) ==
    /\ ~At(r, "idle")
    /\ excused' = CASE At(r, "registering") -> excused \cup {<<request[r].user, "methods">>}
                    [] At(r, "suspending") -> excused \cup {<<request[r].user, "sessions">>}
                    [] OTHER -> excused
    /\ Leaves(r)
    /\ UNCHANGED <<user, admins, passkey, link, code, sessions, redeemed>>

-----------------------------------------------------------------------------
(* The specification *)

Init ==
    /\ user = [u \in Users |-> "none"] /\ admins = {}
    /\ passkey = [k \in Passkeys |-> NoPasskey]
    /\ link = [l \in Links |-> NoLink]
    /\ code = [c \in Codes |-> NoCode]
    /\ sessions = {} /\ request = [r \in Requests |-> IdleRequest]
    /\ redeemed = [c \in Codes |-> 0] /\ excused = {}

PasskeyStep(r) ==
    \/ \E k \in Passkeys : FindCredential(r, k) \/ InsertFirstCredential(r, k)
    \/ \E u \in Users : InsertUser(r, u)
    \/ \E u \in Users, k \in Passkeys : ListActiveCredentials(r, u, k)
    \/ ReadUser(r) \/ RemoveCredential(r) \/ CreateSession(r)

CodeStep(r) ==
    \/ \E c \in Codes : LookUpCode(r, c)
    \/ MarkCodeUsed(r)
    \/ \E u \in Users : StartRegeneration(r, u)
    \/ \E new \in SUBSET Codes : InsertCodes(r, new)

GoogleStep(r) ==
    \/ \E a \in {"google", "signup", "linking"}, u \in Users \cup {None}, s \in Subjects :
           ConsumeOAuthIntent(r, a, u, s)
    \/ FindGoogleAccount(r) \/ CheckGoogleUser(r) \/ LookForAccount(r) \/ CheckLink(r)
    \/ \E u \in Users, l \in Links : CreateAccount(r, u, l) \/ StartDisconnect(r, u, l)
    \/ \E l \in Links : InsertLink(r, l)
    \/ DeleteLink(r)

AdminStep(r) ==
    \/ \E u \in Users : SuspendUser(r, u)
    \/ RevokeSessionsOfSuspended(r)
    \/ RequestDies(r)

OwnerStep ==
    \/ \E u \in Users, k \in Passkeys : InsertCredential(u, k)
    \/ \E s \in sessions : RevokeSession(s)
    \/ \E u \in Users : \/ RevokeAllSessions(u) \/ RestoreUser(u) \/ AssignRole(u)
                         \/ RequestOrCancelDeletion(u)

Next ==
    \/ \E r \in Requests : PasskeyStep(r) \/ CodeStep(r) \/ GoogleStep(r) \/ AdminStep(r)
    \/ OwnerStep

Spec == Init /\ [][Next]_vars

-----------------------------------------------------------------------------
(* Properties *)

HasMethod(u) == ActivePasskeys(u) # {} \/ LinkOf(u) # {}

\* No account is left without a passkey and without a Google link (recovery
\* codes are a backstop, not a method), except by a removal or a disconnection
\* that another removal has overtaken, or by a registration killed, or still
\* running, between its first two statements.
OnlyOverlapsLockOut ==
    \A u \in Users :
        user[u] # "none" /\ ~HasMethod(u) =>
            \/ <<u, "methods">> \in excused
            \/ \E r \in Requests : At(r, "registering") /\ request[r].user = u

\* A recovery code makes one session.  Requests that looked it up before another
\* marked it used are the exception: the UPDATE does not look again.
CodesAreSpentOnce == \A c \in Codes : redeemed[c] <= 1

\* Once suspendUser has returned, a suspended user has no session but those of
\* requests that had read the status before, and of recovery codes, which do
\* not read it.
SuspensionEndsSessions ==
    \A s \in sessions :
        user[s.user] = "suspended" =>
            \/ ~s.checked
            \/ <<s.user, "sessions">> \in excused
            \/ \E r \in Requests : At(r, "suspending") /\ request[r].user = s.user

=============================================================================
