------------------------------ MODULE Accounts ------------------------------
(***************************************************************************)
(* Accounts, sessions, bans and ban reviews: AuthService, AdminService and *)
(* the repositories under them. A request is a process whose SQL           *)
(* statements are separate steps without a transaction. userRepo.Update    *)
(* writes every column of a row that was read earlier, BanUser and its     *)
(* like write single columns; the two meet here.                           *)
(***************************************************************************)
EXTENDS Naturals, FiniteSets

CONSTANTS
    Users,        \* the accounts, registered or to be
    Nobody,
    Procs,        \* the requests that can be in flight at once
    Updates,      \* the bodies of PUT /admin/users/:id
    ReviewLimit,  \* reviews an account may ask for (3 in the code)
    MaxRequests,  \* bound: requests started
    MaxFaults     \* bound: requests cut short

Roles == {"root", "admin", "moderator", "user"}
Answer == {"", "yes", "no"}

ASSUME AccountAssumption ==
    /\ Updates \subseteq [role : {"", "admin", "moderator", "user"}, active : Answer, ban : Answer]
    /\ Nobody \notin Users
    /\ ReviewLimit \in Nat /\ MaxRequests \in Nat /\ MaxFaults \in Nat

VARIABLES
    user,      \* user[u]: the row of u
    sessions,  \* the rows of the sessions table
    reviews,   \* the rows of ban_reviews
    resets,    \* the unused rows of password_resets, as <<user, number>>
    claims,    \* claims[u]: the roles that access tokens of u may say
    req,       \* req[p]: the request p is executing
    stale,     \* history: users whose row was overwritten with an older reading
    late,      \* history: users whose sessions were ended, or one of them rotated,
               \* while another of their requests was about to open one
    postBan,   \* history: users whose review was stored for a ban that was over
    started, faults

history == <<stale, late, postBan>>
vars == <<user, sessions, reviews, resets, claims, req, history, started, faults>>

\* Columns: the role; is_active; which ban is in force (0: none) for is_banned
\* and ban_reason; which request set the password. "none": not registered.
Account == [role : Roles \cup {"none"}, active : BOOLEAN,
            ban : 0..(MaxRequests + 1), pw : 0..MaxRequests]
Session == [user : Users, login : 0..MaxRequests, id : 0..MaxRequests, pw : 0..MaxRequests]
Review == [user : Users, ban : 0..(MaxRequests + 1), status : {"pending", "approved", "denied"},
           id : 0..MaxRequests]

NoUpdate == [role |-> "", active |-> "", ban |-> ""]
Idle == [op |-> "none", at |-> "idle", on |-> Nobody, by |-> "", upd |-> NoUpdate,
         ref |-> 0, saw |-> {}, row |-> {}, n |-> 0]

Roots == {u \in Users : user[u].role = "root"}
ReviewsOf(u) == {r \in reviews : r.user = u}
SessionsOf(u) == {s \in sessions : s.user = u}
Admitted(u) == user[u].role # "none" /\ user[u].ban = 0 /\ user[u].active

AccountTypeOK ==
    /\ user \in [Users -> Account]
    /\ sessions \subseteq Session /\ reviews \subseteq Review
    /\ resets \subseteq Users \X (0..MaxRequests)
    /\ claims \in [Users -> SUBSET Roles]
    /\ \A p \in Procs : req[p].on \in Users \cup {Nobody} /\ req[p].n \in 0..started
    /\ stale \subseteq Users /\ late \subseteq Users /\ postBan \subseteq Users
    /\ started \in 0..MaxRequests /\ faults \in 0..MaxFaults

\* A root, and others of any role, some of them banned, one login each.
AccountInit ==
    /\ user \in [Users -> {[role |-> r, active |-> a, ban |-> b, pw |-> 0] :
                              r \in {"root", "user", "none"}, a \in BOOLEAN, b \in 0..1}]
    /\ Roots # {}
    /\ \A u \in Users : /\ user[u].active = (user[u].role # "none" /\ user[u].ban = 0)
                        /\ user[u].ban = 1 => user[u].role = "user"
    /\ sessions = {[user |-> u, login |-> 0, id |-> 0, pw |-> 0] : u \in {v \in Users : Admitted(v)}}
    /\ reviews = {} /\ resets = {}
    /\ claims = [u \in Users |-> {user[u].role} \ {"none"}]
    /\ req = [p \in Procs |-> Idle]
    /\ stale = {} /\ late = {} /\ postBan = {}
    /\ started = 0 /\ faults = 0

-----------------------------------------------------------------------------
\* Requests. A caller is admitted by the middleware once, at the start: the
\* row is read, the role is the token's.

Caller(by, claim) == Admitted(by) /\ claim \in claims[by]

Begin(p, op, at, on, by, upd, ref, saw) ==
    /\ req[p] = Idle /\ started < MaxRequests
    /\ started' = started + 1
    /\ req' = [req EXCEPT ![p] = [op |-> op, at |-> at, on |-> on, by |-> by, upd |-> upd,
                                  ref |-> ref, saw |-> saw, row |-> {}, n |-> started + 1]]
    /\ UNCHANGED <<user, sessions, reviews, resets, claims, history, faults>>

\* UpdateUser does its parts in this order.
BanPart(upd) == IF upd.ban # "" THEN "ban" ELSE "end"
ActivePart(upd) == IF upd.active # "" THEN "active" ELSE BanPart(upd)
RolePart(upd) == IF upd.role # "" THEN "role" ELSE ActivePart(upd)

\* Nobody changes their own row; only root and admin change roles and bans.
\* A body that asks for nothing is a request without a statement.
StartUpdateUser(p) ==
    \E by, on \in Users, claim \in {"root", "admin", "moderator"}, upd \in Updates :
        /\ Caller(by, claim) /\ by # on
        /\ user[on].role # "none" /\ RolePart(upd) # "end"
        /\ upd.role # "" => claim # "moderator"
        /\ Begin(p, "update", RolePart(upd), on, claim, upd, 0, {})

\* ReviewBan: the review is read and must be pending.
StartReviewBan(p) ==
    \E by \in Users, claim \in {"root", "admin", "moderator"}, r \in reviews, ok \in {"yes", "no"} :
        /\ Caller(by, claim) /\ r.status = "pending"
        /\ Begin(p, "review", "decide", r.user, claim, [NoUpdate EXCEPT !.ban = ok], r.id, {})

\* RequestBanReview, by login and password: the row must be banned.
StartRequestReview(p) ==
    \E u \in Users :
        /\ user[u].ban # 0
        /\ Begin(p, "ask", "pending", u, "", NoUpdate, user[u].ban, {})

StartSignup(p) ==
    \E u \in Users : user[u].role = "none" /\ Begin(p, "signup", "register", u, "", NoUpdate, 0, {})

StartLogin(p) ==
    \E u \in Users : user[u].role # "none" /\ Begin(p, "login", "check", u, "", NoUpdate, 0, {})

\* Refresh: the session is looked up by the token.
StartRefresh(p) ==
    \E s \in sessions : Begin(p, "refresh", "load", s.user, "", NoUpdate, 0, {s})

StartLogout(p) ==
    \E u \in Users : Admitted(u) /\ Begin(p, "logout", "endSessions", u, "", NoUpdate, 0, {})

StartForgot(p) ==
    \E u \in Users : user[u].role # "none" /\ Begin(p, "forgot", "invalidate", u, "", NoUpdate, 0, {})

\* ResetPassword: the token is looked up and must be unused and young enough.
StartReset(p) ==
    \E t \in resets : Begin(p, "reset", "load", t[1], "", NoUpdate, t[2], {})

StartProfile(p) ==
    \E u \in Users : Admitted(u) /\ Begin(p, "profile", "load", u, "", NoUpdate, 0, {})

StartPassword(p) ==
    \E u \in Users : Admitted(u) /\ Begin(p, "password", "load", u, "", NoUpdate, 0, {})

Start(p) ==
    \/ StartUpdateUser(p) \/ StartReviewBan(p) \/ StartRequestReview(p) \/ StartSignup(p)
    \/ StartLogin(p) \/ StartRefresh(p) \/ StartLogout(p) \/ StartForgot(p)
    \/ StartReset(p) \/ StartProfile(p) \/ StartPassword(p)

-----------------------------------------------------------------------------
\* The next statement of p, or its end.
Goto(p, at) == req' = [req EXCEPT ![p] = IF at = "end" THEN Idle ELSE [@ EXCEPT !.at = at]]
Rest == UNCHANGED <<started, faults>>

\* The statements whose errors are ignored, and what follows them.
Ignored == {"rotate", "invalidate", "markUsed", "endSessions", "endSessionsFirst", "dropReviews"}
Ahead(r) ==
    CASE r.at = "rotate" -> "open"
      [] r.at = "invalidate" -> "issue"
      [] r.at = "markUsed" -> "endSessions"
      [] r.at = "endSessionsFirst" -> BanPart(r.upd)
      [] OTHER -> "end"

\* Plausible mistakes in the code below; the specification uses none of them.
CountRootsOffByOne(p) ==
    /\ req[p].at = "count"
    /\ IF Cardinality(Roots) < 1 THEN Goto(p, "end")
       ELSE req' = [req EXCEPT ![p].at = "write", ![p].saw = Roots]
    /\ UNCHANGED <<user, sessions, reviews, resets, claims, history>> /\ Rest

\* The whole row as read, without the two columns a ban changes.
WithColumnsForgetsBan(row, r) ==
    [row EXCEPT !.role = IF r.op = "update" THEN r.upd.role ELSE @,
                !.pw = IF r.op \in {"password", "reset"} THEN r.n ELSE @,
                !.ban = 0]

\* Every write of a row also stores the role of the request, which is empty
\* when the request is about something else.
WithColumnsAnyRole(row, r) ==
    [row EXCEPT !.role = r.upd.role, !.pw = IF r.op \in {"password", "reset"} THEN r.n ELSE @]

\* One attempt too many is let through.
CountReviewsOffByOne(p) ==
    /\ req[p].at = "countReviews"
    /\ Goto(p, IF Cardinality(ReviewsOf(req[p].on)) > ReviewLimit THEN "end" ELSE "ask")
    /\ UNCHANGED <<user, sessions, reviews, resets, claims, history>> /\ Rest

\* The rotation issues a new session and forgets the old one.
DropOldKeeps(p) ==
    /\ req[p].at = "rotate"
    /\ Goto(p, "open")
    /\ UNCHANGED <<user, sessions, reviews, resets, claims, history>> /\ Rest

\* A ban is lifted and its reviews stay.
AfterBanKeepsReviews(r) ==
    CASE r.upd.ban = "yes" -> "endSessions" [] OTHER -> "end"

\* A password is changed and the sessions stay.
AfterWriteKeepsSessions(r) ==
    CASE r.op = "update" -> ActivePart(r.upd) [] r.op = "reset" -> "markUsed" [] OTHER -> "end"

-----------------------------------------------------------------------------
\* Whole-row writes.

\* GetByID, and the checks on the row before it is changed in memory.
LoadRow(p) ==
    LET r == req[p]
        row == user[r.on]
        refused == r.op = "update" /\ row.role = "root" /\ r.by # "root"
    IN  /\ r.at \in {"load", "role"}
        /\ IF refused THEN Goto(p, "end")
           ELSE req' = [req EXCEPT ![p].row = {row},
                                   ![p].at = CASE r.op = "refresh" -> "rotate"
                                               [] r.op = "update" /\ row.role = "root" -> "count"
                                               [] OTHER -> "write"]
        /\ UNCHANGED <<user, sessions, reviews, resets, claims, history>> /\ Rest

\* CountByRole: the last root is not demoted.
CountRoots(p) ==
    /\ req[p].at = "count"
    /\ IF Cardinality(Roots) <= 1 THEN Goto(p, "end")
       ELSE req' = [req EXCEPT ![p].at = "write", ![p].saw = Roots]
    /\ UNCHANGED <<user, sessions, reviews, resets, claims, history>> /\ Rest

\* The row as read, with the columns this request is about.
WithColumns(row, r) ==
    [row EXCEPT !.role = IF r.op = "update" THEN r.upd.role ELSE @,
                !.pw = IF r.op \in {"password", "reset"} THEN r.n ELSE @]

\* A new password ends the sessions, a reset spends its token first.
AfterWrite(r) ==
    CASE r.op = "update" -> ActivePart(r.upd)
      [] r.op = "reset" -> "markUsed"
      [] r.op = "password" -> "endSessions"
      [] OTHER -> "end"

\* userRepo.Update.
WriteRow(p) ==
    LET r == req[p]
        row == CHOOSE x \in r.row : TRUE
    IN  /\ r.at = "write"
        /\ user' = [user EXCEPT ![r.on] = WithColumns(row, r)]
        /\ stale' = IF user[r.on] # row THEN stale \cup {r.on} ELSE stale
        /\ Goto(p, AfterWrite(r))
        /\ UNCHANGED <<sessions, reviews, resets, claims, late, postBan>> /\ Rest

\* ForgotPassword: the unused tokens are spent, then a new one is stored.
InvalidateResets(p) ==
    /\ req[p].at = "invalidate"
    /\ resets' = {t \in resets : t[1] # req[p].on}
    /\ Goto(p, Ahead(req[p]))
    /\ UNCHANGED <<user, sessions, reviews, claims, history>> /\ Rest

IssueReset(p) ==
    /\ req[p].at = "issue"
    /\ resets' = resets \cup {<<req[p].on, req[p].n>>}
    /\ Goto(p, "end")
    /\ UNCHANGED <<user, sessions, reviews, claims, history>> /\ Rest

MarkUsed(p) ==
    /\ req[p].at = "markUsed"
    /\ resets' = resets \ {<<req[p].on, req[p].ref>>}
    /\ Goto(p, Ahead(req[p]))
    /\ UNCHANGED <<user, sessions, reviews, claims, history>> /\ Rest

-----------------------------------------------------------------------------
\* Single columns: activity and bans.

\* The row is read again for each part and nobody below root touches a root;
\* a moderator touches no admin, and a root is never banned.
CheckPart(p) ==
    LET r == req[p]
        role == user[r.on].role
    IN  /\ r.at \in {"active", "ban"}
        /\ Goto(p, IF \/ r.at = "active" /\ role = "root" /\ r.by # "root"
                      \/ r.at = "active" /\ role = "admin" /\ r.by = "moderator"
                      \/ r.at = "ban" /\ (role = "root" \/ r.by = "moderator")
                   THEN "end" ELSE IF r.at = "active" THEN "setActive" ELSE "setBan")
        /\ UNCHANGED <<user, sessions, reviews, resets, claims, history>> /\ Rest

\* ReactivateUser or DeactivateUser.
SetActive(p) ==
    LET r == req[p]
        on == r.upd.active = "yes"
    IN  /\ r.at = "setActive"
        /\ user' = [user EXCEPT ![r.on].active = on]
        /\ Goto(p, IF on THEN BanPart(r.upd) ELSE "endSessionsFirst")
        /\ UNCHANGED <<sessions, reviews, resets, claims, stale, late, postBan>> /\ Rest

\* After a ban the sessions go, after an unban the reviews.
AfterBan(r) == IF r.op = "update" /\ r.upd.ban = "yes" THEN "endSessions" ELSE "dropReviews"

\* BanUser or UnbanUser: both also write is_active. Banning a banned account
\* goes on with the ban in force.
SetBan(p) ==
    LET r == req[p]
        banned == r.op = "update" /\ r.upd.ban = "yes"
        Set(row) == [row EXCEPT !.ban = IF ~banned THEN 0 ELSE IF @ = 0 THEN r.n + 1 ELSE @,
                                !.active = ~banned]
    IN  /\ r.at = "setBan"
        /\ user' = [user EXCEPT ![r.on] = Set(@)]
        /\ Goto(p, AfterBan(r))
        /\ UNCHANGED <<sessions, reviews, resets, claims, stale, late, postBan>> /\ Rest

\* DeleteByUser on ban_reviews.
DropReviews(p) ==
    /\ req[p].at = "dropReviews"
    /\ reviews' = reviews \ ReviewsOf(req[p].on)
    /\ Goto(p, Ahead(req[p]))
    /\ UNCHANGED <<user, sessions, resets, claims, history>> /\ Rest

\* ReviewBan's UPDATE; an approval goes on to lift the ban.
Decide(p) ==
    LET r == req[p]
        status == IF r.upd.ban = "yes" THEN "approved" ELSE "denied"
    IN  /\ r.at = "decide"
        /\ reviews' = {IF x.user = r.on /\ x.id = r.ref THEN [x EXCEPT !.status = status] ELSE x :
                          x \in reviews}
        /\ Goto(p, IF status = "approved" THEN "setBan" ELSE "end")
        /\ UNCHANGED <<user, sessions, resets, claims, history>> /\ Rest

\* RequestBanReview: no pending one, not too many, then the INSERT.
CheckPending(p) ==
    /\ req[p].at = "pending"
    /\ IF \E x \in ReviewsOf(req[p].on) : x.status = "pending" THEN Goto(p, "end")
       ELSE req' = [req EXCEPT ![p].at = "countReviews", ![p].saw = ReviewsOf(req[p].on)]
    /\ UNCHANGED <<user, sessions, reviews, resets, claims, history>> /\ Rest

CountReviews(p) ==
    /\ req[p].at = "countReviews"
    /\ Goto(p, IF Cardinality(ReviewsOf(req[p].on)) >= ReviewLimit THEN "end" ELSE "ask")
    /\ UNCHANGED <<user, sessions, reviews, resets, claims, history>> /\ Rest

Ask(p) ==
    LET r == req[p] IN
    /\ r.at = "ask"
    /\ reviews' = reviews \cup {[user |-> r.on, ban |-> r.ref, status |-> "pending", id |-> r.n]}
    /\ postBan' = IF user[r.on].ban # r.ref THEN postBan \cup {r.on} ELSE postBan
    /\ Goto(p, "end")
    /\ UNCHANGED <<user, sessions, resets, claims, stale, late>> /\ Rest

-----------------------------------------------------------------------------
\* Sessions.

\* Signup: the INSERT fails when the name or the address is taken.
Register(p) ==
    LET r == req[p]
        row == [role |-> "user", active |-> TRUE, ban |-> 0, pw |-> 0]
    IN  /\ r.at = "register"
        /\ \/ /\ user[r.on].role = "none"
              /\ user' = [user EXCEPT ![r.on] = row]
              /\ req' = [req EXCEPT ![p].at = "open", ![p].row = {row}]
           \/ /\ user[r.on].role # "none"
              /\ Goto(p, "end") /\ UNCHANGED user
        /\ UNCHANGED <<sessions, reviews, resets, claims, stale, late, postBan>> /\ Rest

\* Login: password, ban and activity are checked on one reading of the row.
CheckLogin(p) ==
    /\ req[p].at = "check"
    /\ IF Admitted(req[p].on)
       THEN req' = [req EXCEPT ![p].at = "open", ![p].row = {user[req[p].on]}]
       ELSE Goto(p, "end")
    /\ UNCHANGED <<user, sessions, reviews, resets, claims, history>> /\ Rest

\* Refresh deletes the session it found; how many rows that hits is not asked.
DropOld(p) ==
    /\ req[p].at = "rotate"
    /\ sessions' = sessions \ req[p].saw
    /\ late' = IF req[p].saw \subseteq sessions THEN late ELSE late \cup {req[p].on}
    /\ Goto(p, Ahead(req[p]))
    /\ UNCHANGED <<user, reviews, resets, claims, stale, postBan>> /\ Rest

\* createSession: the role in the access token is that of the row read before.
OpenSession(p) ==
    LET r == req[p]
        row == CHOOSE x \in r.row : TRUE
        old == CHOOSE s \in r.saw : TRUE
        new == IF r.op = "refresh" THEN [old EXCEPT !.id = r.n]
               ELSE [user |-> r.on, login |-> r.n, id |-> r.n, pw |-> row.pw]
    IN  /\ r.at = "open"
        /\ sessions' = sessions \cup {new}
        /\ claims' = [claims EXCEPT ![r.on] = @ \cup {row.role}]
        /\ late' = IF user[r.on] # row THEN late \cup {r.on} ELSE late
        /\ Goto(p, "end")
        /\ UNCHANGED <<user, reviews, resets, stale, postBan>> /\ Rest

\* DeleteByUserID.
EndSessions(p) ==
    LET r == req[p] IN
    /\ r.at \in {"endSessions", "endSessionsFirst"}
    /\ sessions' = sessions \ SessionsOf(r.on)
    /\ late' = IF \E q \in Procs : req[q].on = r.on /\ req[q].op \in {"signup", "login", "refresh"}
               THEN late \cup {r.on} ELSE late
    /\ Goto(p, Ahead(r))
    /\ UNCHANGED <<user, reviews, resets, claims, stale, postBan>> /\ Rest

Statement(p) ==
    \/ LoadRow(p) \/ CountRoots(p) \/ WriteRow(p)
    \/ InvalidateResets(p) \/ IssueReset(p) \/ MarkUsed(p)
    \/ CheckPart(p) \/ SetActive(p) \/ SetBan(p) \/ DropReviews(p) \/ Decide(p)
    \/ CheckPending(p) \/ CountReviews(p) \/ Ask(p)
    \/ Register(p) \/ CheckLogin(p) \/ DropOld(p) \/ OpenSession(p) \/ EndSessions(p)

\* A statement fails or the process ends: what the request wrote stays.
Abort(p) ==
    /\ faults < MaxFaults
    /\ req[p] # Idle
    /\ faults' = faults + 1
    /\ Goto(p, "end")
    /\ UNCHANGED <<user, sessions, reviews, resets, claims, history, started>>

\* A DELETE or UPDATE fails whose error the code ignores: the request goes on.
Ignore(p) ==
    /\ faults < MaxFaults
    /\ req[p].at \in Ignored
    /\ faults' = faults + 1
    /\ Goto(p, Ahead(req[p]))
    /\ UNCHANGED <<user, sessions, reviews, resets, claims, history, started>>

AccountNext == \E p \in Procs : Start(p) \/ Statement(p) \/ Abort(p) \/ Ignore(p)

AccountSpec == AccountInit /\ [][AccountNext]_vars

-----------------------------------------------------------------------------
\* The last root loses the role only through a request that saw another set of
\* roots than there is when it writes (admin_service.go:120-132).
LastRootKept ==
    [][Roots # {} /\ Roots' = {} =>
        \E p \in Procs : req[p].at = "write" /\ req[p].saw # Roots]_vars

\* A ban ends by an unban or an approval, or is overwritten by a request that
\* read the row before the ban was stored (auth_service.go:271, user_repo.go:88).
BanHolds ==
    [][\A u \in Users : user[u].ban # 0 /\ user'[u].ban # user[u].ban =>
        \E p \in Procs : /\ req[p].on = u
                         /\ \/ req[p].at = "setBan"
                            \/ /\ req[p].at = "write"
                               /\ \A row \in req[p].row : row.ban # user[u].ban]_vars

\* The review attempts of an account belong to the ban in force, so that a new
\* ban comes with fresh attempts (admin_service.go:245), unless the attempt was
\* stored after its ban had ended or a stale row or a fault came in between.
ReviewsOfThisBan ==
    \A r \in reviews :
        \/ r.ban = user[r.user].ban
        \/ r.user \in stale \cup postBan \/ faults > 0
        \/ \E p \in Procs : req[p].on = r.user /\ req[p].at = "dropReviews"

\* An attempt beyond the limit, or a second pending one, is stored only if the
\* reviews of the account changed since the request looked (:423-440).
ReviewLimitKept ==
    [][\A p \in Procs : LET u == req[p].on IN
        req[p].at = "ask" /\ reviews' # reviews /\ ~(reviews' \subseteq reviews)
        /\ \/ Cardinality({r \in reviews' : r.user = u}) > ReviewLimit
           \/ Cardinality({r \in reviews' : r.user = u /\ r.status = "pending"}) > 1
        => req[p].saw # ReviewsOf(u)]_vars

\* Sessions end with what they rest on: the owner of every session is active
\* and not banned, and has the password the session was opened with, once the
\* request that changed it is through. "Deactivation invalidates sessions"
\* (docs/ADMIN-PANEL.md), but for a session opened while they were ended.
SessionsMatchAccount ==
    \A s \in sessions :
        \/ Admitted(s.user) /\ s.pw = user[s.user].pw
        \/ s.user \in late \cup stale \/ faults > 0
        \/ \E p \in Procs : /\ req[p].on = s.user
                            /\ req[p].at \in {"markUsed", "endSessions", "endSessionsFirst"}

\* Rotation keeps one refresh token for each login (:173-178), unless two
\* requests rotate the same session at once.
OneSessionPerLogin ==
    \A s, t \in sessions :
        s.user = t.user /\ s.login = t.login /\ s # t => s.user \in late \/ faults > 0
=============================================================================
