--------------------------- MODULE AccountsProofs ---------------------------
(***************************************************************************)
(* Proofs about Accounts, for any accounts, any number of requests in      *)
(* flight, any limit of reviews and any number of faults.                  *)
(***************************************************************************)
EXTENDS Accounts, FiniteSetTheorems, TLAPS

(* What a request is, and what it has in hand at each of its statements.   *)
Labels == {"idle", "load", "role", "count", "write", "invalidate", "issue", "markUsed", "active",
           "setActive", "ban", "setBan", "dropReviews", "decide", "pending", "countReviews",
           "ask", "register", "check", "rotate", "open", "endSessions", "endSessionsFirst"}
Ops == {"none", "update", "review", "ask", "signup", "login", "refresh", "logout", "forgot",
        "reset", "profile", "password"}
Update == [role : {"", "admin", "moderator", "user"}, active : Answer, ban : Answer]

Request ==
    [op : Ops, at : Labels, on : Users \cup {Nobody}, by : Roles \cup {""}, upd : Update,
     ref : 0..(MaxRequests + 1), saw : SUBSET (Users \cup Session \cup Review),
     row : SUBSET Account, n : 0..MaxRequests]

(* The row a request has read, and the session it was sent with.           *)
HasRow(r) == \E x \in Account : r.row = {x} /\ x.role # "none"
HasSession(r) == \E s \in Session : r.saw = {s} /\ s.user = r.on

Reaches(r) ==
    /\ r.at # "idle" => r.on \in Users /\ r.n # 0
    /\ r.at = "load" => r.op \in {"refresh", "reset", "profile", "password"}
    /\ r.at \in {"load", "role"} /\ r.op # "refresh" => r.saw = {}
    /\ r.at \in {"role", "count"} => r.op = "update" /\ r.upd.role # ""
    /\ r.at = "write" => r.op \in {"update", "reset", "profile", "password"}
    /\ r.at = "write" /\ r.op = "update" => r.upd.role # ""
    /\ r.at \in {"pending", "countReviews", "ask"} => r.op = "ask" /\ r.ref # 0
    /\ r.at = "rotate" => r.op = "refresh"
    /\ r.at = "register" => r.op = "signup"
    /\ r.at = "check" => r.op = "login"
    /\ r.at = "open" => r.op \in {"signup", "login", "refresh"}
    /\ r.at \in {"count", "write", "rotate", "open"} => HasRow(r)
    /\ r.op = "refresh" => HasSession(r)
    /\ r.at = "open" /\ r.op # "refresh" => \A x \in r.row : x.ban = 0 /\ x.active

Legal(r) == r \in Request /\ Reaches(r) /\ (r.at = "idle" => r = Idle)

Typed ==
    /\ AccountTypeOK
    /\ req \in [Procs -> Request]
    /\ \A p \in Procs : Legal(req[p])

(* Nothing refers to an account before it is registered.                   *)
Known(u) == user[u].role # "none"
Registered ==
    /\ \A u \in Users : ~Known(u) => user[u].ban = 0
    /\ \A s \in sessions : Known(s.user)
    /\ \A t \in resets : Known(t[1])
    /\ \A x \in reviews : Known(x.user) /\ x.ban # 0
    /\ \A p \in Procs : req[p].at \notin {"idle", "register"} => Known(req[p].on)

(* A request about to demote a root has seen another one.                  *)
Guarded ==
    \A p \in Procs : req[p].at = "write" /\ req[p].saw # {} => \E u \in req[p].saw : u # req[p].on

(* The sessions and those a refresh was sent with, which it is about to    *)
(* renew, rest on their accounts alike.                                    *)
Rests(s) ==
    \/ Admitted(s.user) /\ s.pw = user[s.user].pw
    \/ s.user \in late \cup stale \/ faults > 0
    \/ \E p \in Procs : /\ req[p].on = s.user
                        /\ req[p].at \in {"markUsed", "endSessions", "endSessionsFirst"}
Backed ==
    /\ \A s \in sessions : Rests(s)
    /\ \A p \in Procs : req[p].op = "refresh" => \A s \in req[p].saw : Rests(s)

(* The number of a request is its own: what it stores under it is new.     *)
NewReview(x) == x.id \in 0..started /\ \A p \in Procs : req[p].op = "ask" => req[p].n # x.id
NewLogin(s) == s.login \in 0..started /\ \A p \in Procs : req[p].op \in {"signup", "login"} => req[p].n # s.login
Fresh ==
    /\ \A p, q \in Procs : p # q /\ req[p].at # "idle" /\ req[q].at # "idle" => req[p].n # req[q].n
    /\ \A x \in reviews : NewReview(x)
    /\ \A s \in sessions : NewLogin(s)
    /\ \A q \in Procs : req[q].op = "ask" => \A x \in req[q].saw : NewReview(x)
    /\ \A q \in Procs : req[q].op = "refresh" => \A s \in req[q].saw : NewLogin(s)

(* The reviews are numbered, finitely many, and a request about to store   *)
(* one has seen that none is pending and that there are not too many.      *)
Ids(S) == {x.id : x \in S}
Attempts ==
    /\ IsFiniteSet(reviews)
    /\ \A x, y \in reviews : x.id = y.id => x = y
    /\ \A p \in Procs :
          /\ req[p].at \in {"countReviews", "ask"} => \A x \in req[p].saw : x.status # "pending"
          /\ req[p].at = "ask" =>
                /\ 0 < ReviewLimit
                /\ Ids(req[p].saw) \subseteq Ids(ReviewsOf(req[p].on)) =>
                      Cardinality(Ids(req[p].saw)) < ReviewLimit

(* A login has one session, or one request about to open its next one.     *)
Same(s, t) == s.user = t.user /\ s.login = t.login
Rotating(p) == req[p].at = "open" /\ req[p].op = "refresh"
Single ==
    /\ OneSessionPerLogin
    /\ \A p \in Procs : Rotating(p) => \A old \in req[p].saw :
          \/ old.user \in late \/ faults > 0
          \/ /\ \A s \in sessions : ~Same(s, old)
             /\ \A q \in Procs : q # p /\ Rotating(q) => \A s \in req[q].saw : ~Same(s, old)

-----------------------------------------------------------------------------
(* Steps change at most one request, and to a legal one.                   *)
Moves(p) ==
    /\ req' \in [Procs -> Request] /\ Legal(req'[p])
    /\ \A q \in Procs : q # p => req'[q] = req[q]

(* A request that goes on stays the request it is.                         *)
Keeps(p) ==
    /\ req'[p].op = req[p].op /\ req'[p].on = req[p].on /\ req'[p].upd = req[p].upd
    /\ req'[p].ref = req[p].ref /\ req'[p].n = req[p].n /\ req'[p].at # "idle"

LEMMA Bounds == MaxRequests \in Nat /\ ReviewLimit \in Nat /\ MaxFaults \in Nat
  BY AccountAssumption

LEMMA Number ==
    ASSUME NEW n \in 0..MaxRequests
    PROVE  /\ n \in 0..(MaxRequests + 1) /\ n + 1 \in 0..(MaxRequests + 1)
           /\ n < MaxRequests => n + 1 \in 0..MaxRequests
           /\ n + 1 # 0
  BY Bounds

LEMMA IdleFacts ==
    /\ Idle.op = "none" /\ Idle.at = "idle" /\ Idle.on = Nobody
    /\ Idle.saw = {} /\ Idle.row = {} /\ Idle.n = 0
  BY DEF Idle

LEMMA IdleIsLegal == Legal(Idle)
<1>1. NoUpdate \in Update
  BY DEF NoUpdate, Update, Answer
<1>2. 0 \in 0..MaxRequests /\ 0 \in 0..(MaxRequests + 1)
  BY Bounds
<1>3. "none" \in Ops /\ "idle" \in Labels
  BY DEF Ops, Labels
<1>4. Idle \in Request
  BY <1>1, <1>2, <1>3 DEF Idle, Request
<1>5. QED  BY <1>4, IdleFacts DEF Legal, Reaches

LEMMA OneRequest ==
    ASSUME Typed, NEW p \in Procs, NEW r, Legal(r), req' = [req EXCEPT ![p] = r]
    PROVE  Moves(p) /\ req'[p] = r
<1>1. r \in Request
  BY DEF Legal
<1>2. QED  BY <1>1 DEF Typed, Moves

LEMMA EndFacts ==
    ASSUME Typed, NEW p \in Procs, Goto(p, "end")
    PROVE  Moves(p) /\ req'[p] = Idle
  BY IdleIsLegal, OneRequest DEF Goto

(* The labels that need nothing but a request, and what the code computes  *)
(* of them.                                                                *)
Light == {"issue", "markUsed", "active", "setActive", "ban", "setBan", "dropReviews", "decide",
          "endSessions", "endSessionsFirst"}

LEMMA GotoFacts ==
    ASSUME Typed, NEW p \in Procs, NEW at, Goto(p, at), req[p].at # "idle", at # "end",
           at \in Light \/ Legal([req[p] EXCEPT !.at = at]), at # "idle"
    PROVE  /\ Moves(p) /\ Keeps(p)
           /\ req'[p].at = at /\ req'[p].saw = req[p].saw /\ req'[p].row = req[p].row
<1>1. req[p] \in Request /\ Legal(req[p])
  BY DEF Typed
<1>2. req' = [req EXCEPT ![p] = [req[p] EXCEPT !.at = at]]
  BY DEF Goto, Typed
<1>3. Legal([req[p] EXCEPT !.at = at])
  <2>1. CASE at \in Light
    <3> DEFINE r == [req[p] EXCEPT !.at = at]
    <3>1. r \in Request
      BY <1>1, <2>1 DEF Request, Light, Labels
    <3>2. /\ r.at = at /\ r.op = req[p].op /\ r.on = req[p].on /\ r.n = req[p].n
          /\ r.saw = req[p].saw
      BY <1>1 DEF Request
    <3>3. Reaches(r)
      BY <1>1, <2>1, <3>2 DEF Legal, Reaches, Light, HasSession
    <3>4. QED  BY <3>1, <3>2, <3>3 DEF Legal
  <2>2. QED  BY <2>1
<1>4. Moves(p) /\ req'[p] = [req[p] EXCEPT !.at = at]
  BY <1>2, <1>3, OneRequest
<1>5. QED  BY <1>1, <1>4 DEF Keeps, Request

LEMMA PartsAreLight ==
    ASSUME NEW upd
    PROVE  /\ BanPart(upd) \in Light \cup {"end"}
           /\ ActivePart(upd) \in Light \cup {"end"}
           /\ RolePart(upd) \in Light \cup {"end", "role"}
           /\ RolePart(upd) = "role" => upd.role # ""
  BY DEF BanPart, ActivePart, RolePart, Light

LEMMA AheadIsLight ==
    ASSUME NEW r, r.at # "rotate"
    PROVE  Ahead(r) \in Light \cup {"end"}
  BY PartsAreLight DEF Ahead, Light

LEMMA AfterIsLight ==
    ASSUME NEW r
    PROVE  AfterWrite(r) \in Light \cup {"end"} /\ AfterBan(r) \in Light
  BY PartsAreLight DEF AfterWrite, AfterBan, Light

-----------------------------------------------------------------------------
(* What the requests start as.                                             *)
Begun(p) ==
    /\ Moves(p) /\ req[p] = Idle
    /\ started < MaxRequests /\ started' = started + 1 /\ req'[p].n = started + 1
    /\ req'[p].at \in Light \cup {"load", "role", "pending", "register", "check", "invalidate"}
    /\ req'[p].at # "register" => Known(req'[p].on)
    /\ req'[p].saw = {} \/ (req'[p].op = "refresh" /\ req'[p].saw \subseteq sessions)
    /\ UNCHANGED <<user, sessions, reviews, resets, claims, history, faults>>

Allowed(op, at, on, upd, ref, saw) ==
    /\ op \in Ops /\ on \in Users /\ upd \in Update /\ ref \in 0..(MaxRequests + 1)
    /\ at \in Light \cup {"load", "role", "pending", "register", "check", "invalidate"}
    /\ at = "load" => op \in {"refresh", "reset", "profile", "password"}
    /\ at = "role" => op = "update" /\ upd.role # ""
    /\ at = "pending" => op = "ask" /\ ref # 0
    /\ at = "register" => op = "signup"
    /\ at = "check" => op = "login"
    /\ at = "register" \/ Known(on)
    /\ \/ op # "refresh" /\ saw = {}
       \/ op = "refresh" /\ \E s \in sessions : saw = {s} /\ s.user = on

LEMMA BeginFacts ==
    ASSUME Typed, NEW p \in Procs, NEW op, NEW at, NEW on, NEW by \in Roles \cup {""}, NEW upd,
           NEW ref, NEW saw,
           Begin(p, op, at, on, by, upd, ref, saw), Allowed(op, at, on, upd, ref, saw)
    PROVE  Begun(p)
<1> DEFINE r == [op |-> op, at |-> at, on |-> on, by |-> by, upd |-> upd,
                 ref |-> ref, saw |-> saw, row |-> {}, n |-> started + 1]
<1>1. started \in 0..MaxRequests /\ started < MaxRequests /\ sessions \subseteq Session
  BY DEF Begin, Typed, AccountTypeOK
<1>2. started + 1 \in 0..MaxRequests /\ started + 1 # 0
  BY <1>1, Number
<1>3. at \in Labels /\ saw \in SUBSET (Users \cup Session \cup Review)
  BY <1>1 DEF Labels, Light, Allowed
<1>4. r \in Request
  BY <1>2, <1>3 DEF Request, Allowed
<1>5. HasSession(r) \/ op # "refresh"
  BY <1>1 DEF HasSession, Allowed
<1>6. Reaches(r) /\ r.at # "idle"
  BY <1>2, <1>5 DEF Reaches, Light, Allowed
<1>7. Legal(r)
  BY <1>4, <1>6 DEF Legal
<1>8. req' = [req EXCEPT ![p] = r] /\ req[p] = Idle
  BY DEF Begin
<1>9. r.op = op /\ r.at = at /\ r.on = on /\ r.saw = saw /\ r.n = started + 1
  OBVIOUS
<1> HIDE DEF r
<1>10. Moves(p) /\ req'[p] = r
  BY <1>7, <1>8, OneRequest
<1>11. UNCHANGED <<user, sessions, reviews, resets, claims, history, faults>> /\ started' = started + 1
  BY DEF Begin
<1>12. saw = {} \/ (op = "refresh" /\ saw \subseteq sessions)
  BY DEF Allowed
<1>13. QED  BY <1>1, <1>8, <1>9, <1>10, <1>11, <1>12 DEF Begun, Allowed

LEMMA StartFacts ==
    ASSUME Typed, Registered, NEW p \in Procs, Start(p)
    PROVE  Begun(p)
<1>1. /\ sessions \subseteq Session /\ reviews \subseteq Review
      /\ resets \subseteq Users \X (0..MaxRequests) /\ user \in [Users -> Account]
  BY DEF Typed, AccountTypeOK
<1>2. NoUpdate \in Update /\ \A ok \in {"yes", "no"} : [NoUpdate EXCEPT !.ban = ok] \in Update
  BY DEF NoUpdate, Update, Answer
<1>3. Updates \subseteq Update
  BY AccountAssumption DEF Update
<1>4. 0 \in 0..(MaxRequests + 1) /\ "" \in Roles \cup {""}
  BY Bounds DEF Roles
<1>5. CASE StartUpdateUser(p)
  <2>1. PICK by, on \in Users, claim \in {"root", "admin", "moderator"}, upd \in Updates :
          /\ user[on].role # "none" /\ RolePart(upd) # "end"
          /\ Begin(p, "update", RolePart(upd), on, claim, upd, 0, {})
    BY <1>5 DEF StartUpdateUser
  <2>2. /\ RolePart(upd) \in Light \cup {"role"} /\ (RolePart(upd) = "role" => upd.role # "")
        /\ claim \in Roles \cup {""}
    BY <2>1, PartsAreLight DEF Roles
  <2>3. Allowed("update", RolePart(upd), on, upd, 0, {})
    BY <1>3, <1>4, <2>1, <2>2 DEF Allowed, Light, Known, Ops
  <2>4. QED  BY <2>1, <2>2, <2>3, BeginFacts
<1>6. CASE StartReviewBan(p)
  <2>1. PICK by \in Users, claim \in {"root", "admin", "moderator"}, r \in reviews,
             ok \in {"yes", "no"} :
          Begin(p, "review", "decide", r.user, claim, [NoUpdate EXCEPT !.ban = ok], r.id, {})
    BY <1>6 DEF StartReviewBan
  <2>2. r.user \in Users /\ r.id \in 0..(MaxRequests + 1) /\ Known(r.user)
    BY <1>1, Number DEF Review, Registered
  <2>3. Allowed("review", "decide", r.user, [NoUpdate EXCEPT !.ban = ok], r.id, {})
    BY <1>2, <2>2 DEF Allowed, Ops, Light
  <2>4. QED  BY <2>1, <2>3, BeginFacts DEF Roles
<1>7. CASE StartRequestReview(p)
  <2>1. PICK u \in Users :
          user[u].ban # 0 /\ Begin(p, "ask", "pending", u, "", NoUpdate, user[u].ban, {})
    BY <1>7 DEF StartRequestReview
  <2>2. user[u].ban \in 0..(MaxRequests + 1) /\ Known(u)
    BY <1>1, <2>1 DEF Account, Registered
  <2>3. Allowed("ask", "pending", u, NoUpdate, user[u].ban, {})
    BY <1>2, <2>1, <2>2 DEF Allowed, Ops, Light
  <2>4. QED  BY <1>4, <2>1, <2>3, BeginFacts
<1>8. CASE StartSignup(p)
  <2>1. PICK u \in Users : Begin(p, "signup", "register", u, "", NoUpdate, 0, {})
    BY <1>8 DEF StartSignup
  <2>2. Allowed("signup", "register", u, NoUpdate, 0, {})
    BY <1>2, <1>4 DEF Allowed, Ops, Light
  <2>3. QED  BY <1>4, <2>1, <2>2, BeginFacts
<1>9. CASE StartLogin(p)
  <2>1. PICK u \in Users : Known(u) /\ Begin(p, "login", "check", u, "", NoUpdate, 0, {})
    BY <1>9 DEF StartLogin, Known
  <2>2. Allowed("login", "check", u, NoUpdate, 0, {})
    BY <1>2, <1>4, <2>1 DEF Allowed, Ops, Light
  <2>3. QED  BY <1>4, <2>1, <2>2, BeginFacts
<1>10. CASE StartRefresh(p)
  <2>1. PICK s \in sessions : Begin(p, "refresh", "load", s.user, "", NoUpdate, 0, {s})
    BY <1>10 DEF StartRefresh
  <2>2. s.user \in Users /\ Known(s.user)
    BY <1>1 DEF Session, Registered
  <2>3. Allowed("refresh", "load", s.user, NoUpdate, 0, {s})
    BY <1>2, <1>4, <2>2 DEF Allowed, Ops, Light
  <2>4. QED  BY <1>4, <2>1, <2>3, BeginFacts
<1>11. CASE StartLogout(p)
  <2>1. PICK u \in Users : Known(u) /\ Begin(p, "logout", "endSessions", u, "", NoUpdate, 0, {})
    BY <1>11 DEF StartLogout, Admitted, Known
  <2>2. Allowed("logout", "endSessions", u, NoUpdate, 0, {})
    BY <1>2, <1>4, <2>1 DEF Allowed, Ops, Light
  <2>3. QED  BY <1>4, <2>1, <2>2, BeginFacts
<1>12. CASE StartForgot(p)
  <2>1. PICK u \in Users : Known(u) /\ Begin(p, "forgot", "invalidate", u, "", NoUpdate, 0, {})
    BY <1>12 DEF StartForgot, Known
  <2>2. Allowed("forgot", "invalidate", u, NoUpdate, 0, {})
    BY <1>2, <1>4, <2>1 DEF Allowed, Ops, Light
  <2>3. QED  BY <1>4, <2>1, <2>2, BeginFacts
<1>13. CASE StartReset(p)
  <2>1. PICK t \in resets : Begin(p, "reset", "load", t[1], "", NoUpdate, t[2], {})
    BY <1>13 DEF StartReset
  <2>2. t[1] \in Users /\ t[2] \in 0..(MaxRequests + 1) /\ Known(t[1])
    BY <1>1, Number DEF Registered
  <2>3. Allowed("reset", "load", t[1], NoUpdate, t[2], {})
    BY <1>2, <2>2 DEF Allowed, Ops, Light
  <2>4. QED  BY <1>4, <2>1, <2>3, BeginFacts
<1>14. CASE StartProfile(p) \/ StartPassword(p)
  <2>1. PICK u \in Users, op \in {"profile", "password"} :
          Known(u) /\ Begin(p, op, "load", u, "", NoUpdate, 0, {})
    BY <1>14 DEF StartProfile, StartPassword, Admitted, Known
  <2>2. Allowed(op, "load", u, NoUpdate, 0, {})
    BY <1>2, <1>4, <2>1 DEF Allowed, Ops, Light
  <2>3. QED  BY <1>4, <2>1, <2>2, BeginFacts
<1>15. QED
  BY <1>5, <1>6, <1>7, <1>8, <1>9, <1>10, <1>11, <1>12, <1>13, <1>14 DEF Start

-----------------------------------------------------------------------------
(* What a statement leaves of its request.                                 *)
Goes(p) == Moves(p) /\ req[p].at # "idle" /\ (req'[p] = Idle \/ Keeps(p))

LEMMA GoesOn ==
    ASSUME Typed, NEW p \in Procs, NEW at, Goto(p, at), req[p].at # "idle",
           at \in Light \cup {"end"}
    PROVE  Goes(p)
<1>1. at # "end" => at \in Light /\ at # "idle"
  BY DEF Light
<1>2. QED  BY <1>1, EndFacts, GotoFacts DEF Goes

(* A label that needs a row just read, or what was read of other rows.     *)
Fits(q, at, row, saw) ==
    /\ at \in {"count", "write", "rotate", "open", "countReviews", "ask"}
    /\ row \in SUBSET Account /\ saw \in SUBSET (Users \cup Session \cup Review)
    /\ at = "count" => q.op = "update" /\ q.upd.role # ""
    /\ at = "write" => q.op \in {"update", "reset", "profile", "password"}
    /\ at = "write" /\ q.op = "update" => q.upd.role # ""
    /\ at \in {"countReviews", "ask"} => q.op = "ask" /\ q.ref # 0
    /\ at = "rotate" => q.op = "refresh"
    /\ at = "open" => q.op \in {"signup", "login", "refresh"}
    /\ at \in {"count", "write", "rotate", "open"} => \E x \in Account : row = {x} /\ x.role # "none"
    /\ q.op = "refresh" => saw = q.saw
    /\ at = "open" /\ q.op # "refresh" => \A x \in row : x.ban = 0 /\ x.active

With(q, at, row, saw) == [q EXCEPT !.at = at, !.row = row, !.saw = saw]

Took(p, at, row, saw) ==
    /\ Goes(p) /\ Keeps(p)
    /\ req'[p].at = at /\ req'[p].row = row /\ req'[p].saw = saw

LEMMA GoesWith ==
    ASSUME Typed, NEW p \in Procs, NEW at, NEW row, NEW saw, req[p].at # "idle",
           Fits(req[p], at, row, saw),
           req' = [req EXCEPT ![p] = With(req[p], at, row, saw)]
    PROVE  Took(p, at, row, saw)
<1> DEFINE r == With(req[p], at, row, saw)
<1>0. at \in Labels
  BY DEF Fits, Labels
<1>1. req[p] \in Request /\ Legal(req[p])
  BY DEF Typed
<1>2. /\ r \in Request
      /\ r.at = at /\ r.row = row /\ r.saw = saw
      /\ r.op = req[p].op /\ r.on = req[p].on /\ r.upd = req[p].upd
      /\ r.ref = req[p].ref /\ r.n = req[p].n
  BY <1>0, <1>1 DEF Request, With, Fits
<1> HIDE DEF r
<1>3. r.at # "idle" /\ r.on \in Users /\ r.n # 0
  BY <1>1, <1>2 DEF Legal, Reaches, Fits
<1>4. at \in {"count", "write", "rotate", "open"} => HasRow(r)
  BY <1>2 DEF HasRow, Fits
<1>5. r.op = "refresh" => HasSession(r)
  BY <1>1, <1>2 DEF Legal, Reaches, HasSession, Fits
<1>6. Reaches(r)
  BY <1>2, <1>3, <1>4, <1>5 DEF Reaches, Fits
<1>7. Legal(r)
  BY <1>2, <1>3, <1>6 DEF Legal
<1>8. Moves(p) /\ req'[p] = r
  BY <1>7, OneRequest DEF r
<1>9. Keeps(p)
  BY <1>2, <1>3, <1>8 DEF Keeps
<1>10. QED  BY <1>2, <1>8, <1>9 DEF Goes, Took

(* GoesWith for the forms the statements have.                             *)
LEMMA GotoWith ==
    ASSUME Typed, NEW p \in Procs, NEW at, Goto(p, at), at # "end"
    PROVE  req' = [req EXCEPT ![p] = With(req[p], at, req[p].row, req[p].saw)]
<1>1. req[p] \in Request
  BY DEF Typed
<1>2. With(req[p], at, req[p].row, req[p].saw) = [req[p] EXCEPT !.at = at]
  BY <1>1 DEF Request, With
<1>3. QED  BY <1>2 DEF Goto, Typed

LEMMA RowWith ==
    ASSUME Typed, NEW p \in Procs, NEW at, NEW row
    PROVE  /\ [req EXCEPT ![p].row = row, ![p].at = at]
                = [req EXCEPT ![p] = With(req[p], at, row, req[p].saw)]
           /\ [req EXCEPT ![p].at = at, ![p].row = row]
                = [req EXCEPT ![p] = With(req[p], at, row, req[p].saw)]
<1>1. req[p] \in Request
  BY DEF Typed
<1>2. /\ With(req[p], at, row, req[p].saw) = [req[p] EXCEPT !.row = row, !.at = at]
      /\ With(req[p], at, row, req[p].saw) = [req[p] EXCEPT !.at = at, !.row = row]
  BY <1>1 DEF Request, With
<1>3. QED  BY <1>2 DEF Typed

LEMMA Has ==
    ASSUME Typed, NEW p \in Procs
    PROVE  /\ req[p] \in Request /\ Legal(req[p]) /\ Reaches(req[p])
           /\ req[p].row \in SUBSET Account /\ req[p].saw \in SUBSET (Users \cup Session \cup Review)
           /\ req[p].n \in 0..MaxRequests /\ req[p].ref \in 0..(MaxRequests + 1)
           /\ req[p].upd \in Update
           /\ req[p].at # "idle" => req[p].on \in Users
  BY DEF Typed, Legal, Request, Reaches

LEMMA LoadRowGoes ==
    ASSUME Typed, Registered, NEW p \in Procs, LoadRow(p)
    PROVE  /\ Goes(p)
           /\ \/ req'[p] = Idle
              \/ /\ req'[p].row = {user[req[p].on]} /\ req'[p].saw = req[p].saw
                 /\ req'[p].at \in {"rotate", "count", "write"}
                 /\ req'[p].at = "rotate" <=> req[p].op = "refresh"
<1>1. /\ req[p] \in Request /\ Reaches(req[p]) /\ req[p].on \in Users
      /\ req[p].at \in {"load", "role"}
      /\ req[p].saw \in SUBSET (Users \cup Session \cup Review)
  BY Has DEF LoadRow
<1> DEFINE row == user[req[p].on]
           at == CASE req[p].op = "refresh" -> "rotate"
                   [] req[p].op = "update" /\ row.role = "root" -> "count"
                   [] OTHER -> "write"
<1>2. row \in Account /\ row.role # "none"
  BY <1>1 DEF Typed, AccountTypeOK, Registered, Known
<1>3. Goto(p, "end") \/ req' = [req EXCEPT ![p].row = {row}, ![p].at = at]
  BY DEF LoadRow
<1>4. CASE Goto(p, "end")
  BY <1>1, <1>4, EndFacts DEF Goes
<1>5. CASE req' = [req EXCEPT ![p].row = {row}, ![p].at = at]
  <2>1. /\ req[p].op \in {"refresh", "reset", "profile", "password", "update"}
        /\ req[p].op = "update" => req[p].upd.role # ""
    BY <1>1 DEF Reaches
  <2>2. at \in {"count", "write", "rotate"} /\ (at = "rotate" <=> req[p].op = "refresh")
    OBVIOUS
  <2>3. at = "count" => req[p].op = "update"
    OBVIOUS
  <2> HIDE DEF at, row
  <2>4. Fits(req[p], at, {row}, req[p].saw)
    BY <1>1, <1>2, <2>1, <2>2, <2>3 DEF Fits
  <2>5. req' = [req EXCEPT ![p] = With(req[p], at, {row}, req[p].saw)]
    BY <1>5, RowWith
  <2>6. req[p].at # "idle"
    BY <1>1
  <2>7. Took(p, at, {row}, req[p].saw)
    BY <2>4, <2>5, <2>6, GoesWith, Zenon
  <2>8. QED  BY <2>2, <2>7 DEF row, Took
<1>6. QED  BY <1>3, <1>4, <1>5

LEMMA CountRootsGoes ==
    ASSUME Typed, NEW p \in Procs, CountRoots(p)
    PROVE  /\ Goes(p)
           /\ \/ req'[p] = Idle
              \/ /\ req'[p].at = "write" /\ req'[p].saw = Roots /\ req'[p].row = req[p].row
                 /\ ~(Cardinality(Roots) <= 1)
<1>1. /\ req[p].at = "count" /\ Reaches(req[p]) /\ req[p].row \in SUBSET Account
      /\ req[p].at # "idle"
  BY Has DEF CountRoots
<1>2. CASE Cardinality(Roots) <= 1
  BY <1>1, <1>2, EndFacts DEF CountRoots, Goes
<1>3. CASE ~(Cardinality(Roots) <= 1)
  <2>1. Roots \subseteq Users
    BY DEF Roots
  <2>2. Fits(req[p], "write", req[p].row, Roots)
    BY <1>1, <2>1 DEF Fits, Reaches, HasRow
  <2>3. req' = [req EXCEPT ![p] = With(req[p], "write", req[p].row, Roots)]
    <3>1. req' = [req EXCEPT ![p].at = "write", ![p].saw = Roots]
      BY <1>3 DEF CountRoots
    <3>2. req' = [req EXCEPT ![p] = [req[p] EXCEPT !.at = "write", !.saw = Roots]]
      BY <3>1 DEF Typed
    <3>3. [req[p] EXCEPT !.at = "write", !.saw = Roots] = With(req[p], "write", req[p].row, Roots)
      BY Has DEF Request, With
    <3>4. QED  BY <3>2, <3>3, Zenon
  <2>4. req[p].at # "idle"
    BY <1>1
  <2>5. Took(p, "write", req[p].row, Roots)
    BY <2>2, <2>3, <2>4, GoesWith, Zenon
  <2>6. QED  BY <1>3, <2>5 DEF Took
<1>4. QED  BY <1>2, <1>3

LEMMA CheckPendingGoes ==
    ASSUME Typed, NEW p \in Procs, CheckPending(p)
    PROVE  /\ Goes(p)
           /\ \/ req'[p] = Idle
              \/ /\ req'[p].at = "countReviews" /\ req'[p].saw = ReviewsOf(req[p].on)
                 /\ \A x \in ReviewsOf(req[p].on) : x.status # "pending"
<1>1. /\ req[p].at = "pending" /\ Reaches(req[p]) /\ req[p].row \in SUBSET Account
      /\ req[p].at # "idle"
  BY Has DEF CheckPending
<1>2. CASE \E x \in ReviewsOf(req[p].on) : x.status = "pending"
  BY <1>1, <1>2, EndFacts DEF CheckPending, Goes
<1>3. CASE ~\E x \in ReviewsOf(req[p].on) : x.status = "pending"
  <2>1. ReviewsOf(req[p].on) \subseteq Review
    BY DEF ReviewsOf, Typed, AccountTypeOK
  <2>2. Fits(req[p], "countReviews", req[p].row, ReviewsOf(req[p].on))
    BY <1>1, <2>1 DEF Fits, Reaches
  <2>3. req' = [req EXCEPT ![p] = With(req[p], "countReviews", req[p].row, ReviewsOf(req[p].on))]
    <3>1. req' = [req EXCEPT ![p].at = "countReviews", ![p].saw = ReviewsOf(req[p].on)]
      BY <1>3 DEF CheckPending
    <3> DEFINE S == ReviewsOf(req[p].on)
    <3>2. req' = [req EXCEPT ![p] = [req[p] EXCEPT !.at = "countReviews", !.saw = S]]
      BY <3>1 DEF Typed
    <3>3. [req[p] EXCEPT !.at = "countReviews", !.saw = S] = With(req[p], "countReviews", req[p].row, S)
      BY Has DEF Request, With
    <3>4. QED  BY <3>2, <3>3, Zenon
  <2>4. req[p].at # "idle"
    BY <1>1
  <2>5. Took(p, "countReviews", req[p].row, ReviewsOf(req[p].on))
    BY <2>2, <2>3, <2>4, GoesWith, Zenon
  <2>6. QED  BY <1>3, <2>5 DEF Took
<1>4. QED  BY <1>2, <1>3

LEMMA CountReviewsGoes ==
    ASSUME Typed, NEW p \in Procs, CountReviews(p)
    PROVE  /\ Goes(p)
           /\ \/ req'[p] = Idle
              \/ /\ req'[p].at = "ask" /\ req'[p].saw = req[p].saw
                 /\ ~(Cardinality(ReviewsOf(req[p].on)) >= ReviewLimit)
<1>1. /\ req[p].at = "countReviews" /\ Reaches(req[p]) /\ req[p].row \in SUBSET Account
      /\ req[p].at # "idle" /\ req[p].saw \in SUBSET (Users \cup Session \cup Review)
  BY Has DEF CountReviews
<1>2. CASE Cardinality(ReviewsOf(req[p].on)) >= ReviewLimit
  BY <1>1, <1>2, EndFacts DEF CountReviews, Goes
<1>3. CASE ~(Cardinality(ReviewsOf(req[p].on)) >= ReviewLimit)
  <2>1. Fits(req[p], "ask", req[p].row, req[p].saw)
    BY <1>1 DEF Fits, Reaches
  <2>2. req' = [req EXCEPT ![p] = With(req[p], "ask", req[p].row, req[p].saw)]
    <3>1. Goto(p, "ask")
      BY <1>3 DEF CountReviews
    <3>2. QED  BY <3>1, GotoWith
  <2>3. req[p].at # "idle"
    BY <1>1
  <2>4. Took(p, "ask", req[p].row, req[p].saw)
    BY <2>1, <2>2, <2>3, GoesWith, Zenon
  <2>5. QED  BY <1>3, <2>4 DEF Took
<1>4. QED  BY <1>2, <1>3

LEMMA EnterGoes ==
    ASSUME Typed, Registered, NEW p \in Procs, Register(p) \/ CheckLogin(p)
    PROVE  /\ Goes(p)
           /\ \/ req'[p] = Idle
              \/ req'[p].at = "open" /\ req'[p].saw = req[p].saw /\ req[p].op \in {"signup", "login"}
<1>1. /\ Reaches(req[p]) /\ req[p].at # "idle" /\ req[p].on \in Users
      /\ req[p].saw \in SUBSET (Users \cup Session \cup Review)
      /\ user \in [Users -> Account]
  BY Has DEF Register, CheckLogin, Typed, AccountTypeOK
<1>2. CASE Goto(p, "end")
  BY <1>1, <1>2, EndFacts DEF Goes
<1>3. CASE ~Goto(p, "end")
  <2>1. PICK row \in Account :
          /\ row.role # "none" /\ row.ban = 0 /\ row.active
          /\ req' = [req EXCEPT ![p].at = "open", ![p].row = {row}]
    <3>1. CASE Register(p)
      <4>1. [role |-> "user", active |-> TRUE, ban |-> 0, pw |-> 0] \in Account
        BY Bounds DEF Account, Roles
      <4>2. QED  BY <1>3, <3>1, <4>1 DEF Register
    <3>2. CASE CheckLogin(p)
      BY <1>1, <1>3, <3>2 DEF CheckLogin, Admitted
    <3>3. QED  BY <3>1, <3>2
  <2>2. req[p].op \in {"signup", "login"}
    BY <1>1 DEF Reaches, Register, CheckLogin
  <2>3. Fits(req[p], "open", {row}, req[p].saw)
    BY <1>1, <2>1, <2>2 DEF Fits
  <2>4. req' = [req EXCEPT ![p] = With(req[p], "open", {row}, req[p].saw)]
    BY <2>1, RowWith
  <2>5. req[p].at # "idle"
    BY <1>1
  <2>6. Took(p, "open", {row}, req[p].saw)
    BY <2>3, <2>4, <2>5, GoesWith, Zenon
  <2>7. QED  BY <2>2, <2>6 DEF Took
<1>4. QED  BY <1>2, <1>3

LEMMA RotateGoes ==
    ASSUME Typed, NEW p \in Procs, req[p].at = "rotate", Goto(p, "open")
    PROVE  Took(p, "open", req[p].row, req[p].saw)
<1>1. /\ Reaches(req[p]) /\ req[p].at # "idle" /\ req[p].row \in SUBSET Account
      /\ req[p].saw \in SUBSET (Users \cup Session \cup Review)
  BY Has
<1>2. Fits(req[p], "open", req[p].row, req[p].saw)
  BY <1>1 DEF Fits, Reaches, HasRow
<1>3. req' = [req EXCEPT ![p] = With(req[p], "open", req[p].row, req[p].saw)]
  BY GotoWith
<1>4. req[p].at # "idle"
  OBVIOUS
<1>5. QED  BY <1>2, <1>3, <1>4, GoesWith, Zenon

(* The other statements go on to a label that needs nothing in hand.       *)
LEMMA LightGoes ==
    ASSUME Typed, NEW p \in Procs,
           \/ WriteRow(p) \/ InvalidateResets(p) \/ IssueReset(p) \/ MarkUsed(p) \/ CheckPart(p)
           \/ SetActive(p) \/ SetBan(p) \/ DropReviews(p) \/ Decide(p) \/ Ask(p)
           \/ OpenSession(p) \/ EndSessions(p)
    PROVE  /\ Goes(p)
           /\ req'[p] = Idle \/ (req'[p].at \in Light /\ req'[p].saw = req[p].saw)
<1>1. PICK at \in Light \cup {"end"} : Goto(p, at) /\ req[p].at # "idle"
  <2>1. CASE WriteRow(p)
    BY <2>1, AfterIsLight DEF WriteRow
  <2>2. CASE InvalidateResets(p) \/ MarkUsed(p) \/ DropReviews(p) \/ EndSessions(p)
    BY <2>2, AheadIsLight DEF InvalidateResets, MarkUsed, DropReviews, EndSessions
  <2>3. CASE SetActive(p)
    BY <2>3, PartsAreLight DEF SetActive, Light
  <2>4. CASE SetBan(p)
    BY <2>4, AfterIsLight DEF SetBan
  <2>5. CASE CheckPart(p)
    BY <2>5 DEF CheckPart, Light
  <2>6. CASE Decide(p)
    BY <2>6 DEF Decide, Light
  <2>7. CASE IssueReset(p) \/ Ask(p) \/ OpenSession(p)
    BY <2>7 DEF IssueReset, Ask, OpenSession
  <2>8. QED  BY <2>1, <2>2, <2>3, <2>4, <2>5, <2>6, <2>7
<1>2. at # "end" => at \in Light /\ at # "idle"
  BY DEF Light
<1>3. QED  BY <1>1, <1>2, EndFacts, GotoFacts DEF Goes

LEMMA StatementGoes ==
    ASSUME Typed, Registered, NEW p \in Procs, Statement(p)
    PROVE  Goes(p)
<1>1. CASE DropOld(p)
  <2>1. req[p].at = "rotate" /\ Goto(p, "open")
    BY <1>1 DEF DropOld, Ahead
  <2>2. QED  BY <2>1, RotateGoes DEF Took
<1>2. QED
  BY <1>1, LoadRowGoes, CountRootsGoes, CheckPendingGoes, CountReviewsGoes, EnterGoes, LightGoes
  DEF Statement

LEMMA AbortGoes ==
    ASSUME Typed, NEW p \in Procs, Abort(p)
    PROVE  Moves(p) /\ req'[p] = Idle /\ req[p].at # "idle"
  BY EndFacts DEF Abort, Typed, Legal

LEMMA IgnoreGoes ==
    ASSUME Typed, NEW p \in Procs, Ignore(p)
    PROVE  Goes(p)
<1>1. req[p].at # "idle" /\ Goto(p, Ahead(req[p]))
  BY DEF Ignore, Ignored
<1>2. CASE req[p].at = "rotate"
  <2>1. Goto(p, "open")
    BY <1>1, <1>2 DEF Ahead
  <2>2. QED  BY <1>2, <2>1, RotateGoes DEF Took
<1>3. CASE req[p].at # "rotate"
  BY <1>1, <1>3, AheadIsLight, GoesOn
<1>4. QED  BY <1>2, <1>3

-----------------------------------------------------------------------------
(* The row and the session a request has in hand.                          *)
LEMMA TheRow ==
    ASSUME NEW r, HasRow(r)
    PROVE  LET x == CHOOSE x \in r.row : TRUE
           IN  x \in Account /\ x.role # "none" /\ r.row = {x}
  BY DEF HasRow

LEMMA TheSession ==
    ASSUME NEW r, HasSession(r)
    PROVE  LET s == CHOOSE s \in r.saw : TRUE
           IN  s \in Session /\ s.user = r.on /\ r.saw = {s}
  BY DEF HasSession

-----------------------------------------------------------------------------
(* The types.                                                              *)
LEMMA InitUsers ==
    ASSUME AccountInit
    PROVE  /\ user \in [Users -> Account]
           /\ \A u \in Users : /\ user[u].role = "none" => user[u].ban = 0
                               /\ user[u].pw = 0
<1>1. \A u \in Users : user[u].ban = 1 => user[u].role = "user"
  BY DEF AccountInit
<1>2. 0 \in 0..MaxRequests /\ 0 \in 0..(MaxRequests + 1) /\ 1 \in 0..(MaxRequests + 1)
  BY Bounds
<1>3. ASSUME NEW u \in Users
      PROVE  user[u] \in Account /\ user[u].pw = 0 /\ (user[u].role = "none" => user[u].ban = 0)
  <2>1. PICK r \in {"root", "user", "none"}, a \in BOOLEAN, b \in 0..1 :
          user[u] = [role |-> r, active |-> a, ban |-> b, pw |-> 0]
    BY DEF AccountInit
  <2>2. b = 0 \/ b = 1
    BY <2>1
  <2>3. r \in Roles \cup {"none"} /\ b \in 0..(MaxRequests + 1)
    BY <1>2, <2>1, <2>2 DEF Roles
  <2>4. user[u] \in Account
    BY <1>2, <2>1, <2>3 DEF Account
  <2>5. user[u].pw = 0 /\ user[u].role = r /\ user[u].ban = b
    BY <2>1
  <2>6. QED  BY <1>1, <2>2, <2>4, <2>5
<1>4. DOMAIN user = Users /\ user = [u \in Users |-> user[u]]
  BY DEF AccountInit
<1>5. user \in [Users -> Account]
  BY <1>3, <1>4
<1>6. QED  BY <1>3, <1>5

LEMMA TypedInit == AccountInit => Typed
<1> SUFFICES ASSUME AccountInit PROVE Typed  OBVIOUS
<1>1. 0 \in 0..MaxRequests /\ 0 \in 0..MaxFaults
  BY Bounds
<1>2. req = [p \in Procs |-> Idle]
  BY DEF AccountInit
<1>3. Idle \in Request
  BY IdleIsLegal DEF Legal
<1>4. req \in [Procs -> Request] /\ \A p \in Procs : Legal(req[p])
  BY <1>2, <1>3, IdleIsLegal
<1>5. started = 0 /\ faults = 0
  BY DEF AccountInit
<1>6. \A p \in Procs : req[p].on \in Users \cup {Nobody} /\ req[p].n \in 0..started
  BY <1>2, <1>5, IdleFacts
<1>7. sessions \subseteq Session
  BY <1>1 DEF AccountInit, Session
<1>8. claims \in [Users -> SUBSET Roles]
  <2>1. \A u \in Users : {user[u].role} \ {"none"} \subseteq Roles
    BY InitUsers DEF Account
  <2>2. QED  BY <2>1 DEF AccountInit
<1>9. reviews = {} /\ resets = {} /\ stale = {} /\ late = {} /\ postBan = {}
  BY DEF AccountInit
<1>10. AccountTypeOK
  BY <1>1, <1>5, <1>6, <1>7, <1>8, <1>9, InitUsers DEF AccountTypeOK
<1>11. QED  BY <1>4, <1>10 DEF Typed

(* A request moves, and the tables keep their types.                       *)
LEMMA Assemble ==
    ASSUME Typed, NEW p \in Procs, Goes(p),
           user' \in [Users -> Account],
           sessions' \subseteq Session, reviews' \subseteq Review,
           resets' \subseteq Users \X (0..MaxRequests),
           claims' \in [Users -> SUBSET Roles],
           stale' \subseteq Users, late' \subseteq Users, postBan' \subseteq Users,
           started' = started, faults' \in 0..MaxFaults
    PROVE  Typed'
<1>1. req' \in [Procs -> Request] /\ \A q \in Procs : Legal(req'[q])
  BY DEF Typed, Goes, Moves
<1>2. \A q \in Procs : req'[q].on \in Users \cup {Nobody} /\ req'[q].n \in 0..started'
  <2>1. \A q \in Procs : req'[q].on \in Users \cup {Nobody}
    BY <1>1 DEF Request
  <2>2. \A q \in Procs : req[q].n \in 0..started
    BY DEF Typed, AccountTypeOK
  <2>3. 0 \in 0..started
    BY DEF Typed, AccountTypeOK
  <2>4. \A q \in Procs : req'[q].n \in 0..started
    BY <2>2, <2>3, IdleFacts DEF Goes, Moves, Keeps
  <2>5. QED  BY <2>1, <2>4
<1>3. AccountTypeOK'
  BY <1>2 DEF Typed, AccountTypeOK
<1>4. QED  BY <1>1, <1>3 DEF Typed

LEMMA TypedStart ==
    ASSUME Typed, NEW p \in Procs, Begun(p)
    PROVE  Typed'
<1>1. req' \in [Procs -> Request] /\ \A q \in Procs : Legal(req'[q])
  BY DEF Typed, Begun, Moves
<1>2. started \in 0..MaxRequests /\ started' \in 0..MaxRequests /\ started' = started + 1
  BY Number DEF Begun, Typed, AccountTypeOK
<1>3. \A q \in Procs : req'[q].on \in Users \cup {Nobody} /\ req'[q].n \in 0..started'
  <2>1. \A q \in Procs : req'[q].on \in Users \cup {Nobody}
    BY <1>1 DEF Request
  <2>2. \A q \in Procs : req[q].n \in 0..started
    BY DEF Typed, AccountTypeOK
  <2>3. \A q \in Procs : req'[q].n \in 0..started \/ req'[q].n = started + 1
    BY <2>2 DEF Begun, Moves
  <2>4. QED  BY <1>2, <2>1, <2>3
<1>4. AccountTypeOK'
  BY <1>2, <1>3 DEF Typed, AccountTypeOK, Begun, history
<1>5. QED  BY <1>1, <1>4 DEF Typed

LEMMA TypedUser ==
    ASSUME Typed, NEW p \in Procs,
           WriteRow(p) \/ SetActive(p) \/ SetBan(p) \/ Register(p)
    PROVE  user' \in [Users -> Account] /\ stale' \subseteq Users
<1>1. /\ req[p].on \in Users /\ Reaches(req[p]) /\ req[p].n \in 0..MaxRequests
      /\ req[p].upd \in Update
  BY Has DEF WriteRow, SetActive, SetBan, Register
<1>2. user \in [Users -> Account] /\ stale \subseteq Users
  BY DEF Typed, AccountTypeOK
<1>3. CASE WriteRow(p)
  <2> DEFINE row == CHOOSE x \in req[p].row : TRUE
  <2>1. row \in Account
    BY <1>1, <1>3, TheRow DEF WriteRow, Reaches
  <2>2. req[p].op = "update" => req[p].upd.role \in Roles \cup {"none"}
    BY <1>1, <1>3 DEF WriteRow, Reaches, Update, Roles
  <2>3. WithColumns(row, req[p]) \in Account
    BY <1>1, <2>1, <2>2 DEF WithColumns, Account
  <2>4. /\ user' = [user EXCEPT ![req[p].on] = WithColumns(row, req[p])]
        /\ stale' \in {stale, stale \cup {req[p].on}}
    BY <1>3 DEF WriteRow
  <2> HIDE DEF row
  <2>5. QED  BY <1>1, <1>2, <2>3, <2>4
<1>4. CASE SetActive(p)
  <2>1. \A row \in Account, on \in BOOLEAN : [row EXCEPT !.active = on] \in Account
    BY DEF Account
  <2>2. QED  BY <1>1, <1>2, <1>4, <2>1 DEF SetActive
<1>5. CASE SetBan(p)
  <2>1. \A row \in Account, b \in 0..(MaxRequests + 1), a \in BOOLEAN :
            [row EXCEPT !.ban = b, !.active = a] \in Account
    BY DEF Account
  <2>2. 0 \in 0..(MaxRequests + 1) /\ req[p].n + 1 \in 0..(MaxRequests + 1)
    BY <1>1, Number, Bounds
  <2> DEFINE row == user[req[p].on]
             banned == req[p].op = "update" /\ req[p].upd.ban = "yes"
             b == IF ~banned THEN 0 ELSE IF row.ban = 0 THEN req[p].n + 1 ELSE row.ban
  <2>3. row \in Account /\ row.ban \in 0..(MaxRequests + 1)
    BY <1>1, <1>2 DEF Account
  <2>4. b \in 0..(MaxRequests + 1)
    BY <2>2, <2>3
  <2>5. user' = [user EXCEPT ![req[p].on] = [row EXCEPT !.ban = b, !.active = ~banned]]
    BY <1>1, <1>2, <1>5, <2>3 DEF SetBan, Account
  <2>6. [row EXCEPT !.ban = b, !.active = ~banned] \in Account
    BY <2>1, <2>3, <2>4
  <2>7. stale' = stale
    BY <1>5 DEF SetBan
  <2> HIDE DEF row, b, banned
  <2>8. QED  BY <1>1, <1>2, <2>5, <2>6, <2>7
<1>6. CASE Register(p)
  <2>1. [role |-> "user", active |-> TRUE, ban |-> 0, pw |-> 0] \in Account
    BY Bounds DEF Account, Roles
  <2>2. QED  BY <1>1, <1>2, <1>6, <2>1 DEF Register
<1>7. QED  BY <1>3, <1>4, <1>5, <1>6

LEMMA TypedSessions ==
    ASSUME Typed, NEW p \in Procs, OpenSession(p)
    PROVE  /\ sessions' \subseteq Session /\ claims' \in [Users -> SUBSET Roles]
           /\ \A s \in sessions' : s \in sessions \/ s.user = req[p].on
<1>1. /\ req[p].on \in Users /\ Reaches(req[p]) /\ req[p].n \in 0..MaxRequests
      /\ req[p].at = "open"
  BY Has DEF OpenSession
<1>2. sessions \subseteq Session /\ claims \in [Users -> SUBSET Roles]
  BY DEF Typed, AccountTypeOK
<1> DEFINE row == CHOOSE x \in req[p].row : TRUE
           old == CHOOSE s \in req[p].saw : TRUE
           new == IF req[p].op = "refresh" THEN [old EXCEPT !.id = req[p].n]
                  ELSE [user |-> req[p].on, login |-> req[p].n, id |-> req[p].n, pw |-> row.pw]
<1>3. row \in Account /\ row.role # "none"
  BY <1>1, TheRow DEF Reaches
<1>4. new \in Session /\ new.user = req[p].on
  <2>1. CASE req[p].op = "refresh"
    <3>1. old \in Session /\ old.user = req[p].on
      BY <1>1, <2>1, TheSession DEF Reaches
    <3> HIDE DEF old
    <3>2. [old EXCEPT !.id = req[p].n] \in Session /\ [old EXCEPT !.id = req[p].n].user = req[p].on
      BY <1>1, <3>1 DEF Session
    <3>3. QED  BY <2>1, <3>2
  <2>2. CASE req[p].op # "refresh"
    BY <1>1, <1>3, <2>2 DEF Session, Account
  <2>3. QED  BY <2>1, <2>2
<1>5. row.role \in Roles
  BY <1>3 DEF Account
<1>6. /\ sessions' = sessions \cup {new}
      /\ claims' = [claims EXCEPT ![req[p].on] = @ \cup {row.role}]
  BY DEF OpenSession
<1> HIDE DEF new, row, old
<1>7. QED  BY <1>1, <1>2, <1>4, <1>5, <1>6

LEMMA TypedReviews ==
    ASSUME Typed, NEW p \in Procs, Decide(p) \/ Ask(p)
    PROVE  reviews' \subseteq Review
<1>1. /\ req[p].on \in Users /\ Reaches(req[p]) /\ req[p].n \in 0..MaxRequests
      /\ req[p].ref \in 0..(MaxRequests + 1) /\ reviews \subseteq Review
  BY Has DEF Decide, Ask, Typed, AccountTypeOK
<1>2. CASE Decide(p)
  <2>1. \A x \in Review, status \in {"approved", "denied"} : [x EXCEPT !.status = status] \in Review
    BY DEF Review
  <2>2. QED  BY <1>1, <1>2, <2>1 DEF Decide
<1>3. CASE Ask(p)
  BY <1>1, <1>3 DEF Ask, Review
<1>4. QED  BY <1>2, <1>3

LEMMA TypedStatement ==
    ASSUME Typed, Registered, NEW p \in Procs, Statement(p)
    PROVE  Typed'
<1>1. Goes(p)
  BY StatementGoes
<1>2. AccountTypeOK /\ faults \in 0..MaxFaults
  BY DEF Typed, AccountTypeOK
<1>3. req[p].on \in Users /\ req[p].n \in 0..MaxRequests
  BY <1>1, Has DEF Goes
<1> USE <1>1, <1>2
<1>4. CASE WriteRow(p) \/ SetActive(p) \/ SetBan(p) \/ Register(p)
  BY <1>4, TypedUser, Assemble DEF WriteRow, SetActive, SetBan, Register, Rest, AccountTypeOK
<1>5. CASE \/ LoadRow(p) \/ CountRoots(p) \/ CheckPart(p) \/ CheckPending(p) \/ CountReviews(p)
           \/ CheckLogin(p)
  BY <1>5, Assemble
  DEF LoadRow, CountRoots, CheckPart, CheckPending, CountReviews, CheckLogin, Rest, history,
      AccountTypeOK
<1>6. CASE InvalidateResets(p) \/ MarkUsed(p) \/ IssueReset(p)
  <2>1. resets' \subseteq Users \X (0..MaxRequests)
    BY <1>3, <1>6 DEF InvalidateResets, MarkUsed, IssueReset, AccountTypeOK
  <2>2. QED
    BY <1>6, <2>1, Assemble DEF InvalidateResets, MarkUsed, IssueReset, Rest, history, AccountTypeOK
<1>7. CASE DropReviews(p)
  <2>1. reviews' \subseteq Review
    BY <1>7 DEF DropReviews, AccountTypeOK
  <2>2. QED  BY <1>7, <2>1, Assemble DEF DropReviews, Rest, history, AccountTypeOK
<1>8. CASE Decide(p) \/ Ask(p)
  <2>1. postBan' \subseteq Users
    BY <1>3, <1>8 DEF Decide, Ask, history, AccountTypeOK
  <2>2. QED  BY <1>8, <2>1, TypedReviews, Assemble DEF Decide, Ask, Rest, history, AccountTypeOK
<1>9. CASE OpenSession(p)
  <2>1. late' \subseteq Users
    BY <1>3, <1>9 DEF OpenSession, AccountTypeOK
  <2>2. QED  BY <1>9, <2>1, TypedSessions, Assemble DEF OpenSession, Rest, AccountTypeOK
<1>10. CASE DropOld(p) \/ EndSessions(p)
  <2>1. late' \subseteq Users /\ sessions' \subseteq Session
    BY <1>3, <1>10 DEF DropOld, EndSessions, AccountTypeOK
  <2>2. QED  BY <1>10, <2>1, Assemble DEF DropOld, EndSessions, Rest, AccountTypeOK
<1>11. QED
  BY <1>4, <1>5, <1>6, <1>7, <1>8, <1>9, <1>10 DEF Statement

LEMMA TypedStep ==
    ASSUME Typed, Registered, [AccountNext]_vars
    PROVE  Typed'
<1>1. ASSUME NEW p \in Procs, Start(p)  PROVE Typed'
  BY <1>1, StartFacts, TypedStart
<1>2. ASSUME NEW p \in Procs, Statement(p)  PROVE Typed'
  BY <1>2, TypedStatement
<1>3. ASSUME NEW p \in Procs, Abort(p) \/ Ignore(p)  PROVE Typed'
  <2>1. Goes(p)
    BY <1>3, AbortGoes, IgnoreGoes DEF Goes
  <2>2. faults' \in 0..MaxFaults
    BY <1>3, Bounds DEF Abort, Ignore, Typed, AccountTypeOK
  <2>3. QED
    BY <1>3, <2>1, <2>2, Assemble DEF Abort, Ignore, history, Typed, AccountTypeOK
<1>4. CASE UNCHANGED vars
  BY <1>4 DEF vars, history, Typed, AccountTypeOK
<1>5. QED  BY <1>1, <1>2, <1>3, <1>4 DEF AccountNext

-----------------------------------------------------------------------------
(* Accounts are registered before anything refers to them.                 *)
LEMMA RegisteredInit == AccountInit => Registered
<1> SUFFICES ASSUME AccountInit PROVE Registered  OBVIOUS
<1>1. \A u \in Users : ~Known(u) => user[u].ban = 0
  BY InitUsers DEF Known
<1>2. \A s \in sessions : Known(s.user)
  BY DEF AccountInit, Admitted, Known
<1>3. \A p \in Procs : req[p].at = "idle"
  BY IdleFacts DEF AccountInit
<1>4. resets = {} /\ reviews = {}
  BY DEF AccountInit
<1>5. QED  BY <1>1, <1>2, <1>3, <1>4 DEF Registered

(* Nobody becomes unknown, and what is stored is of somebody known.        *)
LEMMA RegisteredKeeps ==
    ASSUME Typed, Registered, NEW p \in Procs, Moves(p),
           \A u \in Users : Known(u) => Known(u)',
           \A u \in Users : user'[u].role = "none" => user'[u].ban = user[u].ban \/ Known(u),
           \A s \in sessions' : s \in sessions \/ s.user = req[p].on,
           \A t \in resets' : t \in resets \/ t[1] = req[p].on,
           \A x \in reviews' : \/ x.user = req[p].on /\ x.ban # 0
                               \/ \E y \in reviews : x.user = y.user /\ x.ban = y.ban,
           req'[p].at \in {"idle", "register"} \/ user'[req'[p].on].role # "none",
           \/ sessions' \subseteq sessions /\ resets' \subseteq resets
              /\ \A x \in reviews' : \E y \in reviews : x.user = y.user /\ x.ban = y.ban
           \/ req[p].at \notin {"idle", "register"}
    PROVE  Registered'
<1>1. \A u \in Users : user'[u].role = "none" => user'[u].ban = 0
  BY DEF Registered, Known
<1>2. \A s \in sessions : s.user \in Users /\ Known(s.user)
  BY DEF Registered, Typed, AccountTypeOK, Session
<1>3. \A t \in resets : t[1] \in Users /\ Known(t[1])
  BY DEF Registered, Typed, AccountTypeOK
<1>4. \A x \in reviews : x.user \in Users /\ Known(x.user) /\ x.ban # 0
  BY DEF Registered, Typed, AccountTypeOK, Review
<1>5. req[p].at \notin {"idle", "register"} => req[p].on \in Users /\ Known(req[p].on)
  BY Has DEF Registered
<1>6. \A s \in sessions' : Known(s.user)'
  BY <1>2, <1>5
<1>7. \A t \in resets' : Known(t[1])'
  BY <1>3, <1>5
<1>8. \A x \in reviews' : Known(x.user)' /\ x.ban # 0
  BY <1>4, <1>5
<1>9. \A q \in Procs : req'[q].at \notin {"idle", "register"} => user'[req'[q].on].role # "none"
  <2>1. ASSUME NEW q \in Procs, q # p, req[q].at \notin {"idle", "register"}
        PROVE  user'[req[q].on].role # "none"
    BY <2>1, Has DEF Registered, Known
  <2>2. QED  BY <2>1 DEF Moves
<1>10. QED  BY <1>1, <1>6, <1>7, <1>8, <1>9 DEF Registered, Known

(* What a statement does to the rows.                                      *)
LEMMA UserFacts ==
    ASSUME Typed, Registered, NEW p \in Procs, Statement(p)
    PROVE  /\ \A u \in Users : u # req[p].on => user'[u] = user[u]
           /\ \A u \in Users : Known(u) => Known(u)'
           /\ \A u \in Users : user'[u].role = "none" => user'[u].ban = user[u].ban
           /\ req[p].at # "register" => Known(req[p].on)
           /\ req[p].at = "register" =>
                 \/ req'[p] = Idle
                 \/ user'[req[p].on].role # "none"
<1>1. Goes(p) /\ req[p].on \in Users /\ Reaches(req[p]) /\ req[p].upd \in Update
  BY StatementGoes, Has DEF Goes
<1>2. user \in [Users -> Account]
  BY DEF Typed, AccountTypeOK
<1>3. req[p].at # "register" => Known(req[p].on)
  BY <1>1 DEF Registered, Goes
<1>4. CASE WriteRow(p)
  <2> DEFINE row == CHOOSE x \in req[p].row : TRUE
  <2>1. row \in Account /\ row.role # "none" /\ req[p].at # "register"
    BY <1>1, <1>4, TheRow DEF WriteRow, Reaches
  <2>2. req[p].op = "update" => req[p].upd.role # "none"
    BY <1>1 DEF Update
  <2>3. WithColumns(row, req[p]).role # "none"
    BY <1>1, <2>1, <2>2 DEF WithColumns, Account
  <2>4. user' = [user EXCEPT ![req[p].on] = WithColumns(row, req[p])]
    BY <1>4 DEF WriteRow
  <2> HIDE DEF row
  <2>5. QED  BY <1>1, <1>2, <1>3, <2>1, <2>3, <2>4 DEF Known
<1>5. CASE SetActive(p)
  <2>1. /\ req[p].at # "register"
        /\ \A u \in Users : u # req[p].on => user'[u] = user[u]
        /\ user'[req[p].on].role = user[req[p].on].role
    BY <1>1, <1>2, <1>5 DEF SetActive, Account
  <2>2. QED  BY <1>3, <2>1 DEF Known
<1>6. CASE SetBan(p)
  <2>1. /\ req[p].at # "register"
        /\ \A u \in Users : u # req[p].on => user'[u] = user[u]
        /\ user'[req[p].on].role = user[req[p].on].role
    BY <1>1, <1>2, <1>6 DEF SetBan, Account
  <2>2. QED  BY <1>3, <2>1 DEF Known
<1>7. CASE Register(p)
  <2>1. CASE UNCHANGED user /\ Goto(p, "end")
    BY <1>7, <2>1, EndFacts DEF Register, Known
  <2>2. CASE ~(UNCHANGED user /\ Goto(p, "end"))
    <3>1. user' = [user EXCEPT ![req[p].on] =
                      [role |-> "user", active |-> TRUE, ban |-> 0, pw |-> 0]]
      BY <1>7, <2>2 DEF Register
    <3>2. user'[req[p].on].role = "user" /\ \A u \in Users : u # req[p].on => user'[u] = user[u]
      BY <1>1, <1>2, <3>1
    <3>3. QED  BY <1>3, <1>7, <3>2 DEF Known
  <2>3. QED  BY <2>1, <2>2
<1>8. CASE UNCHANGED user /\ req[p].at # "register"
  BY <1>3, <1>8 DEF Known
<1>9. WriteRow(p) \/ SetActive(p) \/ SetBan(p) \/ Register(p) \/ (UNCHANGED user /\ req[p].at # "register")
  BY DEF Statement, LoadRow, CountRoots, InvalidateResets, IssueReset, MarkUsed, CheckPart,
         DropReviews, Decide, CheckPending, CountReviews, Ask, CheckLogin, DropOld, OpenSession,
         EndSessions, history
<1>10. QED  BY <1>4, <1>5, <1>6, <1>7, <1>8, <1>9

(* What a statement does to the tables.                                    *)
LEMMA TableFacts ==
    ASSUME Typed, NEW p \in Procs, Statement(p)
    PROVE  /\ OpenSession(p) \/ sessions' \subseteq sessions
           /\ \A t \in resets' : t \in resets \/ (t[1] = req[p].on /\ req[p].at = "issue")
           /\ \/ \A x \in reviews' : \E y \in reviews : x.user = y.user /\ x.ban = y.ban /\ x.id = y.id
              \/ /\ req[p].at = "ask"
                 /\ reviews' = reviews \cup
                       {[user |-> req[p].on, ban |-> req[p].ref, status |-> "pending", id |-> req[p].n]}
<1>1. reviews \subseteq Review
  BY DEF Typed, AccountTypeOK
<1>2. CASE Decide(p)
  <2>1. ASSUME NEW x \in reviews'
        PROVE  \E y \in reviews : x.user = y.user /\ x.ban = y.ban /\ x.id = y.id
    <3>1. PICK y \in reviews, status \in {"approved", "denied"} : x = y \/ x = [y EXCEPT !.status = status]
      BY <1>2, <2>1 DEF Decide
    <3>2. QED  BY <1>1, <3>1 DEF Review
  <2>2. QED  BY <1>2, <2>1 DEF Decide
<1>3. CASE Ask(p)
  BY <1>3 DEF Ask
<1>4. CASE IssueReset(p)
  BY <1>4 DEF IssueReset
<1>5. CASE OpenSession(p)
  BY <1>5 DEF OpenSession
<1>6. CASE \/ InvalidateResets(p) \/ MarkUsed(p) \/ DropReviews(p) \/ DropOld(p) \/ EndSessions(p)
  BY <1>6 DEF InvalidateResets, MarkUsed, DropReviews, DropOld, EndSessions, history
<1>7. CASE \/ LoadRow(p) \/ CountRoots(p) \/ WriteRow(p) \/ CheckPart(p) \/ SetActive(p)
           \/ SetBan(p) \/ CheckPending(p) \/ CountReviews(p) \/ Register(p) \/ CheckLogin(p)
  <2>1. UNCHANGED <<sessions, resets, reviews>>
    BY <1>7
    DEF LoadRow, CountRoots, WriteRow, CheckPart, SetActive, SetBan, CheckPending, CountReviews,
        Register, CheckLogin
  <2>2. QED  BY <2>1
<1>8. QED  BY <1>2, <1>3, <1>4, <1>5, <1>6, <1>7 DEF Statement

LEMMA RegisteredStatement ==
    ASSUME Typed, Registered, NEW p \in Procs, Statement(p)
    PROVE  Registered'
<1>1. Goes(p) /\ req[p].on \in Users /\ Reaches(req[p])
  BY StatementGoes, Has DEF Goes
<1>2. req'[p].at \in {"idle", "register"} \/ user'[req'[p].on].role # "none"
  <2>1. CASE req'[p] = Idle
    BY <2>1, IdleFacts
  <2>2. CASE req'[p] # Idle
    <3>1. req'[p].on = req[p].on
      BY <1>1, <2>2 DEF Goes, Keeps
    <3>2. user'[req[p].on].role # "none"
      BY <1>1, <2>2, UserFacts DEF Known
    <3>3. QED  BY <3>1, <3>2
  <2>3. QED  BY <2>1, <2>2
<1>3. req[p].at # "idle"
  BY <1>1 DEF Goes
<1>4. \A s \in sessions' : s \in sessions \/ s.user = req[p].on
  BY TableFacts, TypedSessions
<1>5. \A t \in resets' : t \in resets \/ t[1] = req[p].on
  BY TableFacts
<1>6. \A x \in reviews' : \/ x.user = req[p].on /\ x.ban # 0
                          \/ \E y \in reviews : x.user = y.user /\ x.ban = y.ban
  <2>1. req[p].at = "ask" => req[p].ref # 0
    BY <1>1 DEF Reaches
  <2>2. QED  BY <2>1, TableFacts
<1>7. req[p].at = "register" =>
         /\ sessions' \subseteq sessions /\ resets' \subseteq resets
         /\ \A x \in reviews' : \E y \in reviews : x.user = y.user /\ x.ban = y.ban
  BY TableFacts DEF OpenSession
<1>8. \A u \in Users : user'[u].role = "none" => user'[u].ban = user[u].ban \/ Known(u)
  BY UserFacts
<1>9. \A u \in Users : Known(u) => Known(u)'
  BY UserFacts
<1>10. Moves(p)
  BY <1>1 DEF Goes
<1>11. QED
  BY <1>2, <1>3, <1>4, <1>5, <1>6, <1>7, <1>8, <1>9, <1>10, RegisteredKeeps

LEMMA RegisteredStep ==
    ASSUME Typed, Registered, [AccountNext]_vars
    PROVE  Registered'
<1>1. ASSUME NEW p \in Procs, Start(p)  PROVE Registered'
  <2>1. Begun(p)
    BY <1>1, StartFacts
  <2>2. UNCHANGED <<user, sessions, resets, reviews>>
    BY <2>1 DEF Begun
  <2>3. req'[p].at = "register" \/ user[req'[p].on].role # "none"
    BY <2>1 DEF Begun, Known
  <2>4. \A q \in Procs : q # p => req'[q] = req[q]
    BY <2>1 DEF Begun, Moves
  <2>5. QED  BY <2>2, <2>3, <2>4 DEF Registered, Known
<1>2. ASSUME NEW p \in Procs, Statement(p)  PROVE Registered'
  BY <1>2, RegisteredStatement
<1>3. ASSUME NEW p \in Procs, Abort(p) \/ Ignore(p)  PROVE Registered'
  <2>1. Goes(p)
    BY <1>3, AbortGoes, IgnoreGoes DEF Goes
  <2>2. UNCHANGED <<user, sessions, resets, reviews>>
    BY <1>3 DEF Abort, Ignore
  <2>3. req[p].at # "register" \/ Abort(p)
    BY <1>3 DEF Ignore, Ignored
  <2>4. req'[p].at = "idle" \/ (req[p].at \notin {"idle", "register"} /\ req'[p].on = req[p].on)
    BY <2>1, <2>3, AbortGoes, IdleFacts DEF Goes, Keeps
  <2>5. QED  BY <2>1, <2>2, <2>4 DEF Registered, Known, Goes, Moves
<1>4. CASE UNCHANGED vars
  BY <1>4 DEF vars, Registered, Known
<1>5. QED  BY <1>1, <1>2, <1>3, <1>4 DEF AccountNext

LEMMA TypedAlways == AccountSpec => [](Typed /\ Registered)
<1>1. AccountInit => Typed /\ Registered
  BY TypedInit, RegisteredInit
<1>2. Typed /\ Registered /\ [AccountNext]_vars => (Typed /\ Registered)'
  BY TypedStep, RegisteredStep
<1>3. QED  BY <1>1, <1>2, PTL DEF AccountSpec

(* Rows, sessions, reviews and tokens stay in their domains through every  *)
(* interleaving of the requests: none stores a row, a session or a claim   *)
(* from something it has not read.                                         *)
THEOREM AccountTypes == AccountSpec => []AccountTypeOK
<1>1. Typed => AccountTypeOK
  BY DEF Typed
<1>2. QED  BY <1>1, TypedAlways, PTL

LEMMA GotoLabel ==
    ASSUME Typed, NEW p \in Procs, NEW at, Goto(p, at)
    PROVE  req'[p].at = IF at = "end" THEN "idle" ELSE at
  BY Has, IdleFacts DEF Goto, Typed, Request

-----------------------------------------------------------------------------
(* Two roots demoting each other.                                          *)
LEMMA AnotherRoot ==
    ASSUME ~(Cardinality(Roots) <= 1), NEW u
    PROVE  \E v \in Roots : v # u
<1> SUFFICES ASSUME Roots \subseteq {u} PROVE FALSE  OBVIOUS
<1>1. CASE Roots = {}
  BY <1>1, FS_EmptySet
<1>2. CASE Roots = {u}
  <2>1. Cardinality({u}) = 1
    BY FS_Singleton
  <2>2. QED  BY <1>2, <2>1
<1>3. QED  BY <1>1, <1>2

LEMMA GuardedInit == AccountInit => Guarded
  BY IdleFacts DEF AccountInit, Guarded

LEMMA GuardedStep ==
    ASSUME Typed, Registered, Guarded, [AccountNext]_vars
    PROVE  Guarded'
<1>1. ASSUME NEW p \in Procs, Start(p)  PROVE Guarded'
  BY <1>1, StartFacts DEF Begun, Moves, Guarded, Light
<1>2. ASSUME NEW p \in Procs, Statement(p)  PROVE Guarded'
  <2>1. Goes(p)
    BY <1>2, StatementGoes
  <2>2. SUFFICES ASSUME req'[p].at = "write", req'[p].saw # {}
                 PROVE  \E u \in req'[p].saw : u # req'[p].on
    BY <2>1 DEF Goes, Moves, Guarded
  <2>3. req'[p] # Idle /\ req'[p].on = req[p].on
    BY <2>1, <2>2, IdleFacts DEF Goes, Keeps
  <2>4. CASE CountRoots(p)
    <3>1. req'[p].saw = Roots /\ ~(Cardinality(Roots) <= 1)
      BY <2>3, <2>4, CountRootsGoes
    <3>2. QED  BY <2>3, <3>1, AnotherRoot
  <2>5. CASE LoadRow(p)
    <3>1. /\ req'[p].saw = req[p].saw
          /\ req[p].op = "refresh" => req'[p].at = "rotate"
      BY <2>3, <2>5, LoadRowGoes
    <3>2. req[p].saw # {} /\ req[p].op # "refresh"
      BY <2>2, <3>1
    <3>3. Reaches(req[p]) /\ req[p].at \in {"load", "role"}
      BY <2>5, Has DEF LoadRow
    <3>4. QED  BY <3>2, <3>3 DEF Reaches
  <2>6. CASE ~CountRoots(p) /\ ~LoadRow(p)
    <3>1. req'[p].at # "write"
      <4>1. CASE DropOld(p)
        <5>1. req[p].at = "rotate" /\ Goto(p, "open")
          BY <4>1 DEF DropOld, Ahead
        <5>2. QED  BY <5>1, RotateGoes DEF Took
      <4>2. QED
        BY <1>2, <2>3, <2>6, <4>1, CheckPendingGoes, CountReviewsGoes, EnterGoes, LightGoes
        DEF Statement, Light
    <3>2. QED  BY <2>2, <3>1
  <2>7. QED  BY <2>4, <2>5, <2>6
<1>3. ASSUME NEW p \in Procs, Abort(p)  PROVE Guarded'
  BY <1>3, AbortGoes, IdleFacts DEF Moves, Guarded
<1>4. ASSUME NEW p \in Procs, Ignore(p)  PROVE Guarded'
  <2>1. Goes(p)
    BY <1>4, IgnoreGoes
  <2>2. PICK at : Goto(p, at) /\ at # "write"
    <3>1. CASE req[p].at = "rotate"
      BY <1>4, <3>1 DEF Ignore, Ahead
    <3>2. CASE req[p].at # "rotate"
      BY <1>4, <3>2, AheadIsLight DEF Ignore, Light
    <3>3. QED  BY <3>1, <3>2
  <2>3. req'[p].at # "write"
    BY <2>2, GotoLabel
  <2>4. QED  BY <2>1, <2>3 DEF Goes, Moves, Guarded
<1>5. CASE UNCHANGED vars
  BY <1>5 DEF vars, Guarded
<1>6. QED  BY <1>1, <1>2, <1>3, <1>4, <1>5 DEF AccountNext

(* Two roots that demote each other at once cannot both go through: the    *)
(* last root loses the role only to a request that counted other roots     *)
(* than there are when it writes.                                          *)
THEOREM LastRoot == AccountSpec => LastRootKept
<1>1. ASSUME Typed, Registered, Guarded, [AccountNext]_vars, Roots # {}, Roots' = {}
      PROVE  \E p \in Procs : req[p].at = "write" /\ req[p].saw # Roots
  <2>1. PICK p \in Procs : Start(p) \/ Statement(p) \/ Abort(p) \/ Ignore(p)
    BY <1>1 DEF AccountNext, vars, Roots
  <2>2. user' # user
    BY <1>1 DEF Roots
  <2>3. Statement(p)
    BY <1>1, <2>1, <2>2, StartFacts DEF Begun, Abort, Ignore
  <2>4. \A u \in Users : u # req[p].on => user'[u] = user[u]
    BY <1>1, <2>3, UserFacts
  <2>5. PICK u \in Users : user[u].role = "root" /\ user'[u].role # "root"
    BY <1>1 DEF Roots
  <2>6. u = req[p].on
    BY <2>4, <2>5
  <2>7. WriteRow(p)
    <3>1. user \in [Users -> Account]
      BY <1>1 DEF Typed, AccountTypeOK
    <3>2. ~SetActive(p)
      BY <2>5, <2>6, <3>1 DEF SetActive, Account
    <3>3. ~SetBan(p)
      <4>1. SetBan(p) => user'[req[p].on].role = user[req[p].on].role
        BY <2>6, <3>1 DEF SetBan, Account
      <4>2. QED  BY <2>5, <2>6, <4>1
    <3>4. ~Register(p)
      BY <2>2, <2>5, <2>6 DEF Register
    <3>5. QED
      BY <2>2, <2>3, <3>2, <3>3, <3>4
      DEF Statement, LoadRow, CountRoots, InvalidateResets, IssueReset, MarkUsed, CheckPart,
          DropReviews, Decide, CheckPending, CountReviews, Ask, CheckLogin, DropOld, OpenSession,
          EndSessions
  <2>8. req[p].saw # Roots
    <3>1. SUFFICES ASSUME req[p].saw = Roots PROVE FALSE  OBVIOUS
    <3>2. PICK v \in Roots : v # u
      BY <1>1, <2>6, <2>7, <3>1 DEF Guarded, WriteRow
    <3>3. v \in Roots'
      BY <2>4, <2>6, <3>2 DEF Roots
    <3>4. QED  BY <1>1, <3>3
  <2>9. QED  BY <2>7, <2>8 DEF WriteRow
<1>2. Typed /\ Registered /\ Guarded /\ [AccountNext]_vars =>
        [Roots # {} /\ Roots' = {} =>
            \E p \in Procs : req[p].at = "write" /\ req[p].saw # Roots]_vars
  BY <1>1
<1>3. QED
  BY <1>2, TypedAlways, GuardedInit, GuardedStep, PTL DEF AccountSpec, LastRootKept

-----------------------------------------------------------------------------
(* A ban holds.                                                            *)
LEMMA BanChanges ==
    ASSUME Typed, Registered, NEW p \in Procs, Statement(p), NEW u \in Users,
           user'[u].ban # user[u].ban
    PROVE  /\ u = req[p].on
           /\ SetBan(p) \/ (WriteRow(p) /\ \A row \in req[p].row : row.ban # user[u].ban)
<1>1. user \in [Users -> Account]
  BY DEF Typed, AccountTypeOK
<1>2. u = req[p].on
  BY UserFacts
<1>3. ~SetActive(p)
  BY <1>1, <1>2 DEF SetActive, Account
<1>4. ~Register(p)
  <2>1. SUFFICES ASSUME Register(p) PROVE FALSE  OBVIOUS
  <2>2. user[u].role = "none" /\ user'[u].ban = 0
    BY <1>1, <1>2, <2>1 DEF Register
  <2>3. QED  BY <2>2 DEF Registered, Known
<1>5. CASE WriteRow(p)
  <2> DEFINE row == CHOOSE x \in req[p].row : TRUE
  <2>1. row \in Account /\ req[p].row = {row}
    BY <1>5, Has, TheRow DEF WriteRow, Reaches
  <2>2. WithColumns(row, req[p]).ban = row.ban
    BY <2>1 DEF WithColumns, Account
  <2>3. user' = [user EXCEPT ![u] = WithColumns(row, req[p])]
    BY <1>2, <1>5 DEF WriteRow
  <2> HIDE DEF row
  <2>4. user'[u].ban = row.ban
    BY <1>1, <2>2, <2>3
  <2>5. QED  BY <1>2, <1>5, <2>1, <2>4
<1>6. CASE ~WriteRow(p)
  <2>1. SetBan(p)
    BY <1>3, <1>4, <1>6
    DEF Statement, LoadRow, CountRoots, InvalidateResets, IssueReset, MarkUsed, CheckPart,
        DropReviews, Decide, CheckPending, CountReviews, Ask, CheckLogin, DropOld, OpenSession,
        EndSessions
  <2>2. QED  BY <1>2, <2>1
<1>7. QED  BY <1>5, <1>6

(* A ban in force ends by an unban or an approved review, or is undone by  *)
(* a request that had read the row before the ban was stored: no other     *)
(* interleaving of whole-row and single-column writes loses it.            *)
THEOREM BanIsKept == AccountSpec => BanHolds
<1>1. ASSUME Typed, Registered, [AccountNext]_vars, NEW u \in Users,
             user[u].ban # 0, user'[u].ban # user[u].ban
      PROVE  \E p \in Procs : /\ req[p].on = u
                              /\ \/ req[p].at = "setBan"
                                 \/ /\ req[p].at = "write"
                                    /\ \A row \in req[p].row : row.ban # user[u].ban
  <2>1. PICK p \in Procs : Start(p) \/ Statement(p) \/ Abort(p) \/ Ignore(p)
    BY <1>1 DEF AccountNext, vars
  <2>2. Statement(p)
    BY <1>1, <2>1, StartFacts DEF Begun, Abort, Ignore
  <2>3. QED  BY <1>1, <2>2, BanChanges DEF SetBan, WriteRow
<1>2. Typed /\ Registered /\ [AccountNext]_vars =>
        [\A u \in Users : user[u].ban # 0 /\ user'[u].ban # user[u].ban =>
            \E p \in Procs : /\ req[p].on = u
                             /\ \/ req[p].at = "setBan"
                                \/ /\ req[p].at = "write"
                                   /\ \A row \in req[p].row : row.ban # user[u].ban]_vars
  BY <1>1
<1>3. QED  BY <1>2, TypedAlways, PTL DEF AccountSpec, BanHolds

-----------------------------------------------------------------------------
(* The reviews of a ban.                                                   *)

(* A review is of the ban in force, or what ended the ban is to delete it, *)
(* or something came in between.                                           *)
Current(x) ==
    \/ x.ban = user[x.user].ban
    \/ x.user \in stale \cup postBan \/ faults > 0
    \/ \E p \in Procs : req[p].on = x.user /\ req[p].at = "dropReviews"

LEMMA HistoryGrows ==
    ASSUME NEW p \in Procs, Statement(p)
    PROVE  stale \subseteq stale' /\ late \subseteq late' /\ postBan \subseteq postBan' /\ faults' = faults
<1>1. CASE WriteRow(p)
  BY <1>1 DEF WriteRow, Rest
<1>2. CASE Ask(p)
  BY <1>2 DEF Ask, Rest
<1>3. CASE DropOld(p) \/ OpenSession(p) \/ EndSessions(p)
  BY <1>3 DEF DropOld, OpenSession, EndSessions, Rest
<1>4. CASE ~WriteRow(p) /\ ~Ask(p) /\ ~DropOld(p) /\ ~OpenSession(p) /\ ~EndSessions(p)
  BY <1>4
  DEF Statement, LoadRow, CountRoots, InvalidateResets, IssueReset, MarkUsed, CheckPart, SetActive,
      SetBan, DropReviews, Decide, CheckPending, CountReviews, Register, CheckLogin, Rest, history
<1>5. QED  BY <1>1, <1>2, <1>3, <1>4

LEMMA UnbanDropsReviews ==
    ASSUME Typed, NEW p \in Procs, SetBan(p), user[req[p].on].ban # 0,
           user'[req[p].on].ban # user[req[p].on].ban
    PROVE  req'[p].at = "dropReviews" /\ req'[p].on = req[p].on
<1>1. req[p].on \in Users /\ req[p].at = "setBan" /\ user \in [Users -> Account]
  BY Has DEF SetBan, Typed, AccountTypeOK
<1>2. ~(req[p].op = "update" /\ req[p].upd.ban = "yes")
  <2>1. SUFFICES ASSUME req[p].op = "update" /\ req[p].upd.ban = "yes" PROVE FALSE  OBVIOUS
  <2>2. user'[req[p].on].ban = user[req[p].on].ban
    BY <1>1, <2>1 DEF SetBan, Account
  <2>3. QED  BY <2>2
<1>3. Goto(p, "dropReviews")
  BY <1>2 DEF SetBan, AfterBan
<1>4. QED  BY <1>1, <1>3, GotoFacts DEF Light, Keeps

LEMMA CurrentStatement ==
    ASSUME Typed, Registered, ReviewsOfThisBan, NEW p \in Procs, Statement(p)
    PROVE  ReviewsOfThisBan'
<1>1. Goes(p) /\ req[p].on \in Users
  BY StatementGoes, Has DEF Goes
<1>2. \A x \in reviews : x.user \in Users /\ x.ban # 0 /\ Current(x)
  BY DEF Typed, AccountTypeOK, Review, Registered, ReviewsOfThisBan, Current
<1>3. ASSUME NEW x, NEW y \in reviews, x.user = y.user, x.ban = y.ban,
             DropReviews(p) => x.user # req[p].on
      PROVE  Current(x)'
  <2>1. CASE y.ban = user[y.user].ban
    <3>1. CASE user'[y.user].ban = user[y.user].ban
      BY <1>3, <2>1, <3>1 DEF Current
    <3>2. CASE user'[y.user].ban # user[y.user].ban
      <4>1. /\ y.user = req[p].on
            /\ SetBan(p) \/ (WriteRow(p) /\ \A row \in req[p].row : row.ban # user[y.user].ban)
        BY <1>2, <3>2, BanChanges
      <4>2. CASE SetBan(p)
        BY <1>2, <1>3, <2>1, <3>2, <4>1, <4>2, UnbanDropsReviews DEF Current
      <4>3. CASE WriteRow(p) /\ \A row \in req[p].row : row.ban # user[y.user].ban
        <5>1. (CHOOSE row \in req[p].row : TRUE) \in req[p].row
          BY <4>3, Has, TheRow DEF WriteRow, Reaches
        <5>2. y.user \in stale'
          BY <4>1, <4>3, <5>1 DEF WriteRow
        <5>3. QED  BY <1>3, <5>2 DEF Current
      <4>4. QED  BY <4>1, <4>2, <4>3
    <3>3. QED  BY <3>1, <3>2
  <2>2. CASE y.user \in stale \cup postBan \/ faults > 0
    BY <1>3, <2>2, HistoryGrows DEF Current
  <2>3. CASE \E q \in Procs : req[q].on = y.user /\ req[q].at = "dropReviews"
    <3>1. PICK q \in Procs : req[q].on = y.user /\ req[q].at = "dropReviews"
      BY <2>3
    <3>2. CASE q = p
      <4>1. DropReviews(p)
        BY <3>1, <3>2
        DEF Statement, LoadRow, CountRoots, WriteRow, InvalidateResets, IssueReset, MarkUsed,
            CheckPart, SetActive, SetBan, Decide, CheckPending, CountReviews, Ask, Register,
            CheckLogin, DropOld, OpenSession, EndSessions
      <4>2. QED  BY <1>3, <3>1, <3>2, <4>1
    <3>3. CASE q # p
      <4>1. req'[q] = req[q]
        BY <1>1, <3>3 DEF Goes, Moves
      <4>2. QED  BY <1>3, <3>1, <4>1 DEF Current
    <3>4. QED  BY <3>2, <3>3
  <2>4. QED  BY <1>2, <2>1, <2>2, <2>3 DEF Current
<1>4. CASE Ask(p)
  <2>1. UNCHANGED user /\ reviews' = reviews \cup
          {[user |-> req[p].on, ban |-> req[p].ref, status |-> "pending", id |-> req[p].n]}
    BY <1>4 DEF Ask
  <2>2. ~DropReviews(p)
    BY <1>4 DEF Ask, DropReviews
  <2>3. req[p].ref = user'[req[p].on].ban \/ req[p].on \in postBan'
    BY <1>4, <2>1 DEF Ask
  <2>4. ASSUME NEW x \in reviews', x \notin reviews  PROVE Current(x)'
    BY <2>1, <2>3, <2>4 DEF Current
  <2>5. \A x \in reviews' : Current(x)'
    BY <1>3, <2>2, <2>4
  <2>6. QED  BY <2>5 DEF ReviewsOfThisBan, Current
<1>5. CASE ~Ask(p)
  <2>1. \A x \in reviews' : \E y \in reviews : x.user = y.user /\ x.ban = y.ban
    BY <1>5, TableFacts
    DEF Statement, LoadRow, CountRoots, WriteRow, InvalidateResets, IssueReset, MarkUsed,
        CheckPart, SetActive, SetBan, DropReviews, Decide, CheckPending, CountReviews, Register,
        CheckLogin, DropOld, OpenSession, EndSessions
  <2>2. DropReviews(p) => \A x \in reviews' : x.user # req[p].on
    BY DEF DropReviews, ReviewsOf
  <2>3. \A x \in reviews' : Current(x)'
    BY <1>3, <2>1, <2>2
  <2>4. QED  BY <2>3 DEF ReviewsOfThisBan, Current
<1>6. QED  BY <1>4, <1>5

LEMMA CurrentStep ==
    ASSUME Typed, Registered, ReviewsOfThisBan, [AccountNext]_vars
    PROVE  ReviewsOfThisBan'
<1>1. ASSUME NEW p \in Procs, Start(p)  PROVE ReviewsOfThisBan'
  <2>1. /\ UNCHANGED <<user, reviews, stale, postBan, faults>>
        /\ req[p].at = "idle" /\ \A q \in Procs : q # p => req'[q] = req[q]
    BY <1>1, StartFacts, IdleFacts DEF Begun, Moves, history
  <2>2. QED  BY <2>1 DEF ReviewsOfThisBan
<1>2. ASSUME NEW p \in Procs, Statement(p)  PROVE ReviewsOfThisBan'
  BY <1>2, CurrentStatement
<1>3. ASSUME NEW p \in Procs, Abort(p) \/ Ignore(p)  PROVE ReviewsOfThisBan'
  <2>1. faults \in Nat /\ faults' = faults + 1
    BY <1>3, Bounds DEF Abort, Ignore, Typed, AccountTypeOK
  <2>2. faults' > 0
    BY <2>1
  <2>3. QED  BY <2>2 DEF ReviewsOfThisBan
<1>4. CASE UNCHANGED vars
  BY <1>4 DEF vars, history, ReviewsOfThisBan
<1>5. QED  BY <1>1, <1>2, <1>3, <1>4 DEF AccountNext

(* A new ban comes with fresh attempts: no review of an earlier one is     *)
(* left, but those a request is about to delete, those stored when their   *)
(* ban was over, and those left by a stale row or a fault.                 *)
THEOREM FreshAttempts == AccountSpec => []ReviewsOfThisBan
<1>1. AccountInit => ReviewsOfThisBan
  BY DEF AccountInit, ReviewsOfThisBan
<1>2. QED  BY <1>1, TypedAlways, CurrentStep, PTL DEF AccountSpec

-----------------------------------------------------------------------------
(* What a request has seen, and the session it opens.                      *)
SawAhead(p) ==
    \/ req'[p] = Idle
    \/ req'[p].saw = req[p].saw
    \/ req[p].op = "update"
    \/ /\ req[p].op = "ask" /\ req'[p].at = "countReviews"
       /\ req'[p].saw = ReviewsOf(req[p].on)
       /\ \A x \in ReviewsOf(req[p].on) : x.status # "pending"

LEMMA SawFacts ==
    ASSUME Typed, Registered, NEW p \in Procs, Statement(p)
    PROVE  SawAhead(p)
<1>1. CASE LoadRow(p)
  BY <1>1, LoadRowGoes DEF SawAhead
<1>2. CASE CountRoots(p)
  BY <1>2, Has DEF SawAhead, CountRoots, Reaches
<1>3. CASE CheckPending(p)
  BY <1>3, CheckPendingGoes, Has DEF SawAhead, CheckPending, Reaches
<1>4. CASE CountReviews(p)
  BY <1>4, CountReviewsGoes DEF SawAhead
<1>5. CASE Register(p) \/ CheckLogin(p)
  BY <1>5, EnterGoes DEF SawAhead
<1>6. CASE DropOld(p)
  <2>1. req[p].at = "rotate" /\ Goto(p, "open")
    BY <1>6 DEF DropOld, Ahead
  <2>2. QED  BY <2>1, RotateGoes DEF Took, SawAhead
<1>7. QED
  BY <1>1, <1>2, <1>3, <1>4, <1>5, <1>6, LightGoes DEF Statement, SawAhead

LEMMA IgnoreSaw ==
    ASSUME Typed, NEW p \in Procs, Ignore(p)
    PROVE  req'[p] = Idle \/ req'[p].saw = req[p].saw
<1>1. req[p].at # "idle" /\ Goto(p, Ahead(req[p]))
  BY DEF Ignore, Ignored
<1>2. CASE req[p].at = "rotate"
  <2>1. Goto(p, "open")
    BY <1>1, <1>2 DEF Ahead
  <2>2. QED  BY <1>2, <2>1, RotateGoes DEF Took
<1>3. CASE req[p].at # "rotate"
  <2>1. Ahead(req[p]) \in Light \cup {"end"} /\ "idle" \notin Light /\ "end" \notin Light
    BY <1>3, AheadIsLight DEF Light
  <2>2. QED  BY <1>1, <2>1, EndFacts, GotoFacts
<1>4. QED  BY <1>2, <1>3

(* A refresh renews the login of the session it was sent with, a login is  *)
(* numbered by its request and rests on the row it was admitted with.      *)
Opens(p, new, row) ==
    /\ sessions' = sessions \cup {new} /\ new \in Session /\ new.user = req[p].on
    /\ req[p].row = {row} /\ row \in Account
    /\ late' = IF user[req[p].on] # row THEN late \cup {req[p].on} ELSE late
    /\ \/ /\ req[p].op = "refresh"
          /\ \E old \in Session : /\ req[p].saw = {old} /\ old.user = req[p].on
                                  /\ new.login = old.login /\ new.pw = old.pw
       \/ /\ req[p].op \in {"signup", "login"}
          /\ new.login = req[p].n /\ new.pw = row.pw
          /\ row.role # "none" /\ row.ban = 0 /\ row.active

LEMMA OpenFacts ==
    ASSUME Typed, NEW p \in Procs, OpenSession(p)
    PROVE  \E new, row : Opens(p, new, row)
<1>1. /\ req[p].on \in Users /\ Reaches(req[p]) /\ req[p].n \in 0..MaxRequests
      /\ req[p].at = "open"
  BY Has DEF OpenSession
<1> DEFINE row == CHOOSE x \in req[p].row : TRUE
           old == CHOOSE s \in req[p].saw : TRUE
           new == IF req[p].op = "refresh" THEN [old EXCEPT !.id = req[p].n]
                  ELSE [user |-> req[p].on, login |-> req[p].n, id |-> req[p].n, pw |-> row.pw]
<1>2. row \in Account /\ row.role # "none" /\ req[p].row = {row}
  BY <1>1, TheRow DEF Reaches
<1>3. /\ sessions' = sessions \cup {new}
      /\ late' = IF user[req[p].on] # row THEN late \cup {req[p].on} ELSE late
  BY DEF OpenSession
<1>4. CASE req[p].op = "refresh"
  <2>1. old \in Session /\ old.user = req[p].on /\ req[p].saw = {old}
    BY <1>1, <1>4, TheSession DEF Reaches
  <2>2. new = [old EXCEPT !.id = req[p].n]
    BY <1>4
  <2> HIDE DEF old, new
  <2>3. new \in Session /\ new.user = old.user /\ new.login = old.login /\ new.pw = old.pw
    BY <1>1, <2>1, <2>2 DEF Session
  <2> HIDE DEF row
  <2>4. QED  BY <1>2, <1>3, <1>4, <2>1, <2>3 DEF Opens
<1>5. CASE req[p].op # "refresh"
  <2>1. new = [user |-> req[p].on, login |-> req[p].n, id |-> req[p].n, pw |-> row.pw]
    BY <1>5
  <2>2. req[p].op \in {"signup", "login"} /\ row.ban = 0 /\ row.active
    BY <1>1, <1>2, <1>5 DEF Reaches
  <2>3. row.pw \in 0..MaxRequests
    BY <1>2 DEF Account
  <2> HIDE DEF old, new, row
  <2>4. new \in Session /\ new.user = req[p].on /\ new.login = req[p].n /\ new.pw = row.pw
    BY <1>1, <2>1, <2>3 DEF Session
  <2>5. QED  BY <1>2, <1>3, <2>2, <2>4 DEF Opens
<1>6. QED  BY <1>4, <1>5

-----------------------------------------------------------------------------
(* Requests and what they store have numbers of their own.                 *)
LEMMA FreshInit == AccountInit => Fresh
<1> SUFFICES ASSUME AccountInit PROVE Fresh  OBVIOUS
<1>1. \A p \in Procs : req[p] = Idle
  BY DEF AccountInit
<1>2. \A s \in sessions : s.login = 0
  BY DEF AccountInit
<1>3. started = 0 /\ reviews = {}
  BY DEF AccountInit
<1>4. QED  BY <1>1, <1>2, <1>3, IdleFacts DEF Fresh, NewLogin

(* A request that goes on or ends gives up no number.                      *)
LEMMA NumbersStay ==
    ASSUME Typed, NEW p \in Procs, Goes(p), started' = started
    PROVE  /\ \A x : NewReview(x) => NewReview(x)'
           /\ \A s : NewLogin(s) => NewLogin(s)'
<1>1. \A q \in Procs : req'[q] = Idle \/ (req'[q].op = req[q].op /\ req'[q].n = req[q].n)
  BY DEF Goes, Moves, Keeps
<1>2. QED  BY <1>1, IdleFacts DEF NewReview, NewLogin

LEMMA FreshGoes ==
    ASSUME Typed, Fresh, NEW p \in Procs, Goes(p), started' = started,
           \A x \in reviews' : NewReview(x)', \A s \in sessions' : NewLogin(s)',
           req'[p].op = "ask" => \A x \in req'[p].saw : NewReview(x)',
           req'[p].op = "refresh" => \A s \in req'[p].saw : NewLogin(s)'
    PROVE  Fresh'
<1>1. /\ \A x : NewReview(x) => NewReview(x)'
      /\ \A s : NewLogin(s) => NewLogin(s)'
  BY NumbersStay
<1>2. \A q \in Procs : q # p => req'[q] = req[q]
  BY DEF Goes, Moves
<1>3. req'[p].at = "idle" \/ (req'[p].n = req[p].n /\ req[p].at # "idle")
  BY IdleFacts DEF Goes, Keeps
<1>4. \A q, r \in Procs : q # r /\ req'[q].at # "idle" /\ req'[r].at # "idle" => req'[q].n # req'[r].n
  BY <1>2, <1>3 DEF Fresh
<1>5. \A q \in Procs : req'[q].op = "ask" => \A x \in req'[q].saw : NewReview(x)'
  BY <1>1, <1>2 DEF Fresh
<1>6. \A q \in Procs : req'[q].op = "refresh" => \A s \in req'[q].saw : NewLogin(s)'
  BY <1>1, <1>2 DEF Fresh
<1>7. QED  BY <1>4, <1>5, <1>6 DEF Fresh

LEMMA FreshStatement ==
    ASSUME Typed, Registered, Fresh, NEW p \in Procs, Statement(p)
    PROVE  Fresh'
<1>1. Goes(p) /\ started' = started /\ req[p].at # "idle"
  <2>1. started' = started
    BY DEF Statement, LoadRow, CountRoots, WriteRow, InvalidateResets, IssueReset, MarkUsed,
        CheckPart, SetActive, SetBan, DropReviews, Decide, CheckPending, CountReviews, Ask, Register,
        CheckLogin, DropOld, OpenSession, EndSessions, Rest
  <2>2. QED  BY <2>1, StatementGoes DEF Goes
<1>2. /\ \A x : NewReview(x) => NewReview(x)'
      /\ \A s : NewLogin(s) => NewLogin(s)'
  BY <1>1, NumbersStay
<1>3. started \in Nat /\ req[p].n \in 0..started
  BY Bounds DEF Typed, AccountTypeOK
<1>4. \A x \in reviews' : NewReview(x)'
  <2>1. CASE Ask(p)
    <3>1. req'[p] = Idle /\ reviews' = reviews \cup
            {[user |-> req[p].on, ban |-> req[p].ref, status |-> "pending", id |-> req[p].n]}
      BY <2>1, EndFacts DEF Ask
    <3>2. \A q \in Procs : req'[q] = Idle \/ (q # p /\ req'[q] = req[q])
                           \/ req'[q].at = "idle"
      BY <1>1, <3>1 DEF Goes, Moves
    <3>3. \A q \in Procs : req'[q].op = "ask" => req'[q].n # req[p].n
      <4>1. ASSUME NEW q \in Procs, req'[q].op = "ask"  PROVE req'[q].n # req[p].n
        <5>1. q # p /\ req'[q] = req[q]
          BY <1>1, <3>1, <4>1, IdleFacts DEF Goes, Moves
        <5>2. req[q].at # "idle"
          BY <4>1, <5>1, IdleFacts DEF Typed, Legal
        <5>3. QED  BY <1>1, <5>1, <5>2 DEF Fresh
      <4>2. QED  BY <4>1
    <3>4. ASSUME NEW x \in reviews', x \notin reviews  PROVE NewReview(x)'
      BY <1>1, <1>3, <3>1, <3>3, <3>4 DEF NewReview
    <3>5. QED  BY <1>2, <3>4 DEF Fresh
  <2>2. CASE ~Ask(p)
    <3>1. \A x \in reviews' : \E y \in reviews : x.id = y.id
      BY <2>2, TableFacts
      DEF Statement, LoadRow, CountRoots, WriteRow, InvalidateResets, IssueReset, MarkUsed,
          CheckPart, SetActive, SetBan, DropReviews, Decide, CheckPending, CountReviews, Register,
          CheckLogin, DropOld, OpenSession, EndSessions
    <3>2. QED  BY <1>2, <3>1 DEF Fresh, NewReview
  <2>3. QED  BY <2>1, <2>2
<1>5. \A s \in sessions' : NewLogin(s)'
  <2>1. CASE OpenSession(p)
    <3>1. PICK new, row : Opens(p, new, row)
      BY <2>1, OpenFacts
    <3>2. req'[p] = Idle
      BY <2>1, EndFacts DEF OpenSession
    <3>3. NewLogin(new)'
      <4>1. CASE req[p].op = "refresh"
        <5>1. PICK old : req[p].saw = {old} /\ new.login = old.login
          BY <3>1, <4>1 DEF Opens
        <5>2. NewLogin(old)'
          BY <1>2, <4>1, <5>1 DEF Fresh
        <5>3. QED  BY <5>1, <5>2 DEF NewLogin
      <4>2. CASE req[p].op # "refresh"
        <5>1. new.login = req[p].n
          BY <3>1, <4>2 DEF Opens
        <5>2. \A q \in Procs : req'[q].op \in {"signup", "login"} => req'[q].n # req[p].n
          <6>1. ASSUME NEW q \in Procs, req'[q].op \in {"signup", "login"}
                PROVE  req'[q].n # req[p].n
            <7>1. q # p /\ req'[q] = req[q]
              BY <1>1, <3>2, <6>1, IdleFacts DEF Goes, Moves
            <7>2. req[q].at # "idle"
              BY <6>1, <7>1, IdleFacts DEF Typed, Legal
            <7>3. QED  BY <1>1, <7>1, <7>2 DEF Fresh
          <6>2. QED  BY <6>1
        <5>3. QED  BY <1>1, <1>3, <5>1, <5>2 DEF NewLogin
      <4>3. QED  BY <4>1, <4>2
    <3>4. sessions' = sessions \cup {new}
      BY <3>1 DEF Opens
    <3>5. QED  BY <1>2, <3>3, <3>4 DEF Fresh
  <2>2. CASE ~OpenSession(p)
    BY <1>2, <2>2, TableFacts DEF Fresh
  <2>3. QED  BY <2>1, <2>2
<1>6. req'[p] = Idle \/ req'[p].op = req[p].op
  BY <1>1 DEF Goes, Keeps
<1>7. req'[p].op = "ask" => \A x \in req'[p].saw : NewReview(x)'
  BY <1>2, <1>6, SawFacts, IdleFacts DEF SawAhead, Fresh, ReviewsOf
<1>8. req'[p].op = "refresh" => \A s \in req'[p].saw : NewLogin(s)'
  BY <1>2, <1>6, SawFacts, IdleFacts DEF SawAhead, Fresh
<1>9. QED  BY <1>1, <1>4, <1>5, <1>7, <1>8, FreshGoes

LEMMA FreshStep ==
    ASSUME Typed, Registered, Fresh, [AccountNext]_vars
    PROVE  Fresh'
<1>1. ASSUME NEW p \in Procs, Start(p)  PROVE Fresh'
  <2>1. /\ Begun(p) /\ started \in Nat /\ started' = started + 1 /\ req'[p].n = started + 1
        /\ UNCHANGED <<reviews, sessions>> /\ \A q \in Procs : q # p => req'[q] = req[q]
        /\ req'[p].saw = {} \/ (req'[p].op = "refresh" /\ req'[p].saw \subseteq sessions)
        /\ req[p] = Idle
    BY <1>1, StartFacts, Bounds DEF Begun, Moves, Typed, AccountTypeOK
  <2>2. \A q \in Procs : req[q].n \in Nat /\ req[q].n <= started
    BY <2>1 DEF Typed, AccountTypeOK
  <2>3. \A q, r \in Procs : q # r /\ req'[q].at # "idle" /\ req'[r].at # "idle" => req'[q].n # req'[r].n
    BY <2>1, <2>2 DEF Fresh
  <2>4. ASSUME NEW x, x.id \in Nat, NewReview(x)  PROVE NewReview(x)'
    BY <2>1, <2>4 DEF NewReview
  <2>5. ASSUME NEW s, s.login \in Nat, NewLogin(s)  PROVE NewLogin(s)'
    BY <2>1, <2>5 DEF NewLogin
  <2>6. /\ \A x \in reviews : x.id \in Nat
        /\ \A s \in sessions : s.login \in Nat
    BY Bounds DEF Typed, AccountTypeOK, Review, Session
  <2>7. \A q \in Procs : req'[q].op = "ask" => \A x \in req'[q].saw : NewReview(x)'
    <3>1. ASSUME NEW q \in Procs, req'[q].op = "ask", NEW x \in req'[q].saw  PROVE NewReview(x)'
      <4>1. q # p /\ x \in req[q].saw /\ req[q].op = "ask"
        BY <2>1, <3>1
      <4>2. NewReview(x) /\ \A r \in Procs : req[r].op = "ask" => req[r].n # x.id
        BY <4>1 DEF Fresh, NewReview
      <4>3. x.id # started + 1
        BY <2>1, <4>2 DEF NewReview
      <4>4. QED  BY <2>1, <4>2, <4>3 DEF NewReview
    <3>2. QED  BY <3>1
  <2>8. \A q \in Procs : req'[q].op = "refresh" => \A s \in req'[q].saw : NewLogin(s)'
    <3>1. ASSUME NEW q \in Procs, req'[q].op = "refresh", NEW s \in req'[q].saw  PROVE NewLogin(s)'
      <4>1. NewLogin(s)
        BY <2>1, <3>1 DEF Fresh
      <4>2. Legal(req'[q])
        BY <2>1 DEF Begun, Moves, Typed
      <4>3. s.login \in Nat
        BY <3>1, <4>2, Bounds DEF Legal, Reaches, HasSession, Session
      <4>4. QED  BY <2>5, <4>1, <4>3
    <3>2. QED  BY <3>1
  <2>9. QED  BY <2>1, <2>3, <2>4, <2>5, <2>6, <2>7, <2>8 DEF Fresh
<1>2. ASSUME NEW p \in Procs, Statement(p)  PROVE Fresh'
  BY <1>2, FreshStatement
<1>3. ASSUME NEW p \in Procs, Abort(p) \/ Ignore(p)  PROVE Fresh'
  <2>1. Goes(p) /\ (req'[p] = Idle \/ req'[p].saw = req[p].saw)
    BY <1>3, AbortGoes, IgnoreGoes, IgnoreSaw DEF Goes
  <2>2. UNCHANGED <<started, reviews, sessions>>
    BY <1>3 DEF Abort, Ignore
  <2>3. /\ \A x : NewReview(x) => NewReview(x)'
        /\ \A s : NewLogin(s) => NewLogin(s)'
    BY <2>1, <2>2, NumbersStay
  <2>4. req'[p] = Idle \/ (req'[p].op = req[p].op /\ req'[p].saw = req[p].saw)
    BY <2>1 DEF Goes, Keeps
  <2>5. /\ req'[p].op = "ask" => \A x \in req'[p].saw : NewReview(x)'
        /\ req'[p].op = "refresh" => \A s \in req'[p].saw : NewLogin(s)'
    BY <2>3, <2>4, IdleFacts DEF Fresh
  <2>6. (\A x \in reviews' : NewReview(x)') /\ (\A s \in sessions' : NewLogin(s)')
    BY <2>2, <2>3 DEF Fresh
  <2>7. QED  BY <2>1, <2>2, <2>5, <2>6, FreshGoes
<1>4. CASE UNCHANGED vars
  BY <1>4 DEF vars, Fresh, NewReview, NewLogin
<1>5. QED  BY <1>1, <1>2, <1>3, <1>4 DEF AccountNext

-----------------------------------------------------------------------------
(* Sessions and the accounts they rest on.                                 *)
Ending == {"markUsed", "endSessions", "endSessionsFirst"}

LEMMA BackedInit == AccountInit => Backed
<1> SUFFICES ASSUME AccountInit PROVE Backed  OBVIOUS
<1>1. \A p \in Procs : req[p].op # "refresh"
  BY IdleFacts DEF AccountInit
<1>2. \A s \in sessions : s.user \in Users /\ Admitted(s.user) /\ s.pw = 0
  BY DEF AccountInit
<1>3. \A s \in sessions : s.pw = user[s.user].pw
  BY <1>2, InitUsers
<1>4. QED  BY <1>1, <1>2, <1>3 DEF Backed, Rests

(* A request that ends what the sessions of a user rest on goes on to end  *)
(* them.                                                                   *)
LEMMA EndsThem ==
    ASSUME Typed, Registered, NEW p \in Procs, Statement(p), NEW s, s.user = req[p].on,
           Admitted(s.user), s.pw = user[s.user].pw
    PROVE  \/ user'[s.user].role # "none" /\ user'[s.user].ban = 0 /\ user'[s.user].active
              /\ s.pw = user'[s.user].pw
           \/ s.user \in stale'
           \/ req'[p].on = s.user /\ req'[p].at \in Ending
<1>1. Goes(p) /\ req[p].on \in Users /\ Reaches(req[p]) /\ user \in [Users -> Account]
  BY StatementGoes, Has DEF Goes, Typed, AccountTypeOK
<1>2. ASSUME NEW at \in Ending, Goto(p, at)
      PROVE  req'[p].on = s.user /\ req'[p].at \in Ending
  <2>1. req'[p].at = at /\ at # "idle"
    BY <1>2, GotoLabel DEF Ending
  <2>2. QED  BY <1>1, <2>1, IdleFacts DEF Goes, Keeps
<1>3. CASE WriteRow(p)
  <2> DEFINE row == CHOOSE x \in req[p].row : TRUE
  <2>1. row \in Account
    BY <1>1, <1>3, TheRow DEF WriteRow, Reaches
  <2>2. /\ user' = [user EXCEPT ![req[p].on] = WithColumns(row, req[p])]
        /\ stale' = IF user[req[p].on] # row THEN stale \cup {req[p].on} ELSE stale
        /\ Goto(p, AfterWrite(req[p]))
    BY <1>3 DEF WriteRow
  <2> HIDE DEF row
  <2>3. CASE row # user[s.user]
    BY <2>2, <2>3
  <2>4. CASE row = user[s.user]
    <3>1. CASE req[p].op = "reset" \/ req[p].op = "password"
      <4>1. AfterWrite(req[p]) \in Ending
        BY <3>1 DEF AfterWrite, Ending
      <4>2. QED  BY <1>2, <2>2, <4>1
    <3>2. CASE req[p].op # "reset" /\ req[p].op # "password"
      <4>1. user'[s.user] = WithColumns(row, req[p])
        BY <1>1, <2>2
      <4>2. /\ WithColumns(row, req[p]).ban = row.ban /\ WithColumns(row, req[p]).active = row.active
            /\ WithColumns(row, req[p]).pw = row.pw
        BY <2>1, <3>2 DEF WithColumns, Account
      <4>3. user'[s.user].role # "none"
        BY <1>1, UserFacts DEF Admitted, Known
      <4>4. QED  BY <2>4, <4>1, <4>2, <4>3 DEF Admitted
    <3>3. QED  BY <3>1, <3>2
  <2>5. QED  BY <2>3, <2>4
<1>4. CASE SetActive(p)
  <2>1. CASE req[p].upd.active = "yes"
    <3>1. user' = [user EXCEPT ![req[p].on].active = TRUE]
      BY <1>4, <2>1 DEF SetActive
    <3>2. QED  BY <1>1, <3>1 DEF Admitted, Account
  <2>2. CASE req[p].upd.active # "yes"
    BY <1>2, <1>4, <2>2 DEF SetActive, Ending
  <2>3. QED  BY <2>1, <2>2
<1>5. CASE SetBan(p)
  <2>1. CASE req[p].op = "update" /\ req[p].upd.ban = "yes"
    BY <1>2, <1>5, <2>1 DEF SetBan, AfterBan, Ending
  <2>2. CASE ~(req[p].op = "update" /\ req[p].upd.ban = "yes")
    <3>1. user' = [user EXCEPT ![req[p].on] = [user[req[p].on] EXCEPT !.ban = 0, !.active = TRUE]]
      BY <1>1, <1>5, <2>2 DEF SetBan, Account
    <3>2. QED  BY <1>1, <3>1 DEF Admitted, Account
  <2>3. QED  BY <2>1, <2>2
<1>6. CASE Register(p)
  BY <1>6 DEF Register, Admitted
<1>7. CASE ~WriteRow(p) /\ ~SetActive(p) /\ ~SetBan(p) /\ ~Register(p)
  <2>1. UNCHANGED user
    BY <1>7
    DEF Statement, LoadRow, CountRoots, InvalidateResets, IssueReset, MarkUsed, CheckPart,
        DropReviews, Decide, CheckPending, CountReviews, Ask, CheckLogin, DropOld, OpenSession,
        EndSessions
  <2>2. QED  BY <2>1 DEF Admitted
<1>8. QED  BY <1>3, <1>4, <1>5, <1>6, <1>7

LEMMA RestsStays ==
    ASSUME Typed, Registered, NEW p \in Procs, Statement(p), NEW s, s.user \in Users, Rests(s),
           EndSessions(p) => s.user # req[p].on \/ s.user \in late'
    PROVE  Rests(s)'
<1>1. Goes(p) /\ req[p].on \in Users
  BY StatementGoes, Has DEF Goes
<1>2. CASE s.user \in late \cup stale \/ faults > 0
  BY <1>2, HistoryGrows DEF Rests
<1>3. CASE Admitted(s.user) /\ s.pw = user[s.user].pw
  <2>1. CASE s.user # req[p].on
    <3>1. user'[s.user] = user[s.user]
      BY <2>1, UserFacts
    <3>2. QED  BY <1>3, <3>1 DEF Rests, Admitted
  <2>2. CASE s.user = req[p].on
    BY <1>3, <2>2, EndsThem DEF Rests, Admitted, Ending
  <2>3. QED  BY <2>1, <2>2
<1>4. CASE \E q \in Procs : req[q].on = s.user /\ req[q].at \in Ending
  <2>1. PICK q \in Procs : req[q].on = s.user /\ req[q].at \in Ending
    BY <1>4
  <2>2. CASE q # p
    <3>1. req'[q] = req[q]
      BY <1>1, <2>2 DEF Goes, Moves
    <3>2. QED  BY <2>1, <3>1 DEF Rests, Ending
  <2>3. CASE q = p
    <3>1. MarkUsed(p) \/ EndSessions(p)
      BY <2>1, <2>3
      DEF Statement, LoadRow, CountRoots, WriteRow, InvalidateResets, IssueReset, CheckPart,
          SetActive, SetBan, DropReviews, Decide, CheckPending, CountReviews, Ask, Register,
          CheckLogin, DropOld, OpenSession, Ending
    <3>2. CASE MarkUsed(p)
      <4>1. Goto(p, "endSessions")
        BY <3>2 DEF MarkUsed, Ahead
      <4>2. req'[p].at = "endSessions"
        BY <4>1, GotoLabel
      <4>3. req'[p].on = req[p].on
        BY <1>1, <4>2, IdleFacts DEF Goes, Keeps
      <4>4. QED  BY <2>1, <2>3, <4>2, <4>3 DEF Rests
    <3>3. CASE EndSessions(p)
      BY <2>1, <2>3, <3>3 DEF Rests
    <3>4. QED  BY <3>1, <3>2, <3>3
  <2>4. QED  BY <2>2, <2>3
<1>5. QED  BY <1>2, <1>3, <1>4 DEF Rests, Ending

LEMMA BackedStatement ==
    ASSUME Typed, Registered, Backed, NEW p \in Procs, Statement(p)
    PROVE  Backed'
<1>1. Goes(p) /\ req[p].on \in Users
  BY StatementGoes, Has DEF Goes
<1>2. \A s \in sessions : s.user \in Users /\ Rests(s)
  BY DEF Typed, AccountTypeOK, Session, Backed
<1>3. ASSUME NEW q \in Procs, req[q].op = "refresh", NEW s \in req[q].saw
      PROVE  s.user \in Users /\ s.user = req[q].on /\ Rests(s)
  <2>1. HasSession(req[q])
    BY <1>3, Has DEF Reaches
  <2>2. QED  BY <1>3, <2>1 DEF HasSession, Session, Backed
<1>4. ASSUME NEW q \in Procs, req[q].op = "refresh", NEW s \in req[q].saw
      PROVE  Rests(s)'
  <2>1. s.user \in Users /\ s.user = req[q].on /\ Rests(s)
    BY <1>3, <1>4
  <2>2. EndSessions(p) => s.user # req[p].on \/ s.user \in late'
    BY <1>4, <2>1 DEF EndSessions
  <2>3. QED  BY <2>1, <2>2, RestsStays
<1>5. \A s \in sessions' : Rests(s)'
  <2>1. CASE OpenSession(p)
    <3>1. PICK new, row : Opens(p, new, row)
      BY <2>1, OpenFacts
    <3>2. ~EndSessions(p)
      BY <2>1 DEF OpenSession, EndSessions
    <3>3. UNCHANGED user
      BY <2>1 DEF OpenSession
    <3>4. Rests(new)'
      <4>1. CASE user[req[p].on] # row
        BY <3>1, <4>1 DEF Opens, Rests
      <4>2. CASE user[req[p].on] = row
        <5>1. CASE req[p].op = "refresh"
          <6>1. PICK old : /\ old \in req[p].saw /\ new.user = old.user /\ new.pw = old.pw
            BY <3>1, <5>1 DEF Opens
          <6>2. Rests(old)'
            BY <1>4, <5>1, <6>1
          <6>3. QED  BY <6>1, <6>2 DEF Rests
        <5>2. CASE req[p].op # "refresh"
          <6>1. /\ new.user = req[p].on /\ new.pw = row.pw
                /\ row.role # "none" /\ row.ban = 0 /\ row.active
            BY <3>1, <5>2 DEF Opens
          <6>2. QED  BY <3>3, <4>2, <6>1 DEF Rests, Admitted
        <5>3. QED  BY <5>1, <5>2
      <4>3. QED  BY <4>1, <4>2
    <3>5. \A s \in sessions : Rests(s)'
      BY <1>2, <3>2, RestsStays
    <3>6. QED  BY <3>1, <3>4, <3>5 DEF Opens
  <2>2. CASE EndSessions(p)
    <3>1. \A s \in sessions' : s \in sessions /\ s.user # req[p].on
      BY <2>2 DEF EndSessions, SessionsOf
    <3>2. QED  BY <1>2, <3>1, RestsStays
  <2>3. CASE ~OpenSession(p) /\ ~EndSessions(p)
    <3>1. sessions' \subseteq sessions
      BY <2>3, TableFacts
    <3>2. QED  BY <1>2, <2>3, <3>1, RestsStays
  <2>4. QED  BY <2>1, <2>2, <2>3
<1>6. \A q \in Procs : req'[q].op = "refresh" => req[q].op = "refresh" /\ req'[q].saw = req[q].saw
  <2>1. SawAhead(p) /\ (req'[p] = Idle \/ req'[p].op = req[p].op)
    BY <1>1, SawFacts DEF Goes, Keeps
  <2>2. req'[p].op = "refresh" => req[p].op = "refresh" /\ req'[p].saw = req[p].saw
    BY <2>1, IdleFacts DEF SawAhead
  <2>3. QED  BY <1>1, <2>2 DEF Goes, Moves
<1>7. QED  BY <1>4, <1>5, <1>6 DEF Backed

LEMMA BackedStep ==
    ASSUME Typed, Registered, Backed, [AccountNext]_vars
    PROVE  Backed'
<1>1. ASSUME NEW p \in Procs, Start(p)  PROVE Backed'
  <2>1. /\ UNCHANGED <<user, sessions, late, stale, faults>>
        /\ req[p].at = "idle" /\ \A q \in Procs : q # p => req'[q] = req[q]
        /\ req'[p].saw = {} \/ req'[p].saw \subseteq sessions
    BY <1>1, StartFacts, IdleFacts DEF Begun, Moves, history
  <2>2. \A s : Rests(s) => Rests(s)'
    BY <2>1 DEF Rests, Admitted
  <2>3. QED  BY <2>1, <2>2 DEF Backed
<1>2. ASSUME NEW p \in Procs, Statement(p)  PROVE Backed'
  BY <1>2, BackedStatement
<1>3. ASSUME NEW p \in Procs, Abort(p) \/ Ignore(p)  PROVE Backed'
  <2>1. faults \in Nat /\ faults' = faults + 1
    BY <1>3, Bounds DEF Abort, Ignore, Typed, AccountTypeOK
  <2>2. faults' > 0
    BY <2>1
  <2>3. QED  BY <2>2 DEF Backed, Rests
<1>4. CASE UNCHANGED vars
  BY <1>4 DEF vars, history, Backed, Rests, Admitted
<1>5. QED  BY <1>1, <1>2, <1>3, <1>4 DEF AccountNext

(* A ban, a deactivation and a new password end the sessions: the owner of *)
(* every session may use it and it was opened with the password in force,  *)
(* but for the time until the request that changed this is through, for    *)
(* sessions opened meanwhile, stale rows and faults.                       *)
THEOREM SessionsAreBacked == AccountSpec => []SessionsMatchAccount
<1>1. Backed => SessionsMatchAccount
  BY DEF Backed, Rests, SessionsMatchAccount
<1>2. QED  BY <1>1, TypedAlways, BackedInit, BackedStep, PTL DEF AccountSpec

-----------------------------------------------------------------------------
(* The rotation of sessions.                                               *)

(* A login is in one place: a session, or one request that renews it.      *)
Excused(s) == s.user \in late \/ faults > 0
Alone(p, old) ==
    /\ \A s \in sessions : ~Same(s, old)
    /\ \A q \in Procs : q # p /\ Rotating(q) => \A s \in req[q].saw : ~Same(s, old)

LEMMA SingleInit == AccountInit => Single
<1> SUFFICES ASSUME AccountInit PROVE Single  OBVIOUS
<1>1. \A p \in Procs : ~Rotating(p)
  BY IdleFacts DEF AccountInit, Rotating
<1>2. \A s, t \in sessions : s.user = t.user => s = t
  BY DEF AccountInit
<1>3. QED  BY <1>1, <1>2 DEF Single, OneSessionPerLogin

LEMMA RotatesByDrop ==
    ASSUME Typed, Registered, NEW p \in Procs, Statement(p), Rotating(p)'
    PROVE  DropOld(p) /\ req[p].op = "refresh" /\ req'[p].saw = req[p].saw
<1>1. req'[p].at = "open" /\ req'[p].op = "refresh" /\ req'[p] # Idle
  BY IdleFacts DEF Rotating
<1>2. req[p].op = "refresh"
  BY <1>1, StatementGoes DEF Goes, Keeps
<1>3. DropOld(p)
  BY <1>1, <1>2, LoadRowGoes, CountRootsGoes, CheckPendingGoes, CountReviewsGoes, EnterGoes, LightGoes
  DEF Statement, Light
<1>4. QED  BY <1>1, <1>2, <1>3, SawFacts DEF SawAhead

LEMMA SingleDrop ==
    ASSUME Typed, Registered, Single, NEW p \in Procs, DropOld(p)
    PROVE  Single'
<1>1. Statement(p)
  BY DEF Statement
<1>2. \A q \in Procs : q # p => req'[q] = req[q]
  BY <1>1, StatementGoes DEF Goes, Moves
<1>3. /\ sessions' = sessions \ req[p].saw /\ faults' = faults
      /\ late' = IF req[p].saw \subseteq sessions THEN late ELSE late \cup {req[p].on}
  BY DEF DropOld, Rest
<1>4. PICK old : req[p].saw = {old} /\ old.user = req[p].on
  BY Has DEF DropOld, Reaches, HasSession
<1>5. req'[p].saw = {old}
  BY <1>4, RotateGoes DEF DropOld, Ahead, Took
<1>6. \A s : Excused(s) => Excused(s)'
  BY <1>3 DEF Excused
<1>7. \A q \in Procs : Rotating(q) => \A s \in req[q].saw : Excused(s) \/ Alone(q, s)
  BY DEF Single, Excused, Alone
<1>8. \A s, t \in sessions : Same(s, t) /\ s # t => Excused(s)
  BY DEF Single, OneSessionPerLogin, Same, Excused
<1>9. \A s \in sessions' : Same(s, old) => Excused(s)'
  <2>1. CASE old \in sessions
    BY <1>3, <1>4, <1>6, <1>8, <2>1
  <2>2. CASE old \notin sessions
    BY <1>3, <1>4, <2>2 DEF Same, Excused
  <2>3. QED  BY <2>1, <2>2
<1>10. \A q \in Procs : q # p /\ Rotating(q) => \A s \in req[q].saw : Same(s, old) => Excused(s)'
  <2>1. CASE old \in sessions
    BY <1>6, <1>7, <2>1 DEF Alone, Same
  <2>2. CASE old \notin sessions
    BY <1>3, <1>4, <2>2 DEF Same, Excused
  <2>3. QED  BY <2>1, <2>2
<1>11. Excused(old)' \/ Alone(p, old)'
  <2>1. \A s : Same(s, old) /\ Excused(s)' => Excused(old)'
    BY DEF Same, Excused
  <2>2. \A q \in Procs : q # p => (Rotating(q)' <=> Rotating(q))
    BY <1>2 DEF Rotating
  <2>3. QED  BY <1>2, <1>9, <1>10, <2>1, <2>2 DEF Alone
<1>12. ASSUME NEW q \in Procs, q # p, Rotating(q)', NEW s \in req'[q].saw
       PROVE  Excused(s)' \/ Alone(q, s)'
  <2>1. Rotating(q) /\ s \in req[q].saw
    BY <1>2, <1>12 DEF Rotating
  <2>2. CASE Excused(s)
    BY <1>6, <2>2
  <2>3. CASE Alone(q, s) /\ ~Excused(s)'
    <3>1. ~Same(old, s)
      BY <1>10, <1>12, <2>1, <2>3 DEF Same
    <3>2. \A t \in sessions' : ~Same(t, s)
      BY <1>3, <2>3 DEF Alone
    <3>3. \A r \in Procs : r # q /\ Rotating(r)' => \A t \in req'[r].saw : ~Same(t, s)
      BY <1>2, <1>5, <2>3, <3>1 DEF Alone, Rotating
    <3>4. QED  BY <3>2, <3>3 DEF Alone
  <2>4. QED  BY <1>7, <2>1, <2>2, <2>3
<1>13. \A s, t \in sessions' : Same(s, t) /\ s # t => Excused(s)'
  BY <1>3, <1>6, <1>8
<1>14. OneSessionPerLogin'
  BY <1>13 DEF OneSessionPerLogin, Same, Excused
<1>15. \A q \in Procs : Rotating(q)' => \A s \in req'[q].saw : Excused(s)' \/ Alone(q, s)'
  BY <1>5, <1>11, <1>12
<1>16. QED  BY <1>14, <1>15 DEF Single, Excused, Alone

LEMMA SingleOpen ==
    ASSUME Typed, Registered, Fresh, Single, NEW p \in Procs, OpenSession(p)
    PROVE  Single'
<1>1. PICK new, row : Opens(p, new, row)
  BY OpenFacts
<1>2. /\ sessions' = sessions \cup {new} /\ faults' = faults /\ late \subseteq late'
      /\ req'[p] = Idle /\ \A q \in Procs : q # p => req'[q] = req[q]
  BY <1>1, EndFacts DEF OpenSession, Opens, Rest, Moves
<1>3. \A s : Excused(s) => Excused(s)'
  BY <1>2 DEF Excused
<1>4. \A q \in Procs : Rotating(q) => \A s \in req[q].saw : Excused(s) \/ Alone(q, s)
  BY DEF Single, Excused, Alone
<1>5. \A s, t \in sessions : Same(s, t) /\ s # t => Excused(s)
  BY DEF Single, OneSessionPerLogin, Same, Excused
<1>6. \A q \in Procs : Rotating(q)' => q # p /\ Rotating(q) /\ req'[q].saw = req[q].saw
  BY <1>2, IdleFacts DEF Rotating
<1>7. /\ \A s \in sessions : Same(s, new) => Excused(s)
      /\ \A q \in Procs : q # p /\ Rotating(q) => \A s \in req[q].saw : Same(s, new) => Excused(s)
  <2>1. CASE req[p].op = "refresh"
    <3>1. PICK old : req[p].saw = {old} /\ old.user = new.user /\ new.login = old.login
      BY <1>1, <2>1 DEF Opens
    <3>2. Excused(old) \/ Alone(p, old)
      BY <1>4, <2>1, <3>1 DEF Rotating, OpenSession
    <3>3. \A s : Same(s, new) => Same(s, old) /\ (Excused(old) => Excused(s))
      BY <3>1 DEF Same, Excused
    <3>4. QED  BY <3>2, <3>3 DEF Alone
  <2>2. CASE req[p].op # "refresh"
    <3>1. new.login = req[p].n /\ req[p].op \in {"signup", "login"}
      BY <1>1, <2>2 DEF Opens
    <3>2. \A s : NewLogin(s) => ~Same(s, new)
      BY <3>1 DEF NewLogin, Same
    <3>3. QED  BY <3>2 DEF Fresh, Rotating
  <2>3. QED  BY <2>1, <2>2
<1>8. \A s, t \in sessions' : Same(s, t) /\ s # t => Excused(s)'
  <2>1. \A s : Same(new, s) => Same(s, new) /\ (Excused(s) => Excused(new))
    BY DEF Same, Excused
  <2>2. QED  BY <1>2, <1>3, <1>5, <1>7, <2>1
<1>9. ASSUME NEW q \in Procs, Rotating(q)', NEW s \in req'[q].saw
      PROVE  Excused(s)' \/ Alone(q, s)'
  <2>1. q # p /\ Rotating(q) /\ s \in req[q].saw
    BY <1>6, <1>9
  <2>2. CASE Excused(s)
    BY <1>3, <2>2
  <2>3. CASE Alone(q, s) /\ ~Excused(s)
    <3>1. ~Same(new, s)
      BY <1>7, <2>1, <2>3 DEF Same
    <3>2. \A t \in sessions' : ~Same(t, s)
      BY <1>2, <2>3, <3>1 DEF Alone
    <3>3. \A r \in Procs : r # q /\ Rotating(r)' => \A t \in req'[r].saw : ~Same(t, s)
      BY <1>6, <2>3 DEF Alone
    <3>4. QED  BY <3>2, <3>3 DEF Alone
  <2>4. QED  BY <1>4, <2>1, <2>2, <2>3
<1>10. OneSessionPerLogin'
  BY <1>8 DEF OneSessionPerLogin, Same, Excused
<1>11. QED  BY <1>9, <1>10 DEF Single, Excused, Alone

LEMMA SingleStatement ==
    ASSUME Typed, Registered, Fresh, Single, NEW p \in Procs, Statement(p)
    PROVE  Single'
<1>1. CASE DropOld(p)
  BY <1>1, SingleDrop
<1>2. CASE OpenSession(p)
  BY <1>2, SingleOpen
<1>3. CASE ~DropOld(p) /\ ~OpenSession(p)
  <2>1. ~Rotating(p)'
    BY <1>3, RotatesByDrop
  <2>2. \A q \in Procs : q # p => req'[q] = req[q]
    BY StatementGoes DEF Goes, Moves
  <2>3. \A q \in Procs : Rotating(q)' => q # p /\ Rotating(q) /\ req'[q].saw = req[q].saw
    BY <2>1, <2>2 DEF Rotating
  <2>4. sessions' \subseteq sessions /\ late \subseteq late' /\ faults' = faults
    BY <1>3, TableFacts, HistoryGrows
  <2>5. QED  BY <2>3, <2>4 DEF Single, OneSessionPerLogin
<1>4. QED  BY <1>1, <1>2, <1>3

LEMMA SingleStep ==
    ASSUME Typed, Registered, Fresh, Single, [AccountNext]_vars
    PROVE  Single'
<1>1. ASSUME NEW p \in Procs, Start(p)  PROVE Single'
  <2>1. /\ UNCHANGED <<sessions, late, faults>> /\ req'[p].at # "open"
        /\ \A q \in Procs : q # p => req'[q] = req[q]
    BY <1>1, StartFacts DEF Begun, Moves, history, Light
  <2>2. \A q \in Procs : Rotating(q)' => q # p /\ Rotating(q) /\ req'[q].saw = req[q].saw
    BY <2>1 DEF Rotating
  <2>3. QED  BY <2>1, <2>2 DEF Single, OneSessionPerLogin
<1>2. ASSUME NEW p \in Procs, Statement(p)  PROVE Single'
  BY <1>2, SingleStatement
<1>3. ASSUME NEW p \in Procs, Abort(p) \/ Ignore(p)  PROVE Single'
  <2>1. faults \in Nat /\ faults' = faults + 1
    BY <1>3, Bounds DEF Abort, Ignore, Typed, AccountTypeOK
  <2>2. faults' > 0
    BY <2>1
  <2>3. QED  BY <2>2 DEF Single, OneSessionPerLogin
<1>4. CASE UNCHANGED vars
  BY <1>4 DEF vars, history, Single, OneSessionPerLogin, Rotating
<1>5. QED  BY <1>1, <1>2, <1>3, <1>4 DEF AccountNext

(* A login has one refresh token: the session a rotation issues replaces   *)
(* the one it was sent with, unless two requests rotate one session at     *)
(* once, the sessions were ended meanwhile, or a fault came in between.    *)
THEOREM OneToken == AccountSpec => []OneSessionPerLogin
<1>1. Single => OneSessionPerLogin
  BY DEF Single
<1>2. QED
  BY <1>1, TypedAlways, FreshInit, FreshStep, SingleInit, SingleStep, PTL DEF AccountSpec

-----------------------------------------------------------------------------
(* The limit of reviews.                                                   *)
LEMMA IdsCount ==
    ASSUME NEW S, IsFiniteSet(S), \A x, y \in S : x.id = y.id => x = y
    PROVE  IsFiniteSet(Ids(S)) /\ Cardinality(Ids(S)) = Cardinality(S)
<1> DEFINE f == [x \in S |-> x.id]
<1>1. f \in Bijection(S, Ids(S))
  BY DEF Bijection, Injection, IsInjective, Surjection, Ids
<1> HIDE DEF f
<1>2. ExistsBijection(S, Ids(S))
  BY <1>1 DEF ExistsBijection
<1>3. QED  BY <1>2, FS_Bijection

(* A decision changes no review's number and makes none pending.           *)
LEMMA DecideFacts ==
    ASSUME Typed, IsFiniteSet(reviews), NEW p \in Procs, Decide(p)
    PROVE  /\ IsFiniteSet(reviews')
           /\ \A x \in reviews' : \E y \in reviews :
                 x.user = y.user /\ x.id = y.id /\ (y.status # "pending" => x.status # "pending")
           /\ (\A x, y \in reviews : x.id = y.id => x = y)
              => \A x, y \in reviews' : x.id = y.id => x = y
<1> DEFINE status == IF req[p].upd.ban = "yes" THEN "approved" ELSE "denied"
           New(x) == IF x.user = req[p].on /\ x.id = req[p].ref THEN [x EXCEPT !.status = status] ELSE x
           f == [x \in reviews |-> New(x)]
<1>1. reviews' = {New(x) : x \in reviews}
  BY DEF Decide
<1>2. \A x \in reviews : x \in Review
  BY DEF Typed, AccountTypeOK
<1>3. status # "pending"
  OBVIOUS
<1> HIDE DEF status
<1>4. ASSUME NEW x \in reviews
      PROVE  /\ New(x).user = x.user /\ New(x).id = x.id
             /\ x.status # "pending" => New(x).status # "pending"
  BY <1>2, <1>3, <1>4 DEF Review
<1>5. f \in Surjection(reviews, reviews')
  BY <1>1 DEF Surjection
<1> HIDE DEF f, New
<1>6. IsFiniteSet(reviews')
  BY <1>5, FS_Surjection
<1>7. ASSUME NEW x \in reviews'
      PROVE  \E y \in reviews :
                x = New(y) /\ x.user = y.user /\ x.id = y.id
                /\ (y.status # "pending" => x.status # "pending")
  <2>1. PICK y \in reviews : x = New(y)
    BY <1>1, <1>7
  <2>2. x.user = y.user /\ x.id = y.id /\ (y.status # "pending" => x.status # "pending")
    BY <1>4, <2>1
  <2>3. QED  BY <2>1, <2>2
<1>8. QED  BY <1>6, <1>7

LEMMA ReviewsFinite ==
    ASSUME Typed, Registered, Fresh, IsFiniteSet(reviews), \A x, y \in reviews : x.id = y.id => x = y,
           NEW p \in Procs, Statement(p)
    PROVE  IsFiniteSet(reviews') /\ \A x, y \in reviews' : x.id = y.id => x = y
<1>1. CASE Decide(p)
  BY <1>1, DecideFacts
<1>2. CASE Ask(p)
  <2> DEFINE new == [user |-> req[p].on, ban |-> req[p].ref, status |-> "pending", id |-> req[p].n]
  <2>1. reviews' = reviews \cup {new} /\ new.id = req[p].n
    BY <1>2 DEF Ask
  <2> HIDE DEF new
  <2>2. req[p].op = "ask"
    BY <1>2, Has DEF Ask, Reaches
  <2>3. \A x \in reviews : x.id # new.id
    BY <2>1, <2>2 DEF Fresh, NewReview
  <2>4. IsFiniteSet(reviews')
    BY <2>1, FS_AddElement
  <2>5. QED  BY <2>1, <2>3, <2>4
<1>3. CASE ~Decide(p) /\ ~Ask(p)
  <2>1. reviews' \subseteq reviews
    BY <1>3
    DEF Statement, LoadRow, CountRoots, WriteRow, InvalidateResets, IssueReset, MarkUsed,
        CheckPart, SetActive, SetBan, DropReviews, CheckPending, CountReviews, Register,
        CheckLogin, DropOld, OpenSession, EndSessions
  <2>2. QED  BY <2>1, FS_Subset
<1>4. QED  BY <1>1, <1>2, <1>3

(* A number seen in the table and found there again was never away.        *)
LEMMA SeenStays ==
    ASSUME Typed, Registered, Fresh, NEW p \in Procs, Statement(p),
           NEW q \in Procs, req[q].op = "ask", NEW u,
           Ids(req[q].saw) \subseteq {x.id : x \in {y \in reviews' : y.user = u}}
    PROVE  Ids(req[q].saw) \subseteq Ids(ReviewsOf(u))
<1> SUFFICES ASSUME NEW x \in req[q].saw
             PROVE  \E z \in reviews : z.user = u /\ z.id = x.id
  BY DEF Ids, ReviewsOf
<1>1. PICK y \in reviews' : y.user = u /\ y.id = x.id
  BY DEF Ids
<1>2. NewReview(x)
  BY DEF Fresh
<1>3. req[p].at = "ask" => req[p].n # x.id
  BY <1>2, Has DEF NewReview, Reaches
<1>4. QED  BY <1>1, <1>3, TableFacts

LEMMA AttemptsInit == AccountInit => Attempts
  BY FS_EmptySet, IdleFacts DEF AccountInit, Attempts

LEMMA AttemptsStatement ==
    ASSUME Typed, Registered, Fresh, Attempts, NEW p \in Procs, Statement(p)
    PROVE  Attempts'
<1>1. IsFiniteSet(reviews') /\ \A x, y \in reviews' : x.id = y.id => x = y
  BY ReviewsFinite DEF Attempts
<1>2. Goes(p)
  BY StatementGoes
<1>3. ASSUME NEW q \in Procs, req[q].at = "ask",
             Ids(req[q].saw) \subseteq {x.id : x \in {y \in reviews' : y.user = req[q].on}}
      PROVE  Cardinality(Ids(req[q].saw)) < ReviewLimit
  <2>1. req[q].op = "ask"
    BY <1>3, Has DEF Reaches
  <2>2. Ids(req[q].saw) \subseteq Ids(ReviewsOf(req[q].on))
    BY <1>3, <2>1, SeenStays
  <2>3. QED  BY <1>3, <2>2 DEF Attempts
<1>4. ASSUME req'[p].at \in {"countReviews", "ask"}
      PROVE  /\ req'[p].at = "countReviews" => CheckPending(p)
             /\ req'[p].at = "ask" => CountReviews(p)
             /\ req'[p] # Idle /\ req'[p].op = req[p].op /\ req'[p].on = req[p].on
  <2>1. req'[p] # Idle /\ req'[p].op = req[p].op /\ req'[p].on = req[p].on
    BY <1>2, <1>4, IdleFacts DEF Goes, Keeps
  <2>2. ~DropOld(p)
    <3>1. DropOld(p) => req'[p].at = "open"
      BY RotateGoes DEF DropOld, Ahead, Took
    <3>2. QED  BY <1>4, <3>1
  <2>3. ~LoadRow(p) /\ ~CountRoots(p) /\ ~Register(p) /\ ~CheckLogin(p)
    BY <1>4, <2>1, LoadRowGoes, CountRootsGoes, EnterGoes
  <2>4. CheckPending(p) \/ CountReviews(p)
    BY <1>4, <2>1, <2>2, <2>3, LightGoes DEF Statement, Light
  <2>5. QED  BY <2>1, <2>4, CheckPendingGoes, CountReviewsGoes
<1>5. ASSUME req'[p].at \in {"countReviews", "ask"}
      PROVE  \A x \in req'[p].saw : x.status # "pending"
  <2>1. CASE CheckPending(p)
    BY <1>4, <1>5, <2>1, CheckPendingGoes
  <2>2. CASE CountReviews(p)
    BY <1>4, <1>5, <2>2, CountReviewsGoes DEF Attempts, CountReviews
  <2>3. QED  BY <1>4, <1>5, <2>1, <2>2
<1>6. ASSUME req'[p].at = "ask"
      PROVE  /\ 0 < ReviewLimit
             /\ Ids(req'[p].saw) \subseteq {x.id : x \in {y \in reviews' : y.user = req'[p].on}} =>
                   Cardinality(Ids(req'[p].saw)) < ReviewLimit
  <2>1. /\ CountReviews(p) /\ req'[p].saw = req[p].saw /\ req'[p].on = req[p].on
        /\ ~(Cardinality(ReviewsOf(req[p].on)) >= ReviewLimit) /\ req[p].op = "ask"
    BY <1>4, <1>6, CountReviewsGoes, Has DEF CountReviews, Reaches
  <2> DEFINE R == ReviewsOf(req[p].on)
  <2>2. IsFiniteSet(R) /\ \A x, y \in R : x.id = y.id => x = y
    BY FS_Subset DEF ReviewsOf, Attempts
  <2>3. IsFiniteSet(Ids(R)) /\ Cardinality(Ids(R)) = Cardinality(R) /\ Cardinality(R) \in Nat
    BY <2>2, IdsCount, FS_CardinalityType
  <2>4. 0 < ReviewLimit /\ Cardinality(Ids(R)) < ReviewLimit
    BY <2>1, <2>3, Bounds
  <2>5. ASSUME Ids(req[p].saw) \subseteq Ids(R)
        PROVE  Cardinality(Ids(req[p].saw)) < ReviewLimit
    <3>1. IsFiniteSet(Ids(req[p].saw)) /\ Cardinality(Ids(req[p].saw)) <= Cardinality(Ids(R))
      BY <2>3, <2>5, FS_Subset
    <3>2. Cardinality(Ids(req[p].saw)) \in Nat
      BY <3>1, FS_CardinalityType
    <3>3. QED  BY <2>3, <2>4, <3>1, <3>2, Bounds
  <2>6. Ids(req[p].saw) \subseteq {x.id : x \in {y \in reviews' : y.user = req[p].on}} =>
           Ids(req[p].saw) \subseteq Ids(R)
    BY <2>1, SeenStays
  <2>7. QED  BY <2>1, <2>4, <2>5, <2>6
<1>7. ASSUME NEW q \in Procs
      PROVE  /\ req'[q].at \in {"countReviews", "ask"} => \A x \in req'[q].saw : x.status # "pending"
             /\ req'[q].at = "ask" =>
                  /\ 0 < ReviewLimit
                  /\ Ids(req'[q].saw) \subseteq {x.id : x \in {y \in reviews' : y.user = req'[q].on}} =>
                        Cardinality(Ids(req'[q].saw)) < ReviewLimit
  <2>1. CASE q = p
    BY <1>5, <1>6, <2>1
  <2>2. CASE q # p
    <3>1. req'[q] = req[q]
      BY <1>2, <2>2 DEF Goes, Moves
    <3>2. QED  BY <1>3, <3>1 DEF Attempts
  <2>3. QED  BY <2>1, <2>2
<1>8. QED  BY <1>1, <1>7 DEF Attempts, Ids, ReviewsOf

LEMMA AttemptsRest ==
    ASSUME Attempts, UNCHANGED reviews,
           \A q \in Procs : \/ req'[q] = req[q]
                            \/ req'[q].at \notin {"countReviews", "ask"}
    PROVE  Attempts'
<1>1. UNCHANGED <<reviews>> => \A u : ReviewsOf(u)' = ReviewsOf(u)
  BY DEF ReviewsOf
<1>2. \A S : Ids(S)' = Ids(S)
  BY DEF Ids
<1>3. QED  BY <1>1 DEF Attempts, Ids, ReviewsOf

LEMMA AttemptsStep ==
    ASSUME Typed, Registered, Fresh, Attempts, [AccountNext]_vars
    PROVE  Attempts'
<1>1. ASSUME NEW p \in Procs, Start(p)  PROVE Attempts'
  <2>1. /\ UNCHANGED reviews /\ req'[p].at \notin {"countReviews", "ask"}
        /\ \A q \in Procs : q # p => req'[q] = req[q]
    BY <1>1, StartFacts DEF Begun, Moves, Light
  <2>2. QED  BY <2>1, AttemptsRest
<1>2. ASSUME NEW p \in Procs, Statement(p)  PROVE Attempts'
  BY <1>2, AttemptsStatement
<1>3. ASSUME NEW p \in Procs, Abort(p)  PROVE Attempts'
  <2>1. /\ UNCHANGED reviews /\ req'[p].at \notin {"countReviews", "ask"}
        /\ \A q \in Procs : q # p => req'[q] = req[q]
    BY <1>3, AbortGoes, IdleFacts DEF Moves, Abort
  <2>2. QED  BY <2>1, AttemptsRest
<1>4. ASSUME NEW p \in Procs, Ignore(p)  PROVE Attempts'
  <2>1. PICK at : Goto(p, at) /\ at \notin {"countReviews", "ask"}
    <3>1. CASE req[p].at = "rotate"
      BY <1>4, <3>1 DEF Ignore, Ahead
    <3>2. CASE req[p].at # "rotate"
      BY <1>4, <3>2, AheadIsLight DEF Ignore, Light
    <3>3. QED  BY <3>1, <3>2
  <2>2. req'[p].at \notin {"countReviews", "ask"}
    BY <2>1, GotoLabel
  <2>3. UNCHANGED reviews /\ \A q \in Procs : q # p => req'[q] = req[q]
    BY <1>4, IgnoreGoes DEF Ignore, Goes, Moves
  <2>4. QED  BY <2>2, <2>3, AttemptsRest
<1>5. CASE UNCHANGED vars
  BY <1>5, AttemptsRest DEF vars
<1>6. QED  BY <1>1, <1>2, <1>3, <1>4, <1>5 DEF AccountNext

(* While a request is about to store an attempt and the reviews are those  *)
(* it saw, no step leaves too many of them, or two that are pending.       *)
LEMMA LimitStep ==
    ASSUME Typed, Registered, Fresh, Attempts, NEW r \in Procs, Statement(r),
           NEW p \in Procs, req[p].at = "ask", ~(reviews' \subseteq reviews),
           req[p].saw = ReviewsOf(req[p].on),
           NEW R, R = {x \in reviews' : x.user = req[p].on}
    PROVE  /\ ~(Cardinality(R) > ReviewLimit)
           /\ ~(Cardinality({x \in R : x.status = "pending"}) > 1)
<1> DEFINE S == ReviewsOf(req[p].on)
<1>1. IsFiniteSet(S) /\ \A x, y \in S : x.id = y.id => x = y
  BY FS_Subset DEF ReviewsOf, Attempts
<1>2. Cardinality(Ids(S)) = Cardinality(S) /\ Cardinality(S) \in Nat
  BY <1>1, IdsCount, FS_CardinalityType
<1>3. Cardinality(S) < ReviewLimit /\ ReviewLimit \in Nat
  BY <1>2, Bounds DEF Attempts
<1>4. \A x \in S : x.status # "pending"
  BY DEF Attempts
<1>5. IsFiniteSet(R) /\ IsFiniteSet({x \in R : x.status = "pending"})
  <2>1. IsFiniteSet(reviews')
    BY ReviewsFinite DEF Attempts
  <2>2. IsFiniteSet(R)
    BY <2>1, FS_Subset
  <2>3. QED  BY <2>2, FS_Subset
<1>6. CASE Ask(r)
  <2>1. PICK new : reviews' = reviews \cup {new}
    BY <1>6 DEF Ask
  <2>2. IsFiniteSet(S \cup {new}) /\ Cardinality(S \cup {new}) <= Cardinality(S) + 1
    <3> HIDE DEF S
    <3>1. /\ IsFiniteSet(S \cup {new})
          /\ Cardinality(S \cup {new}) =
                IF new \in S THEN Cardinality(S) ELSE Cardinality(S) + 1
      BY <1>1, FS_AddElement
    <3>2. QED  BY <1>2, <3>1
  <2>3. R \subseteq S \cup {new}
    BY <2>1 DEF ReviewsOf
  <2>4. Cardinality(R) <= Cardinality(S \cup {new}) /\ Cardinality(R) \in Nat
        /\ Cardinality(S \cup {new}) \in Nat
    BY <1>5, <2>2, <2>3, FS_Subset, FS_CardinalityType
  <2>5. {x \in R : x.status = "pending"} \subseteq {new}
    BY <1>4, <2>3
  <2>6. Cardinality({x \in R : x.status = "pending"}) <= 1
        /\ Cardinality({x \in R : x.status = "pending"}) \in Nat
    <3>1. IsFiniteSet({new}) /\ Cardinality({new}) = 1
      BY FS_Singleton
    <3>2. Cardinality({x \in R : x.status = "pending"}) <= Cardinality({new})
      BY <2>5, <3>1, FS_Subset
    <3>3. QED  BY <1>5, <3>1, <3>2, FS_CardinalityType
  <2> HIDE DEF S
  <2>7. QED  BY <1>2, <1>3, <2>2, <2>4, <2>6
<1>7. CASE Decide(r)
  <2>1. /\ \A x \in reviews' : \E y \in reviews :
             x.user = y.user /\ x.id = y.id /\ (y.status # "pending" => x.status # "pending")
        /\ \A x, y \in reviews' : x.id = y.id => x = y
    BY <1>7, DecideFacts DEF Attempts
  <2>2. Ids(R) \subseteq Ids(S)
    BY <2>1 DEF Ids, ReviewsOf
  <2>3. Cardinality(Ids(R)) = Cardinality(R) /\ Cardinality(R) \in Nat
    BY <1>5, <2>1, IdsCount, FS_CardinalityType
  <2>4. Cardinality(Ids(R)) <= Cardinality(Ids(S))
    BY <1>1, <2>2, IdsCount, FS_Subset
  <2>5. {x \in R : x.status = "pending"} = {}
    BY <1>4, <2>1 DEF ReviewsOf
  <2>6. Cardinality({x \in R : x.status = "pending"}) = 0
    BY <2>5, FS_EmptySet
  <2> HIDE DEF S
  <2>7. QED  BY <1>2, <1>3, <2>3, <2>4, <2>6
<1>8. CASE ~Ask(r) /\ ~Decide(r)
  BY <1>8
  DEF Statement, LoadRow, CountRoots, WriteRow, InvalidateResets, IssueReset, MarkUsed,
      CheckPart, SetActive, SetBan, DropReviews, CheckPending, CountReviews, Register,
      CheckLogin, DropOld, OpenSession, EndSessions
<1>9. QED  BY <1>6, <1>7, <1>8

(* Two requests for a review that both pass the checks store one attempt   *)
(* too many, or two pending ones, only because the second finds other      *)
(* reviews than those it checked; one alone never does.                    *)
THEOREM LimitIsKept == AccountSpec => ReviewLimitKept
<1> DEFINE Bad(p) ==
             LET u == req[p].on IN
             req[p].at = "ask" /\ reviews' # reviews /\ ~(reviews' \subseteq reviews)
             /\ \/ Cardinality({r \in reviews' : r.user = u}) > ReviewLimit
                \/ Cardinality({r \in reviews' : r.user = u /\ r.status = "pending"}) > 1
<1>1. ASSUME Typed, Registered, Fresh, Attempts, [AccountNext]_vars, NEW p \in Procs, Bad(p)
      PROVE  req[p].saw # ReviewsOf(req[p].on)
  <2>1. PICK r \in Procs : Start(r) \/ Statement(r) \/ Abort(r) \/ Ignore(r)
    BY <1>1 DEF AccountNext, vars
  <2>2. Statement(r)
    BY <1>1, <2>1, StartFacts DEF Begun, Abort, Ignore
  <2> DEFINE R == {x \in reviews' : x.user = req[p].on}
  <2>3. {x \in reviews' : x.user = req[p].on /\ x.status = "pending"} = {x \in R : x.status = "pending"}
    OBVIOUS
  <2>4. /\ req[p].at = "ask" /\ ~(reviews' \subseteq reviews)
        /\ Cardinality(R) > ReviewLimit \/ Cardinality({x \in R : x.status = "pending"}) > 1
    BY <1>1, <2>3
  <2> HIDE DEF R, Bad
  <2>5. SUFFICES ASSUME req[p].saw = ReviewsOf(req[p].on) PROVE FALSE
    OBVIOUS
  <2>6. R = {x \in reviews' : x.user = req[p].on}
    BY DEF R
  <2>7. QED  BY <1>1, <2>2, <2>4, <2>5, <2>6, LimitStep
<1>2. Typed /\ Registered /\ Fresh /\ Attempts /\ [AccountNext]_vars =>
        [\A p \in Procs : LET u == req[p].on IN
            req[p].at = "ask" /\ reviews' # reviews /\ ~(reviews' \subseteq reviews)
            /\ \/ Cardinality({r \in reviews' : r.user = u}) > ReviewLimit
               \/ Cardinality({r \in reviews' : r.user = u /\ r.status = "pending"}) > 1
            => req[p].saw # ReviewsOf(u)]_vars
  BY <1>1
<1>3. QED
  BY <1>2, TypedAlways, FreshInit, FreshStep, AttemptsInit, AttemptsStep, PTL
  DEF AccountSpec, ReviewLimitKept
=============================================================================
