----------------------- MODULE TeamMembershipProofs -----------------------
(***************************************************************************)
(* Proofs about TeamMembership, for any accounts, any number of requests   *)
(* in flight and any number of faults.                                     *)
(***************************************************************************)
EXTENDS TeamMembership, FiniteSetTheorems, TLAPS

(* What a request is, and what it has in hand at each of its statements:   *)
(* who may get where is what every proof below starts from.                *)
Request ==
    [op : {"none", "create", "invite", "update", "remove", "join", "review", "setTeams"},
     at : {"idle", "slug", "team", "row", "count", "role", "status", "delete",
           "insert", "asked", "ask", "decide"},
     on : Users \cup {NoRow}, role : Roles \cup {""}, status : Statuses \cup {""},
     saw : SUBSET Users]

Wants(r) ==
    /\ r.op \in {"create", "invite", "setTeams"} => r.role \in Roles /\ r.status \in Statuses
    /\ r.op = "update" => r.status \in {"", "approved", "rejected"}
    /\ r.op = "review" => /\ r.status \in {"approved", "rejected"}
                          /\ r.status = "approved" => r.role \in Roles

Reaches(r) ==
    /\ r.at # "idle" => r.on \in Users
    /\ r.at = "row" => r.op \in {"invite", "update", "remove", "join"}
    /\ r.at = "count" => r.op = "remove" \/ (r.op = "update" /\ r.role \in Roles)
    /\ r.at = "role" => r.op = "update" /\ r.role \in Roles
    /\ r.at = "status" => r.op = "update"
    /\ r.at = "delete" => r.op \in {"remove", "setTeams"}
    /\ r.at \in {"slug", "team"} => r.op = "create"
    /\ r.at = "insert" => \/ r.op \in {"create", "invite", "setTeams"}
                          \/ r.op = "review" /\ r.status = "approved"
    /\ r.at \in {"asked", "ask"} => r.op = "join"
    /\ r.at = "decide" => r.op = "review"

Legal(r) == r \in Request /\ Wants(r) /\ Reaches(r)

Typed ==
    /\ TeamTypeOK
    /\ req \in [Procs -> Request]
    /\ \A p \in Procs : Legal(req[p])

(* The row comes first: a request about to write an approval has seen its  *)
(* user become a member.                                                   *)
Admitted ==
    /\ ApprovedWasAdmitted
    /\ \A p \in Procs : req[p].at = "decide" /\ req[p].status = "approved" => req[p].on \in entered

(* Nobody asks to join, and nobody decides, before there is a team: what   *)
(* is told of an absent team would be lost although it is created later.   *)
Told ==
    /\ DecisionIsTold
    /\ team = "absent" => /\ \A u \in Users : joins[u] = "none"
                          /\ \A p \in Procs : req[p].op \notin {"join", "review"}

(* A request about to demote or remove has seen that its user is no admin, *)
(* or that there is another one.                                           *)
Guarded ==
    \A p \in Procs :
        req[p].at \in {"role", "delete"} /\ req[p].op # "setTeams" /\ req[p].on \in req[p].saw
            => \/ req[p].at = "role" /\ req[p].role = "admin"
               \/ \E u \in req[p].saw : u # req[p].on

-----------------------------------------------------------------------------
(* Steps change at most one request, and to a legal one.                   *)
LEMMA IdleIsLegal == Legal(Idle)
  BY DEF Legal, Request, Wants, Reaches, Idle

LEMMA IdleFacts ==
    Idle.op = "none" /\ Idle.at = "idle" /\ Idle.status = "" /\ Idle.saw = {}
  BY DEF Idle

LEMMA OneRequest ==
    ASSUME Typed, NEW p \in Procs, NEW r, Legal(r), req' = [req EXCEPT ![p] = r]
    PROVE  /\ req' \in [Procs -> Request] /\ req'[p] = r
           /\ \A q \in Procs : req'[q] = IF q = p THEN r ELSE req[q]
           /\ \A q \in Procs : Legal(req'[q])
           /\ \A q \in Procs : req'[q].on \in Users \cup {NoRow} /\ req'[q].saw \subseteq Users
<1>1. r \in Request
  BY DEF Legal
<1>2. /\ req' \in [Procs -> Request]
      /\ \A q \in Procs : req'[q] = IF q = p THEN r ELSE req[q]
  BY <1>1 DEF Typed
<1>3. \A q \in Procs : Legal(req'[q])
  BY <1>2 DEF Typed
<1>4. \A q \in Procs : req'[q].on \in Users \cup {NoRow} /\ req'[q].saw \subseteq Users
  BY <1>2 DEF Request
<1>5. QED  BY <1>2, <1>3, <1>4

LEMMA FinishFacts ==
    ASSUME Typed, NEW p \in Procs, Finish(p)
    PROVE  /\ req' \in [Procs -> Request] /\ req'[p] = Idle
           /\ \A q \in Procs : req'[q] = IF q = p THEN Idle ELSE req[q]
           /\ \A q \in Procs : Legal(req'[q])
           /\ \A q \in Procs : req'[q].on \in Users \cup {NoRow} /\ req'[q].saw \subseteq Users
  BY IdleIsLegal, OneRequest DEF Finish

(* A request goes on to a label where all it needs is in hand.             *)
LEMMA GotoFacts ==
    ASSUME Typed, NEW p \in Procs, NEW at, Goto(p, at), Legal([req[p] EXCEPT !.at = at])
    PROVE  /\ req' \in [Procs -> Request] /\ req'[p] = [req[p] EXCEPT !.at = at]
           /\ \A q \in Procs : req'[q] = IF q = p THEN [req[p] EXCEPT !.at = at] ELSE req[q]
           /\ \A q \in Procs : Legal(req'[q])
           /\ \A q \in Procs : req'[q].on \in Users \cup {NoRow} /\ req'[q].saw \subseteq Users
<1>1. req' = [req EXCEPT ![p] = [req[p] EXCEPT !.at = at]]
  BY DEF Goto, Typed
<1>2. QED  BY <1>1, OneRequest

-----------------------------------------------------------------------------
(* The types.                                                              *)
LEMMA TypedInit == TeamInit => Typed
<1> SUFFICES ASSUME TeamInit PROVE Typed  OBVIOUS
<1>1. req \in [Procs -> Request] /\ \A p \in Procs : req[p] = Idle
  BY IdleIsLegal DEF TeamInit, Legal
<1>2. \A p \in Procs : Legal(req[p])
  BY <1>1, IdleIsLegal, Zenon
<1>3. \A p \in Procs : req[p].on \in Users \cup {NoRow} /\ req[p].saw \subseteq Users
  BY <1>1 DEF Request
<1>4. members \in [Users -> Row \cup {NoRow}]
  BY DEF TeamInit, Row, Roles, Statuses
<1>5. TeamTypeOK
  BY <1>3, <1>4, TeamAssumption DEF TeamInit, TeamTypeOK, Statuses
<1>6. QED  BY <1>1, <1>2, <1>5 DEF Typed

LEMMA BeginFacts ==
    ASSUME Typed, NEW p \in Procs, NEW op, NEW at, NEW on, NEW role, NEW status,
           Begin(p, op, at, on, role, status),
           Legal([op |-> op, at |-> at, on |-> on, role |-> role, status |-> status, saw |-> {}])
    PROVE  Typed'
<1>1. /\ req' \in [Procs -> Request]
      /\ \A q \in Procs : Legal(req'[q])
      /\ \A q \in Procs : req'[q].on \in Users \cup {NoRow} /\ req'[q].saw \subseteq Users
  BY OneRequest DEF Begin
<1>2. TeamTypeOK'
  BY <1>1, TeamAssumption DEF Typed, TeamTypeOK, Begin, tables
<1>3. QED  BY <1>1, <1>2 DEF Typed

LEMMA TypedStart ==
    ASSUME Typed, NEW p \in Procs, Start(p)
    PROVE  Typed'
<1> USE TeamAssumption DEF Legal, Request, Wants, Reaches, Roles, Statuses
<1>1. CASE StartCreate(p)
  BY <1>1, BeginFacts DEF StartCreate
<1>2. CASE StartInvite(p)
  BY <1>2, BeginFacts DEF StartInvite
<1>3. CASE StartUpdate(p)
  BY <1>3, BeginFacts DEF StartUpdate
<1>4. CASE StartRemove(p)
  BY <1>4, BeginFacts DEF StartRemove
<1>5. CASE StartJoin(p)
  BY <1>5, BeginFacts DEF StartJoin
<1>6. CASE StartReview(p)
  BY <1>6, BeginFacts DEF StartReview
<1>7. CASE StartSetTeams(p)
  BY <1>7, BeginFacts DEF StartSetTeams
<1>8. QED  BY <1>1, <1>2, <1>3, <1>4, <1>5, <1>6, <1>7 DEF Start

(* A statement of p keeps the types when it keeps those of the tables.     *)
LEMMA Assemble ==
    ASSUME Typed, NEW p \in Procs,
           req' \in [Procs -> Request],
           \A q \in Procs : Legal(req'[q]),
           \A q \in Procs : req'[q].on \in Users \cup {NoRow} /\ req'[q].saw \subseteq Users,
           team' \in {"absent", "live", "deleted"},
           members' \in [Users -> Row \cup {NoRow}],
           {u \in Users : members'[u] # NoRow} \subseteq entered',
           joins' \in [Users -> Statuses \cup {"none"}],
           outbox' \subseteq Notice,
           notices' = notices, started' = started, faults' = faults
    PROVE  Typed'
  BY DEF Typed, TeamTypeOK

LEMMA TypedReads ==
    ASSUME Typed, NEW p \in Procs,
           RowStep(p) \/ CountStep(p) \/ AskedStep(p) \/ SlugStep(p)
    PROVE  Typed'
<1>1. Legal(req[p]) /\ req[p] \in Request
  BY DEF Typed
<1>2. Admins \subseteq Users
  BY DEF Admins
<1>3. /\ req' \in [Procs -> Request] /\ \A q \in Procs : Legal(req'[q])
      /\ \A q \in Procs : req'[q].on \in Users \cup {NoRow} /\ req'[q].saw \subseteq Users
  <2>1. CASE Finish(p)
    BY <2>1, FinishFacts
  <2>2. CASE RowStep(p) /\ ~Finish(p)
    <3>1. PICK at \in {"insert", "asked", "count", "delete", "status", "role"} :
            /\ req' = [req EXCEPT ![p].at = at, ![p].saw = Admins]
            /\ req[p].at = "row"
            /\ at = "insert" => req[p].op = "invite"
            /\ at = "asked" => req[p].op = "join"
            /\ at = "delete" => req[p].op = "remove"
            /\ at \in {"status", "role"} => req[p].op = "update"
            /\ at = "role" => req[p].role # ""
            /\ at = "count" => req[p].op = "remove" \/ (req[p].op = "update" /\ req[p].role # "")
      BY <1>1, <2>2 DEF RowStep, Legal, Reaches
    <3>2. Legal([req[p] EXCEPT !.at = at, !.saw = Admins])
      BY <1>1, <1>2, <3>1 DEF Legal, Request, Wants, Reaches
    <3>3. req' = [req EXCEPT ![p] = [req[p] EXCEPT !.at = at, !.saw = Admins]]
      BY <3>1 DEF Typed
    <3>4. QED  BY <3>2, <3>3, OneRequest
  <2>3. CASE CountStep(p) /\ ~Finish(p)
    <3> DEFINE at == IF req[p].op = "remove" THEN "delete" ELSE "role"
    <3>1. Legal([req[p] EXCEPT !.at = at, !.saw = Admins])
      BY <1>1, <1>2, <2>3 DEF CountStep, Legal, Request, Wants, Reaches
    <3>2. req' = [req EXCEPT ![p] = [req[p] EXCEPT !.at = at, !.saw = Admins]]
      BY <2>3 DEF CountStep, Typed
    <3>3. QED  BY <3>1, <3>2, OneRequest
  <2>4. CASE AskedStep(p) /\ ~Finish(p)
    <3>1. Goto(p, "ask") /\ Legal([req[p] EXCEPT !.at = "ask"])
      BY <1>1, <2>4 DEF AskedStep, Legal, Request, Wants, Reaches
    <3>2. QED  BY <3>1, GotoFacts
  <2>5. CASE SlugStep(p) /\ ~Finish(p)
    <3>1. Goto(p, "team") /\ Legal([req[p] EXCEPT !.at = "team"])
      BY <1>1, <2>5 DEF SlugStep, Legal, Request, Wants, Reaches
    <3>2. QED  BY <3>1, GotoFacts
  <2>6. QED  BY <2>1, <2>2, <2>3, <2>4, <2>5
<1>4. QED
  BY <1>3, Assemble DEF RowStep, CountStep, AskedStep, SlugStep, Rest, tables, Typed, TeamTypeOK

LEMMA TypedMembers ==
    ASSUME Typed, NEW p \in Procs,
           RoleStep(p) \/ StatusStep(p) \/ DeleteStep(p) \/ InsertStep(p)
    PROVE  Typed'
<1> DEFINE u == req[p].on
<1>1. Legal(req[p]) /\ req[p] \in Request
  BY DEF Typed
<1>2. u \in Users
  BY <1>1 DEF RoleStep, StatusStep, DeleteStep, InsertStep, Legal, Reaches
<1>3. /\ members \in [Users -> Row \cup {NoRow}]
      /\ {v \in Users : members[v] # NoRow} \subseteq entered
  BY DEF Typed, TeamTypeOK
<1>4. /\ req' \in [Procs -> Request] /\ \A q \in Procs : Legal(req'[q])
      /\ \A q \in Procs : req'[q].on \in Users \cup {NoRow} /\ req'[q].saw \subseteq Users
  <2>1. CASE Finish(p)
    BY <2>1, FinishFacts
  <2>2. CASE RoleStep(p) /\ Goto(p, "status")
    <3>1. Legal([req[p] EXCEPT !.at = "status"])
      BY <1>1, <2>2 DEF RoleStep, Legal, Request, Wants, Reaches
    <3>2. QED  BY <2>2, <3>1, GotoFacts
  <2>3. CASE InsertStep(p) /\ req[p].op = "review" /\ Goto(p, "decide")
    <3>1. Legal([req[p] EXCEPT !.at = "decide"])
      BY <1>1, <2>3 DEF InsertStep, Legal, Request, Wants, Reaches
    <3>2. QED  BY <2>3, <3>1, GotoFacts
  <2>4. QED  BY <2>1, <2>2, <2>3 DEF RoleStep, StatusStep, DeleteStep, InsertStep
<1>5. PICK row : /\ members' = [members EXCEPT ![u] = row]
                 /\ row \in Row \cup {NoRow}
                 /\ \/ row = NoRow \/ members[u] # NoRow
                    \/ entered' = entered \cup {u}
  <2>1. CASE RoleStep(p)
    <3>1. CASE members[u] = NoRow
      BY <1>2, <1>3, <2>1, <3>1 DEF RoleStep
    <3>2. CASE members[u] # NoRow
      <4>1. members' = [members EXCEPT ![u] = [members[u] EXCEPT !.role = req[p].role]]
        BY <1>2, <1>3, <2>1, <3>2 DEF RoleStep
      <4>2. [members[u] EXCEPT !.role = req[p].role] \in Row
        BY <1>1, <1>2, <1>3, <2>1, <3>2 DEF RoleStep, Legal, Reaches, Row
      <4>3. QED  BY <3>2, <4>1, <4>2
    <3>3. QED  BY <3>1, <3>2
  <2>2. CASE StatusStep(p)
    <3>1. CASE req[p].status = "" \/ members[u] = NoRow
      BY <1>2, <1>3, <2>2, <3>1 DEF StatusStep
    <3>2. CASE req[p].status # "" /\ members[u] # NoRow
      <4>1. members' = [members EXCEPT ![u] = [members[u] EXCEPT !.status = req[p].status]]
        BY <1>2, <1>3, <2>2, <3>2 DEF StatusStep
      <4>2. req[p].status \in Statuses
        BY <1>1, <3>2 DEF Request
      <4>3. [members[u] EXCEPT !.status = req[p].status] \in Row
        BY <1>2, <1>3, <3>2, <4>2 DEF Row
      <4>4. QED  BY <3>2, <4>1, <4>3
    <3>3. QED  BY <3>1, <3>2
  <2>3. CASE DeleteStep(p)
    BY <2>3 DEF DeleteStep
  <2>4. CASE InsertStep(p)
    <3>1. CASE members[u] = NoRow
      <4>1. [role |-> req[p].role, status |-> req[p].status] \in Row
        BY <1>1, <2>4 DEF InsertStep, Legal, Wants, Reaches, Row, Statuses
      <4>2. QED  BY <2>4, <3>1, <4>1 DEF InsertStep
    <3>2. CASE members[u] # NoRow
      BY <1>2, <1>3, <2>4, <3>2 DEF InsertStep
    <3>3. QED  BY <3>1, <3>2
  <2>5. QED  BY <2>1, <2>2, <2>3, <2>4
<1>6. entered \subseteq entered'
  BY DEF RoleStep, StatusStep, DeleteStep, InsertStep
<1>7. /\ members' \in [Users -> Row \cup {NoRow}]
      /\ {v \in Users : members'[v] # NoRow} \subseteq entered'
  BY <1>2, <1>3, <1>5, <1>6
<1>8. QED
  BY <1>4, <1>7, Assemble
  DEF RoleStep, StatusStep, DeleteStep, InsertStep, Rest, Typed, TeamTypeOK

LEMMA TypedTables ==
    ASSUME Typed, NEW p \in Procs,
           AskStep(p) \/ DecideStep(p) \/ TeamStep(p)
    PROVE  Typed'
<1>1. Legal(req[p]) /\ req[p] \in Request
  BY DEF Typed
<1>2. /\ req' \in [Procs -> Request] /\ \A q \in Procs : Legal(req'[q])
      /\ \A q \in Procs : req'[q].on \in Users \cup {NoRow} /\ req'[q].saw \subseteq Users
  <2>1. CASE Finish(p)
    BY <2>1, FinishFacts
  <2>2. CASE TeamStep(p) /\ Goto(p, "insert")
    <3>1. Legal([req[p] EXCEPT !.at = "insert"])
      BY <1>1, <2>2 DEF TeamStep, Legal, Request, Wants, Reaches
    <3>2. QED  BY <2>2, <3>1, GotoFacts
  <2>3. QED  BY <2>1, <2>2 DEF AskStep, DecideStep, TeamStep
<1>3. CASE AskStep(p)
  <2>1. req[p].on \in Users
    BY <1>1, <1>3 DEF AskStep, Legal, Reaches
  <2>2. joins' \in [Users -> Statuses \cup {"none"}] /\ outbox' \subseteq Notice
    BY <1>3, <2>1 DEF AskStep, Typed, TeamTypeOK, Statuses, Notice
  <2>3. QED
    BY <1>2, <1>3, <2>2, Assemble DEF AskStep, Rest, Typed, TeamTypeOK
<1>4. CASE DecideStep(p)
  <2>1. req[p].on \in Users /\ req[p].status \in {"approved", "rejected"}
    BY <1>1, <1>4 DEF DecideStep, Legal, Wants, Reaches
  <2>2. joins' \in [Users -> Statuses \cup {"none"}] /\ outbox' \subseteq Notice
    BY <1>4, <2>1 DEF DecideStep, Typed, TeamTypeOK, Statuses, Notice
  <2>3. QED
    BY <1>2, <1>4, <2>2, Assemble DEF DecideStep, Rest, Typed, TeamTypeOK
<1>5. CASE TeamStep(p)
  BY <1>2, <1>5, Assemble DEF TeamStep, Rest, Typed, TeamTypeOK
<1>6. QED  BY <1>3, <1>4, <1>5

LEMMA TypedStatement ==
    ASSUME Typed, NEW p \in Procs, Statement(p)
    PROVE  Typed'
  BY TypedReads, TypedMembers, TypedTables DEF Statement

LEMMA TypedAbort ==
    ASSUME Typed, NEW p \in Procs, Abort(p)
    PROVE  Typed'
<1>1. /\ req' \in [Procs -> Request] /\ \A q \in Procs : Legal(req'[q])
      /\ \A q \in Procs : req'[q].on \in Users \cup {NoRow} /\ req'[q].saw \subseteq Users
  BY FinishFacts DEF Abort
<1>2. faults' \in 0..MaxFaults
  BY TeamAssumption DEF Abort, Typed, TeamTypeOK
<1>3. QED  BY <1>1, <1>2 DEF Abort, Typed, TeamTypeOK, tables

(* After a look-up that failed a request goes on as if nothing was found.  *)
LEMMA MisreadFacts ==
    ASSUME Typed, NEW p \in Procs, Misread(p)
    PROVE  /\ req' \in [Procs -> Request]
           /\ \A q \in Procs : q # p => req'[q] = req[q]
           /\ req'[p].op = req[p].op /\ req'[p].at \in {"insert", "asked", "ask", "team"}
           /\ \A q \in Procs : Legal(req'[q])
           /\ \A q \in Procs : req'[q].on \in Users \cup {NoRow} /\ req'[q].saw \subseteq Users
           /\ UNCHANGED <<tables, outbox, notices, entered, started>>
           /\ faults' \in 0..MaxFaults /\ faults' # 0
<1>1. Legal(req[p]) /\ req[p] \in Request
  BY DEF Typed
<1>2. PICK at \in {"insert", "asked", "ask", "team"} :
        Goto(p, at) /\ Legal([req[p] EXCEPT !.at = at])
  BY <1>1 DEF Misread, Legal, Request, Wants, Reaches
<1>3. [req[p] EXCEPT !.at = at].op = req[p].op /\ [req[p] EXCEPT !.at = at].at = at
  BY <1>1 DEF Request
<1>4. faults' \in 0..MaxFaults /\ faults' # 0
  BY TeamAssumption DEF Misread, Typed, TeamTypeOK
<1>5. QED  BY <1>2, <1>3, <1>4, GotoFacts DEF Misread

LEMMA TypedMisread ==
    ASSUME Typed, NEW p \in Procs, Misread(p)
    PROVE  Typed'
  BY MisreadFacts DEF Typed, TeamTypeOK, tables

LEMMA TypedNotice ==
    ASSUME Typed, NEW n \in outbox, Notify(n) \/ LoseNotice(n)
    PROVE  Typed'
<1>1. n \in Notice
  BY DEF Typed, TeamTypeOK
<1>2. req' = req /\ UNCHANGED tables /\ entered' = entered /\ started' = started
  BY DEF Notify, LoseNotice
<1>3. outbox' \subseteq Notice
  BY DEF Notify, LoseNotice, Typed, TeamTypeOK
<1>4. notices' \in [Users -> SUBSET Notice] /\ faults' \in 0..MaxFaults
  <2>1. CASE Notify(n)
    BY <1>1, <2>1 DEF Notify, Tell, Typed, TeamTypeOK
  <2>2. CASE LoseNotice(n)
    BY <2>2, TeamAssumption DEF LoseNotice, Typed, TeamTypeOK
  <2>3. QED  BY <2>1, <2>2
<1>5. QED
  BY <1>2, <1>3, <1>4 DEF Typed, TeamTypeOK, tables

LEMMA TypedStep ==
    ASSUME Typed, [TeamNext]_vars
    PROVE  Typed'
<1>1. CASE UNCHANGED vars
  BY <1>1 DEF Typed, TeamTypeOK, vars
<1>2. CASE DeleteTeam
  BY <1>2, TeamAssumption DEF DeleteTeam, Typed, TeamTypeOK
<1>3. QED
  BY <1>1, <1>2, TypedStart, TypedStatement, TypedAbort, TypedMisread, TypedNotice DEF TeamNext

(* Rows, requests, notices and bounds keep their types whatever the        *)
(* requests do to each other's rows: TeamService and its repositories.     *)
THEOREM TeamTypes == TeamSpec => []TeamTypeOK
<1>1. TeamInit => Typed
  BY TypedInit
<1>2. Typed /\ [TeamNext]_vars => Typed'
  BY TypedStep
<1>3. Typed => TeamTypeOK
  BY DEF Typed
<1>4. QED  BY <1>1, <1>2, <1>3, PTL DEF TeamSpec

-----------------------------------------------------------------------------
(* What the starts have in common: the request is new, has looked at       *)
(* nothing and is before a first statement.                                *)
Created(p, op, at, on, status) ==
    /\ UNCHANGED <<tables, outbox, notices, entered, faults>>
    /\ req[p] = Idle /\ req'[p] \in Request
    /\ \A q \in Procs : q # p => req'[q] = req[q]
    /\ req'[p].op = op /\ req'[p].at = at /\ req'[p].on = on
    /\ req'[p].status = status /\ req'[p].saw = {}

LEMMA NewRequest ==
    ASSUME Typed, NEW p \in Procs, NEW op, NEW at, NEW on, NEW role, NEW status,
           Begin(p, op, at, on, role, status),
           Legal([op |-> op, at |-> at, on |-> on, role |-> role, status |-> status, saw |-> {}])
    PROVE  Created(p, op, at, on, status)
<1>1. req' = [req EXCEPT ![p] = [op |-> op, at |-> at, on |-> on, role |-> role,
                                 status |-> status, saw |-> {}]]
  BY DEF Begin
<1>2. req'[p] = [op |-> op, at |-> at, on |-> on, role |-> role, status |-> status, saw |-> {}]
  BY <1>1 DEF Typed
<1>3. req'[p] \in Request
  BY <1>2 DEF Legal
<1>4. \A q \in Procs : q # p => req'[q] = req[q]
  BY <1>1 DEF Typed
<1>5. QED  BY <1>2, <1>3, <1>4 DEF Begin, Created

LEMMA StartFacts ==
    ASSUME Typed, NEW p \in Procs, Start(p)
    PROVE  /\ UNCHANGED <<tables, outbox, notices, entered, faults>>
           /\ req[p] = Idle /\ req'[p] \in Request
           /\ \A q \in Procs : q # p => req'[q] = req[q]
           /\ req'[p].saw = {} /\ req'[p].at # "role"
           /\ req'[p].at = "decide" => req'[p].status = "rejected"
           /\ req'[p].op = "join" => team # "absent"
           /\ req'[p].op = "review" => req'[p].on \in Users /\ joins[req'[p].on] # "none"
<1> DEFINE r(op, at, on, role, status) ==
             [op |-> op, at |-> at, on |-> on, role |-> role, status |-> status, saw |-> {}]
<1>1. CASE StartCreate(p)
  <2>1. PICK by \in Users : Begin(p, "create", "slug", by, "admin", "approved")
    BY <1>1 DEF StartCreate
  <2>2. Legal(r("create", "slug", by, "admin", "approved"))
    BY <2>1, TeamAssumption DEF Legal, Request, Wants, Reaches, Roles, Statuses
  <2>3. Created(p, "create", "slug", by, "approved")
    BY <2>1, <2>2, NewRequest
  <2>4. QED  BY <2>1, <2>3 DEF Created
<1>2. CASE StartInvite(p)
  <2>1. PICK on \in Users, role \in Given : Begin(p, "invite", "row", on, role, "pending")
    BY <1>2 DEF StartInvite
  <2>2. Legal(r("invite", "row", on, role, "pending"))
    BY <2>1, TeamAssumption DEF Legal, Request, Wants, Reaches, Roles, Statuses
  <2>3. Created(p, "invite", "row", on, "pending")
    BY <2>1, <2>2, NewRequest
  <2>4. QED  BY <2>1, <2>3 DEF Created
<1>3. CASE StartUpdate(p)
  <2>1. PICK on \in Users, role \in Given \cup {""}, status \in {"", "approved", "rejected"} : Begin(p, "update", "row", on, role, status)
    BY <1>3 DEF StartUpdate
  <2>2. Legal(r("update", "row", on, role, status))
    BY <2>1, TeamAssumption DEF Legal, Request, Wants, Reaches, Roles, Statuses
  <2>3. Created(p, "update", "row", on, status)
    BY <2>1, <2>2, NewRequest
  <2>4. QED  BY <2>1, <2>3 DEF Created
<1>4. CASE StartRemove(p)
  <2>1. PICK on \in Users : Begin(p, "remove", "row", on, "", "")
    BY <1>4 DEF StartRemove
  <2>2. Legal(r("remove", "row", on, "", ""))
    BY <2>1, TeamAssumption DEF Legal, Request, Wants, Reaches, Roles, Statuses
  <2>3. Created(p, "remove", "row", on, "")
    BY <2>1, <2>2, NewRequest
  <2>4. QED  BY <2>1, <2>3 DEF Created
<1>5. CASE StartJoin(p)
  <2>1. PICK by \in Users : team # "absent" /\ Begin(p, "join", "row", by, "", "pending")
    BY <1>5 DEF StartJoin
  <2>2. Legal(r("join", "row", by, "", "pending"))
    BY <2>1, TeamAssumption DEF Legal, Request, Wants, Reaches, Roles, Statuses
  <2>3. Created(p, "join", "row", by, "pending")
    BY <2>1, <2>2, NewRequest
  <2>4. QED  BY <2>1, <2>3 DEF Created
<1>6. CASE StartReview(p)
  <2>1. PICK on \in Users, role \in Given, status \in {"approved", "rejected"} :
          /\ joins[on] # "none"
          /\ Begin(p, "review", IF status = "approved" THEN "insert" ELSE "decide",
                   on, IF status = "approved" THEN role ELSE "", status)
    BY <1>6 DEF StartReview
  <2>2. CASE status = "approved"
    <3>1. Begin(p, "review", "insert", on, role, "approved")
      BY <2>1, <2>2
    <3>2. Legal(r("review", "insert", on, role, "approved"))
      BY TeamAssumption DEF Legal, Request, Wants, Reaches, Roles, Statuses
    <3>3. Created(p, "review", "insert", on, "approved")
      BY <3>1, <3>2, NewRequest
    <3>4. QED  BY <2>1, <3>3 DEF Created
  <2>3. CASE status = "rejected"
    <3>1. Begin(p, "review", "decide", on, "", "rejected")
      BY <2>1, <2>3
    <3>2. Legal(r("review", "decide", on, "", "rejected"))
      BY DEF Legal, Request, Wants, Reaches, Roles, Statuses
    <3>3. Created(p, "review", "decide", on, "rejected")
      BY <3>1, <3>2, NewRequest
    <3>4. QED  BY <2>1, <3>3 DEF Created
  <2>4. QED  BY <2>2, <2>3
<1>7. CASE StartSetTeams(p)
  <2>1. PICK on \in Users, at \in {"insert", "delete"} :
          Begin(p, "setTeams", at, on, "viewer", "approved")
    BY <1>7 DEF StartSetTeams
  <2>2. Legal(r("setTeams", at, on, "viewer", "approved"))
    BY DEF Legal, Request, Wants, Reaches, Roles, Statuses
  <2>3. Created(p, "setTeams", at, on, "approved")
    BY <2>1, <2>2, NewRequest
  <2>4. QED  BY <2>1, <2>3 DEF Created
<1>8. QED  BY <1>1, <1>2, <1>3, <1>4, <1>5, <1>6, <1>7 DEF Start

LEMMA Changes ==
    ASSUME Typed, NEW p \in Procs, NEW at,
           req' = [req EXCEPT ![p].at = at, ![p].saw = Admins]
    PROVE  req'[p] = [req[p] EXCEPT !.at = at, !.saw = Admins] /\ req'[p].at = at
  BY DEF Typed, Request

(* A statement ends the request or leaves what it wants as it is.          *)
LEMMA StatementFacts ==
    ASSUME Typed, NEW p \in Procs, Statement(p)
    PROVE  /\ \A q \in Procs : q # p => req'[q] = req[q]
           /\ \/ req'[p] = Idle
              \/ /\ req'[p].op = req[p].op /\ req'[p].on = req[p].on
                 /\ req'[p].role = req[p].role /\ req'[p].status = req[p].status
                 /\ req'[p].at = "decide" => InsertStep(p)
                 /\ req'[p].at \in {"role", "delete"} =>
                      (RowStep(p) \/ CountStep(p)) /\ req'[p].saw = Admins
<1>1. req \in [Procs -> Request] /\ req[p] \in Request /\ Legal(req[p])
  BY DEF Typed
<1>2. \A q \in Procs : q # p => req'[q] = req[q]
  BY <1>1 DEF Statement, RowStep, CountStep, RoleStep, StatusStep, DeleteStep, InsertStep,
              AskedStep, AskStep, DecideStep, SlugStep, TeamStep, Finish, Goto
<1>3. CASE Finish(p)
  BY <1>1, <1>2, <1>3 DEF Finish
<1>4. CASE RowStep(p) /\ ~Finish(p)
  <2>1. PICK at \in {"insert", "asked", "count", "delete", "status", "role"} :
          req' = [req EXCEPT ![p].at = at, ![p].saw = Admins]
    BY <1>1, <1>4 DEF RowStep, Legal, Reaches
  <2>2. req'[p] = [req[p] EXCEPT !.at = at, !.saw = Admins]
    BY <1>1, <2>1
  <2>3. QED  BY <1>1, <1>2, <1>4, <2>2 DEF Request
<1>5. CASE CountStep(p) /\ ~Finish(p)
  <2>1. req'[p] = [req[p] EXCEPT !.saw = Admins,
                                 !.at = IF req[p].op = "remove" THEN "delete" ELSE "role"]
    BY <1>1, <1>5 DEF CountStep
  <2>2. QED  BY <1>1, <1>2, <1>5, <2>1 DEF Request
<1>6. ASSUME NEW at \in {"status", "decide", "ask", "team", "insert"},
             Goto(p, at), at = "decide" => InsertStep(p)
      PROVE  /\ req'[p].op = req[p].op /\ req'[p].on = req[p].on
             /\ req'[p].role = req[p].role /\ req'[p].status = req[p].status
             /\ req'[p].at = "decide" => InsertStep(p)
             /\ req'[p].at \notin {"role", "delete"}
  <2>1. req'[p] = [req[p] EXCEPT !.at = at]
    BY <1>1, <1>6 DEF Goto
  <2>2. QED  BY <1>1, <1>6, <2>1 DEF Request
<1>7. QED
  BY <1>2, <1>3, <1>4, <1>5, <1>6
  DEF Statement, RoleStep, StatusStep, DeleteStep, InsertStep, AskedStep, AskStep, DecideStep,
      SlugStep, TeamStep

-----------------------------------------------------------------------------
(* The order of a review: first the membership, then the decision.         *)
LEMMA AdmittedInit == TeamInit => Admitted
  BY IdleFacts DEF TeamInit, Admitted, ApprovedWasAdmitted

LEMMA AdmittedStatement ==
    ASSUME Typed, Admitted, NEW p \in Procs, Statement(p)
    PROVE  Admitted'
<1>1. Legal(req[p]) /\ req[p] \in Request
  BY DEF Typed
<1>2. CASE DecideStep(p)
  <2>1. joins' = [joins EXCEPT ![req[p].on] = req[p].status] /\ entered' = entered
    BY <1>2 DEF DecideStep
  <2>2. req[p].status = "approved" => req[p].on \in entered
    BY <1>2 DEF DecideStep, Admitted
  <2>3. ApprovedWasAdmitted'
    BY <2>1, <2>2 DEF Admitted, ApprovedWasAdmitted, Typed, TeamTypeOK
  <2>4. \A q \in Procs : req'[q] = IF q = p THEN Idle ELSE req[q]
    BY <1>2, FinishFacts DEF DecideStep
  <2>5. QED  BY <2>1, <2>3, <2>4, IdleFacts DEF Admitted
<1>3. CASE AskStep(p)
  <2>1. ApprovedWasAdmitted' /\ entered' = entered
    BY <1>3 DEF AskStep, Admitted, ApprovedWasAdmitted, Typed, TeamTypeOK
  <2>2. \A q \in Procs : req'[q] = IF q = p THEN Idle ELSE req[q]
    BY <1>3, FinishFacts DEF AskStep
  <2>3. QED  BY <2>1, <2>2, IdleFacts DEF Admitted
<1>4. CASE InsertStep(p)
  <2>1. ApprovedWasAdmitted' /\ entered \subseteq entered'
    BY <1>4 DEF InsertStep, Admitted, ApprovedWasAdmitted
  <2>2. \A q \in Procs : q # p => req'[q] = req[q]
    BY <1>4 DEF InsertStep, Finish, Goto, Typed
  <2>3. req'[p].at = "decide" => req'[p].on = req[p].on /\ req[p].on \in entered'
    <3>1. CASE Finish(p)
      BY <3>1, FinishFacts, IdleFacts
    <3>2. CASE Goto(p, "decide") /\ entered' = entered \cup {req[p].on}
      BY <3>2 DEF Goto, Typed
    <3>3. QED  BY <1>4, <3>1, <3>2 DEF InsertStep
  <2>4. QED  BY <2>1, <2>2, <2>3 DEF Admitted
<1>5. CASE ~(DecideStep(p) \/ AskStep(p) \/ InsertStep(p))
  <2>1. joins' = joins /\ entered' = entered
    BY <1>5 DEF Statement, RowStep, CountStep, RoleStep, StatusStep, DeleteStep, AskedStep,
                SlugStep, TeamStep, tables
  <2>2. \A q \in Procs : q # p => req'[q] = req[q]
    BY StatementFacts
  <2>3. req'[p].at # "decide"
    BY <1>5, StatementFacts, IdleFacts
  <2>4. QED  BY <2>1, <2>2, <2>3 DEF Admitted, ApprovedWasAdmitted
<1>6. QED  BY <1>2, <1>3, <1>4, <1>5

LEMMA AdmittedStep ==
    ASSUME Typed, Admitted, [TeamNext]_vars
    PROVE  Admitted'
<1>1. CASE UNCHANGED vars
  BY <1>1 DEF Admitted, ApprovedWasAdmitted, vars, tables
<1>2. ASSUME NEW p \in Procs, Start(p)  PROVE Admitted'
  BY <1>2, StartFacts DEF Admitted, ApprovedWasAdmitted, tables
<1>3. ASSUME NEW p \in Procs, Abort(p)  PROVE Admitted'
  BY <1>3, FinishFacts, IdleFacts DEF Abort, Admitted, ApprovedWasAdmitted, tables
<1>4. ASSUME NEW n \in outbox, Notify(n) \/ LoseNotice(n)  PROVE Admitted'
  BY <1>4 DEF Notify, LoseNotice, Admitted, ApprovedWasAdmitted, tables
<1>5. CASE DeleteTeam
  BY <1>5 DEF DeleteTeam, Admitted, ApprovedWasAdmitted
<1>6. ASSUME NEW p \in Procs, Misread(p)  PROVE Admitted'
  BY <1>6, MisreadFacts DEF Admitted, ApprovedWasAdmitted, tables
<1>7. QED
  BY <1>1, <1>2, <1>3, <1>4, <1>5, <1>6, AdmittedStatement DEF TeamNext

(* No request reads "approved" whose author was never let into the team:   *)
(* ReviewJoinRequest writes the row before the decision.                   *)
THEOREM ApprovalFollowsRow == TeamSpec => []ApprovedWasAdmitted
<1>1. TeamInit => Typed /\ Admitted
  BY TypedInit, AdmittedInit
<1>2. (Typed /\ Admitted) /\ [TeamNext]_vars => (Typed /\ Admitted)'
  BY TypedStep, AdmittedStep
<1>3. Admitted => ApprovedWasAdmitted
  BY DEF Admitted
<1>4. QED  BY <1>1, <1>2, <1>3, PTL DEF TeamSpec

-----------------------------------------------------------------------------
(* A decision is told.                                                     *)
LEMMA ToldInit == TeamInit => Told
<1> SUFFICES ASSUME TeamInit PROVE Told  OBVIOUS
<1>1. \A u \in Users : joins[u] = "none"
  BY DEF TeamInit
<1>2. \A p \in Procs : req[p].op = "none"
  BY IdleFacts DEF TeamInit
<1>3. QED  BY <1>1, <1>2 DEF Told, DecisionIsTold

(* What is told, or is about to be, of the decisions there are.            *)
LEMMA StillTold ==
    ASSUME Typed, Told, joins' = joins, faults' = 0 => faults = 0, team' = "live" => team = "live",
           \A u \in Users : \A n \in Notice :
               n.kind # "asked" /\ n.about = u /\ n \in outbox \cup notices[u] /\ faults' = 0
                 /\ team' = "live" => n \in outbox' \cup notices'[u]
    PROVE  DecisionIsTold'
<1> SUFFICES ASSUME NEW u \in Users, joins[u] \in {"approved", "rejected"}, faults' = 0, team' = "live"
             PROVE  [kind |-> joins[u], about |-> u] \in outbox' \cup notices'[u]
  BY DEF DecisionIsTold
<1> DEFINE n == [kind |-> joins[u], about |-> u]
<1>1. n \in Notice /\ n.kind # "asked" /\ n.about = u
  BY DEF Notice
<1>2. n \in outbox \cup notices[u]
  BY DEF Told, DecisionIsTold
<1>3. QED  BY <1>1, <1>2

LEMMA ToldNotice ==
    ASSUME Typed, Told, NEW n \in outbox, Notify(n) \/ LoseNotice(n)
    PROVE  Told'
<1>1. /\ UNCHANGED <<team, joins, req>>
      /\ notices \in [Users -> SUBSET Notice] /\ outbox \subseteq Notice /\ faults \in Nat
  BY TeamAssumption DEF Notify, LoseNotice, tables, Typed, TeamTypeOK
<1>2. CASE Notify(n)
  <2>1. ASSUME NEW u \in Users, NEW m \in Notice, m.kind # "asked", m.about = u,
               m \in outbox \cup notices[u], team' = "live"
        PROVE  m \in outbox' \cup notices'[u]
    <3>1. outbox' = outbox \ {n}
      BY <1>2 DEF Notify
    <3>2. notices[u] \subseteq notices'[u]
      BY <1>1, <1>2 DEF Notify, Tell
    <3>3. m = n => m \in notices'[u]
      BY <1>1, <1>2, <2>1 DEF Notify, Tell
    <3>4. QED  BY <2>1, <3>1, <3>2, <3>3
  <2>2. faults' = faults
    BY <1>2 DEF Notify
  <2>3. QED  BY <1>1, <2>1, <2>2, StillTold DEF Told
<1>3. CASE LoseNotice(n)
  <2>1. faults' # 0
    BY <1>1, <1>3 DEF LoseNotice
  <2>2. QED  BY <1>1, <2>1 DEF Told, DecisionIsTold
<1>4. QED  BY <1>2, <1>3

LEMMA ToldStatement ==
    ASSUME Typed, Told, NEW p \in Procs, Statement(p)
    PROVE  Told'
<1>1. Legal(req[p]) /\ req[p] \in Request
  BY DEF Typed
<1>2. faults' = faults /\ notices' = notices
  BY DEF Statement, RowStep, CountStep, RoleStep, StatusStep, DeleteStep, InsertStep,
         AskedStep, AskStep, DecideStep, SlugStep, TeamStep, Rest
<1>3. req'[p].op \in {"none", req[p].op} /\ \A q \in Procs : q # p => req'[q] = req[q]
  BY StatementFacts, IdleFacts
<1>4. CASE DecideStep(p)
  <2> DEFINE v == req[p].on
  <2>1. v \in Users /\ req[p].op = "review" /\ req[p].status \in {"approved", "rejected"}
    BY <1>1, <1>4 DEF DecideStep, Legal, Wants, Reaches
  <2>2. /\ team' = team /\ team # "absent"
        /\ joins' = [joins EXCEPT ![v] = req[p].status]
        /\ outbox' = outbox \cup {[kind |-> req[p].status, about |-> v]}
    BY <1>4, <2>1 DEF DecideStep, Told
  <2>3. \A u \in Users : joins'[u] = IF u = v THEN req[p].status ELSE joins[u]
    BY <2>2 DEF Typed, TeamTypeOK
  <2>4. DecisionIsTold'
    <3> SUFFICES ASSUME NEW u \in Users, joins'[u] \in {"approved", "rejected"},
                        faults' = 0, team' = "live"
                 PROVE  [kind |-> joins'[u], about |-> u] \in outbox' \cup notices'[u]
      BY DEF DecisionIsTold
    <3>1. CASE u = v
      BY <2>2, <2>3, <3>1
    <3>2. CASE u # v
      BY <1>2, <2>2, <2>3, <3>2 DEF Told, DecisionIsTold
    <3>3. QED  BY <3>1, <3>2
  <2>5. QED  BY <2>2, <2>4 DEF Told
<1>5. CASE AskStep(p)
  <2> DEFINE v == req[p].on
  <2>1. v \in Users /\ req[p].op = "join"
    BY <1>1, <1>5 DEF AskStep, Legal, Reaches
  <2>2. team' = team /\ team # "absent" /\ outbox \subseteq outbox'
    BY <1>5, <2>1 DEF AskStep, Told
  <2>3. \A u \in Users : joins'[u] = joins[u] \/ joins'[u] = "pending"
    BY <1>5 DEF AskStep, Typed, TeamTypeOK
  <2>4. DecisionIsTold'
    BY <1>2, <2>2, <2>3 DEF Told, DecisionIsTold
  <2>5. QED  BY <2>2, <2>4 DEF Told
<1>6. CASE TeamStep(p)
  <2>1. joins' = joins /\ outbox' = outbox
    BY <1>6 DEF TeamStep
  <2>2. CASE team = "absent"
    <3>1. team' = "live" /\ \A u \in Users : joins'[u] = "none"
      BY <1>6, <2>1, <2>2 DEF TeamStep, Told
    <3>2. QED  BY <3>1 DEF Told, DecisionIsTold
  <2>3. CASE team # "absent"
    BY <1>2, <1>6, <2>1, <2>3 DEF TeamStep, Told, DecisionIsTold
  <2>4. QED  BY <2>2, <2>3
<1>7. CASE ~(DecideStep(p) \/ AskStep(p) \/ TeamStep(p))
  <2>1. UNCHANGED <<team, joins, outbox>>
    BY <1>7 DEF Statement, RowStep, CountStep, RoleStep, StatusStep, DeleteStep, InsertStep,
                AskedStep, SlugStep, tables
  <2>2. QED  BY <1>2, <1>3, <2>1 DEF Told, DecisionIsTold
<1>8. QED  BY <1>4, <1>5, <1>6, <1>7

LEMMA ToldStep ==
    ASSUME Typed, Told, [TeamNext]_vars
    PROVE  Told'
<1>1. CASE UNCHANGED vars
  BY <1>1 DEF Told, DecisionIsTold, vars, tables
<1>2. ASSUME NEW p \in Procs, Start(p)  PROVE Told'
  <2>1. UNCHANGED <<team, joins, outbox, notices, faults>>
    BY <1>2, StartFacts DEF tables
  <2>2. DecisionIsTold'
    BY <2>1 DEF Told, DecisionIsTold
  <2>3. team = "absent" => \A q \in Procs : req'[q].op \notin {"join", "review"}
    BY <1>2, StartFacts DEF Told
  <2>4. QED  BY <2>1, <2>2, <2>3 DEF Told
<1>3. ASSUME NEW p \in Procs, Abort(p)  PROVE Told'
  <2>1. UNCHANGED <<team, joins, outbox, notices>> /\ faults' = faults + 1 /\ faults \in Nat
    BY <1>3, TeamAssumption DEF Abort, tables, Typed, TeamTypeOK
  <2>2. \A q \in Procs : req'[q] = IF q = p THEN Idle ELSE req[q]
    BY <1>3, FinishFacts DEF Abort
  <2>3. faults' # 0
    BY <2>1
  <2>4. DecisionIsTold'
    BY <2>3 DEF DecisionIsTold
  <2>5. QED  BY <2>1, <2>2, <2>4, IdleFacts DEF Told
<1>4. CASE DeleteTeam
  BY <1>4 DEF DeleteTeam, Told, DecisionIsTold
<1>5. ASSUME NEW p \in Procs, Misread(p)  PROVE Told'
  <2>1. DecisionIsTold'
    BY <1>5, MisreadFacts DEF DecisionIsTold
  <2>2. \A q \in Procs : req'[q].op = req[q].op
    BY <1>5, MisreadFacts
  <2>3. QED  BY <1>5, <2>1, <2>2, MisreadFacts DEF Told, tables
<1>6. QED
  BY <1>1, <1>2, <1>3, <1>4, <1>5, ToldNotice, ToldStatement DEF TeamNext

(* Whoever's request was decided is told so, or is about to be, as long as *)
(* nothing was cut short and the team lives: notifyRequesterReviewed.      *)
THEOREM DecisionReachesUser == TeamSpec => []DecisionIsTold
<1>1. TeamInit => Typed /\ Told
  BY TypedInit, ToldInit
<1>2. (Typed /\ Told) /\ [TeamNext]_vars => (Typed /\ Told)'
  BY TypedStep, ToldStep
<1>3. Told => DecisionIsTold
  BY DEF Told
<1>4. QED  BY <1>1, <1>2, <1>3, PTL DEF TeamSpec

-----------------------------------------------------------------------------
(* The last admin.                                                         *)

(* CountAdmins says more than one: then there is one besides any user.     *)
LEMMA AnotherAdmin ==
    ASSUME ~(Cardinality(Admins) <= 1), NEW u
    PROVE  \E v \in Admins : v # u
<1> SUFFICES ASSUME Admins \subseteq {u} PROVE FALSE  OBVIOUS
<1>1. CASE Admins = {}
  BY <1>1, FS_EmptySet
<1>2. CASE Admins = {u}
  <2>1. Cardinality({u}) = 1
    BY FS_Singleton
  <2>2. QED  BY <1>2, <2>1
<1>3. QED  BY <1>1, <1>2

LEMMA GuardedInit == TeamInit => Guarded
  BY IdleFacts DEF TeamInit, Guarded

LEMMA GuardedStatement ==
    ASSUME Typed, Guarded, NEW p \in Procs, Statement(p)
    PROVE  Guarded'
<1>1. Legal(req[p]) /\ req[p] \in Request
  BY DEF Typed
<1>2. \A q \in Procs : q # p => req'[q] = req[q]
  BY StatementFacts
<1>3. SUFFICES ASSUME req'[p].at \in {"role", "delete"}, req'[p].op # "setTeams",
                      req'[p].on \in req'[p].saw
               PROVE  \/ req'[p].at = "role" /\ req'[p].role = "admin"
                      \/ \E u \in req'[p].saw : u # req'[p].on
  BY <1>2 DEF Guarded
<1>4. /\ RowStep(p) \/ CountStep(p)
      /\ req'[p].saw = Admins /\ req'[p].on = req[p].on /\ req'[p].op = req[p].op
      /\ req'[p].role = req[p].role
  BY <1>3, StatementFacts, IdleFacts
<1>5. CASE RowStep(p)
  <2>1. members[req[p].on] = [role |-> "admin", status |-> "approved"]
    BY <1>3, <1>4 DEF Admins
  <2>2. members[req[p].on].role = "admin"
    BY <2>1
  <2>3. req[p].op \in {"invite", "update", "remove", "join"} /\ req[p].at = "row"
    BY <1>1, <1>5 DEF RowStep, Legal, Reaches
  <2>4. \/ req'[p] = Idle
        \/ \E at \in {"insert", "asked", "count", "status"} : req'[p].at = at
        \/ req'[p].at = "role" /\ req[p].role = "admin"
    <3>1. CASE members[req[p].on] = NoRow
      <4>1. req[p].op \in {"invite", "join"} => req'[p].at \in {"insert", "asked"}
        <5>1. ASSUME req[p].op \in {"invite", "join"}
              PROVE  \E at \in {"insert", "asked"} :
                       req' = [req EXCEPT ![p].at = at, ![p].saw = Admins]
          BY <1>5, <3>1, <5>1 DEF RowStep
        <5>2. QED  BY <5>1, Changes
      <4>2. req[p].op \in {"remove", "update"} => Finish(p)
        BY <1>5, <3>1, <2>3 DEF RowStep
      <4>3. QED  BY <2>3, <4>1, <4>2, FinishFacts
    <3>2. CASE members[req[p].on] # NoRow
      <4>1. req[p].op \in {"invite", "join"} => Finish(p)
        BY <1>5, <3>2, <2>3 DEF RowStep
      <4>2. req[p].op = "remove" => req'[p].at = "count"
        <5>1. req[p].op = "remove" => req' = [req EXCEPT ![p].at = "count", ![p].saw = Admins]
          BY <1>5, <3>2, <2>1, <2>3 DEF RowStep
        <5>2. QED  BY <5>1, Changes
      <4>3. req[p].op = "update" => \/ req'[p].at \in {"status", "count"}
                                    \/ req'[p].at = "role" /\ req[p].role = "admin"
        <5>1. ASSUME req[p].op = "update"
              PROVE  \/ \E at \in {"status", "count"} :
                          req' = [req EXCEPT ![p].at = at, ![p].saw = Admins]
                     \/ req' = [req EXCEPT ![p].at = "role", ![p].saw = Admins]
                        /\ req[p].role = "admin"
          BY <1>5, <3>2, <2>2, <5>1 DEF RowStep
        <5>2. QED  BY <5>1, Changes
      <4>4. QED  BY <2>3, <4>1, <4>2, <4>3, FinishFacts
    <3>3. QED  BY <3>1, <3>2
  <2>5. QED  BY <1>3, <1>4, <2>4, IdleFacts
<1>6. CASE CountStep(p)
  <2>1. ~(Cardinality(Admins) <= 1)
    BY <1>3, <1>6, FinishFacts, IdleFacts DEF CountStep
  <2>2. QED  BY <1>4, <2>1, AnotherAdmin
<1>7. QED  BY <1>4, <1>5, <1>6

LEMMA GuardedStep ==
    ASSUME Typed, Guarded, [TeamNext]_vars
    PROVE  Guarded'
<1>1. CASE UNCHANGED vars
  BY <1>1 DEF Guarded, vars
<1>2. ASSUME NEW p \in Procs, Start(p)  PROVE Guarded'
  BY <1>2, StartFacts DEF Guarded
<1>3. ASSUME NEW p \in Procs, Abort(p)  PROVE Guarded'
  BY <1>3, FinishFacts, IdleFacts DEF Abort, Guarded
<1>4. ASSUME NEW n \in outbox, Notify(n) \/ LoseNotice(n)  PROVE Guarded'
  BY <1>4 DEF Notify, LoseNotice, Guarded
<1>5. CASE DeleteTeam
  BY <1>5 DEF DeleteTeam, Guarded
<1>6. ASSUME NEW p \in Procs, Misread(p)  PROVE Guarded'
  BY <1>6, MisreadFacts DEF Guarded
<1>7. QED
  BY <1>1, <1>2, <1>3, <1>4, <1>5, <1>6, GuardedStatement DEF TeamNext

(* The statements that take the role of admin from somebody.               *)
LEMMA LastAdminLost ==
    ASSUME Typed, Guarded, NEW p \in Procs, Statement(p), Admins # {}, Admins' = {}
    PROVE  \/ req[p].at = "status" /\ req[p].status = "rejected"
           \/ req[p].at = "delete" /\ req[p].op = "setTeams"
           \/ req[p].at \in {"role", "delete"} /\ req[p].saw # Admins
<1> DEFINE v == req[p].on
           admin == [role |-> "admin", status |-> "approved"]
<1>1. Legal(req[p]) /\ req[p] \in Request /\ members \in [Users -> Row \cup {NoRow}]
  BY DEF Typed, TeamTypeOK
<1>2. PICK a \in Users : members[a] = admin /\ members'[a] # admin
  BY DEF Admins
<1>3. CASE RoleStep(p)
  <2>1. req[p].at = "role" /\ v \in Users
    BY <1>1, <1>3 DEF RoleStep, Legal, Reaches
  <2>2. a = v /\ \A u \in Users : u # v => members'[u] = members[u]
    BY <1>1, <1>2, <1>3, <2>1 DEF RoleStep
  <2>3. CASE req[p].role = "admin"
    <3>1. members[v] = admin /\ admin # NoRow
      BY <1>2, <2>2, TeamAssumption
    <3>2. members'[v] = [admin EXCEPT !.role = "admin"]
      BY <1>1, <1>3, <2>1, <2>3, <3>1 DEF RoleStep
    <3>3. QED  BY <1>2, <2>2, <3>2
  <2>4. CASE req[p].role # "admin" /\ req[p].saw = Admins
    <3>1. v \in Admins
      BY <1>2, <2>1, <2>2 DEF Admins
    <3>2. PICK u \in Admins : u # v
      BY <1>1, <2>1, <2>4, <3>1 DEF Guarded, Legal, Reaches
    <3>3. u \in Admins'
      BY <2>2, <3>2 DEF Admins
    <3>4. QED  BY <3>3
  <2>5. QED  BY <2>1, <2>3, <2>4
<1>4. CASE StatusStep(p)
  <2>1. req[p].at = "status" /\ v \in Users /\ req[p].status \in {"", "approved", "rejected"}
    BY <1>1, <1>4 DEF StatusStep, Legal, Wants, Reaches
  <2>2. CASE req[p].status = ""
    BY <1>2, <1>4, <2>2 DEF StatusStep
  <2>3. CASE req[p].status = "approved"
    BY <1>1, <1>2, <1>4, <2>1, <2>3 DEF StatusStep, Row, Roles, Statuses
  <2>4. QED  BY <2>1, <2>2, <2>3
<1>5. CASE DeleteStep(p)
  <2>1. req[p].at = "delete" /\ v \in Users /\ req[p].op \in {"remove", "setTeams"}
    BY <1>1, <1>5 DEF DeleteStep, Legal, Reaches
  <2>2. a = v /\ \A u \in Users : u # v => members'[u] = members[u]
    BY <1>1, <1>2, <1>5, <2>1 DEF DeleteStep
  <2>3. CASE req[p].op = "remove" /\ req[p].saw = Admins
    <3>1. v \in Admins
      BY <1>2, <2>1, <2>2 DEF Admins
    <3>2. PICK u \in Admins : u # v
      BY <2>1, <2>3, <3>1 DEF Guarded
    <3>3. u \in Admins'
      BY <2>2, <3>2 DEF Admins
    <3>4. QED  BY <3>3
  <2>4. QED  BY <2>1, <2>3
<1>6. CASE InsertStep(p)
  <2>1. members[v] = NoRow \/ members' = members
    BY <1>6 DEF InsertStep
  <2>2. admin # NoRow
    BY TeamAssumption
  <2>3. QED  BY <1>1, <1>2, <1>6, <2>1, <2>2 DEF InsertStep
<1>7. CASE ~(RoleStep(p) \/ StatusStep(p) \/ DeleteStep(p) \/ InsertStep(p))
  <2>1. members' = members
    BY <1>7 DEF Statement, RowStep, CountStep, AskedStep, AskStep, DecideStep, SlugStep,
                TeamStep, tables
  <2>2. QED  BY <1>2, <2>1
<1>8. QED  BY <1>3, <1>4, <1>5, <1>6, <1>7

(* A statement is about one user, and the request goes on.                 *)
LEMMA WritesOne ==
    ASSUME Typed, NEW p \in Procs, Statement(p), req[p].at \in {"role", "status", "delete"},
           Admins # {}, Admins' = {}
    PROVE  req'[p] # req[p] /\ Admins = {req[p].on}
<1> DEFINE v == req[p].on
<1>1. RoleStep(p) \/ StatusStep(p) \/ DeleteStep(p)
  BY DEF Statement, RowStep, CountStep, InsertStep, AskedStep, AskStep, DecideStep, SlugStep,
         TeamStep
<1>2. \A u \in Users : u # v => members'[u] = members[u]
  BY <1>1 DEF RoleStep, StatusStep, DeleteStep, Typed, TeamTypeOK
<1>3. \A u \in Admins : u = v
  BY <1>2 DEF Admins
<1>4. CASE Finish(p)
  BY <1>3, <1>4, FinishFacts, IdleFacts
<1>5. CASE RoleStep(p) /\ Goto(p, "status")
  <2>1. req[p] \in Request /\ req'[p] = [req[p] EXCEPT !.at = "status"]
    BY <1>5 DEF Goto, Typed
  <2>2. req'[p].at = "status" /\ req[p].at = "role"
    BY <1>5, <2>1 DEF RoleStep, Request
  <2>3. QED  BY <1>3, <2>2
<1>6. QED  BY <1>1, <1>4, <1>5 DEF RoleStep, StatusStep, DeleteStep

LEMMA LastAdminStep ==
    ASSUME Typed, Guarded, [TeamNext]_vars, Admins # {}, Admins' = {}
    PROVE  \E p \in Procs :
             /\ req'[p] # req[p] /\ Admins = {req[p].on}
             /\ \/ req[p].at = "status" /\ req[p].status = "rejected"
                \/ req[p].at = "delete" /\ req[p].op = "setTeams"
                \/ req[p].at \in {"role", "delete"} /\ req[p].saw # Admins
<1>1. members' # members
  BY DEF Admins
<1>2. ASSUME NEW p \in Procs, Start(p) \/ Abort(p) \/ Misread(p)  PROVE FALSE
  BY <1>1, <1>2, StartFacts DEF Abort, Misread, tables
<1>3. ASSUME NEW n \in outbox, Notify(n) \/ LoseNotice(n)  PROVE FALSE
  BY <1>1, <1>3 DEF Notify, LoseNotice, tables
<1>4. PICK p \in Procs : Statement(p)
  BY <1>1, <1>2, <1>3 DEF TeamNext, DeleteTeam, vars, tables
<1>5. /\ \/ req[p].at = "status" /\ req[p].status = "rejected"
         \/ req[p].at = "delete" /\ req[p].op = "setTeams"
         \/ req[p].at \in {"role", "delete"} /\ req[p].saw # Admins
  BY <1>4, LastAdminLost
<1>6. req'[p] # req[p] /\ Admins = {req[p].on}
  BY <1>4, <1>5, WritesOne
<1>7. QED  BY <1>5, <1>6

(* A demotion or a removal takes the last approved admin from a team only  *)
(* when the admins changed between the look of the request that takes it   *)
(* and its write: the check of UpdateMember and RemoveMember fails by      *)
(* staleness alone.                                                        *)
THEOREM LastAdminGuard == TeamSpec => LastAdminKept
<1>1. TeamInit => Typed /\ Guarded
  BY TypedInit, GuardedInit
<1>2. (Typed /\ Guarded) /\ [TeamNext]_vars => (Typed /\ Guarded)'
  BY TypedStep, GuardedStep
<1>3. (Typed /\ Guarded) /\ [TeamNext]_vars =>
        [Admins # {} /\ Admins' = {} =>
            \E p \in Procs :
                /\ req'[p] # req[p] /\ Admins = {req[p].on}
                /\ \/ req[p].at = "status" /\ req[p].status = "rejected"
                   \/ req[p].at = "delete" /\ req[p].op = "setTeams"
                   \/ req[p].at \in {"role", "delete"} /\ req[p].saw # Admins]_vars
  BY LastAdminStep
<1>4. QED  BY <1>1, <1>2, <1>3, PTL DEF TeamSpec, LastAdminKept
=============================================================================
