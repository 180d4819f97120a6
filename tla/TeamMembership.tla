--------------------------- MODULE TeamMembership ---------------------------
(***************************************************************************)
(* One team, its members and its join requests: TeamService, the handlers  *)
(* in front of it, the role middleware and the administrator's             *)
(* UpdateUserTeams. A request is a process: its SQL statements are         *)
(* separate steps, nothing is in a transaction, so two requests interleave *)
(* between any two statements. What the request will do next depends on    *)
(* what it read, which may have changed by then.                           *)
(***************************************************************************)
EXTENDS Naturals, FiniteSets

CONSTANTS
    Users,        \* the accounts
    Root,         \* the accounts whose token says "root"
    Procs,        \* the requests that can be in flight at once
    NoRow,        \* no row in team_members
    Given,        \* the roles that requests ask for
    MaxRequests,  \* bound: requests started
    MaxFaults     \* bound: requests or notifications cut short

ASSUME TeamAssumption ==
    /\ Root \subseteq Users
    /\ Given \subseteq {"admin", "maintainer", "viewer"}
    /\ NoRow \notin [role : {"admin", "maintainer", "viewer"},
                     status : {"pending", "approved", "rejected"}]
    /\ MaxRequests \in Nat /\ MaxFaults \in Nat

VARIABLES
    team,     \* the row in teams: "absent", "live" or "deleted" (soft)
    members,  \* members[u]: the row of u in team_members, or NoRow
    joins,    \* joins[u]: the status of u's row in team_join_requests, or "none"
    req,      \* req[p]: the request p is executing
    outbox,   \* the notifying goroutines that have not run yet
    notices,  \* notices[u]: what the notifications of u say
    entered,  \* history: the users that have had a row in team_members
    started, faults

tables == <<team, members, joins>>
vars == <<team, members, joins, req, outbox, notices, entered, started, faults>>

Roles == {"admin", "maintainer", "viewer"}
Staff == {"admin", "maintainer"}
Statuses == {"pending", "approved", "rejected"}
Row == [role : Roles, status : Statuses]
Notice == [kind : {"asked", "approved", "rejected"}, about : Users]

Idle == [op |-> "none", at |-> "idle", on |-> NoRow, role |-> "", status |-> "", saw |-> {}]

\* CountAdmins counts these.
Admins == {u \in Users : members[u] = [role |-> "admin", status |-> "approved"]}
Approved(u) == members[u] # NoRow /\ members[u].status = "approved"

TeamTypeOK ==
    /\ team \in {"absent", "live", "deleted"}
    /\ members \in [Users -> Row \cup {NoRow}]
    /\ joins \in [Users -> Statuses \cup {"none"}]
    /\ \A p \in Procs : /\ req[p].on \in Users \cup {NoRow}
                        /\ req[p].saw \subseteq Users
    /\ outbox \subseteq Notice
    /\ notices \in [Users -> SUBSET Notice]
    /\ {u \in Users : members[u] # NoRow} \subseteq entered
    /\ started \in 0..MaxRequests /\ faults \in 0..MaxFaults

\* No team yet, or one whose members are all approved admins: what a creation,
\* invitations and approvals lead to, and where the last admin is at stake.
TeamInit ==
    /\ \/ team = "absent" /\ members = [u \in Users |-> NoRow]
       \/ team = "live"
          /\ members \in [Users -> {NoRow, [role |-> "admin", status |-> "approved"]}]
          /\ Admins # {}
    /\ joins = [u \in Users |-> "none"]
    /\ req = [p \in Procs |-> Idle]
    /\ outbox = {} /\ notices = [u \in Users |-> {}]
    /\ entered = {u \in Users : members[u] # NoRow}
    /\ started = 0 /\ faults = 0

-----------------------------------------------------------------------------
\* Requests: who may start which. A request that would be refused on its
\* arguments alone (validation, changing one's own role) is not started.

\* RequireTeamRole. The check is made once, before the handler.
Authorised(by, roles) ==
    by \in Root \/ (Approved(by) /\ members[by].role \in roles)

\* The handler of RemoveMember checks by itself, and not the status.
MayRemove(by, on) ==
    \/ by = on
    \/ by \in Root
    \/ members[by] # NoRow /\ members[by].role \in Staff

Begin(p, op, at, on, role, status) ==
    /\ req[p] = Idle
    /\ started < MaxRequests
    /\ started' = started + 1
    /\ req' = [req EXCEPT ![p] = [op |-> op, at |-> at, on |-> on, role |-> role,
                                  status |-> status, saw |-> {}]]
    /\ UNCHANGED <<tables, outbox, notices, entered, faults>>

StartCreate(p) == \E by \in Users : Begin(p, "create", "slug", by, "admin", "approved")

StartInvite(p) ==
    \E by, on \in Users, role \in Given :
        /\ team # "absent"
        /\ Authorised(by, Staff)
        /\ Begin(p, "invite", "row", on, role, "pending")

StartUpdate(p) ==
    \E by, on \in Users, role \in Given \cup {""}, status \in {"", "approved", "rejected"} :
        /\ Authorised(by, Staff)
        /\ role # "" => by # on
        /\ Begin(p, "update", "row", on, role, status)

StartRemove(p) ==
    \E by, on \in Users :
        /\ MayRemove(by, on)
        /\ Begin(p, "remove", "row", on, "", "")

StartJoin(p) ==
    \E by \in Users : team # "absent" /\ Begin(p, "join", "row", by, "", "pending")

\* GetByID of the request, then straight to the first write of the decision.
\* The reviewer is staff of the team in the path, which nothing compares with
\* the team of the request: whoever is staff of any team may decide.
StartReview(p) ==
    \E on \in Users, role \in Given, status \in {"approved", "rejected"} :
        /\ joins[on] # "none"
        /\ Begin(p, "review", IF status = "approved" THEN "insert" ELSE "decide",
                 on, IF status = "approved" THEN role ELSE "", status)

\* UpdateUserTeams: a platform administrator says whether "on" is to be in
\* the team; the memberships ListTeamIDsByUser returns are the approved ones.
StartSetTeams(p) ==
    \E on \in Users, want \in BOOLEAN :
        LET is == team = "live" /\ Approved(on) IN
        /\ team # "absent" /\ want # is
        /\ Begin(p, "setTeams", IF want THEN "insert" ELSE "delete", on, "viewer", "approved")

\* The request goes on, or comes to its end.
Goto(p, at) == req' = [req EXCEPT ![p].at = at]
Finish(p) == req' = [req EXCEPT ![p] = Idle]
Rest == UNCHANGED <<notices, started, faults>>

\* Plausible mistakes in the code below; the specification uses none of them.

\* The role is written even when the request names none.
RowStepAnyRole(p) ==
    /\ req[p].at = "row"
    /\ IF members[req[p].on] = NoRow /\ req[p].op = "update" THEN Finish(p)
       ELSE req' = [req EXCEPT ![p].saw = Admins,
                               ![p].at = CASE req[p].op = "update" -> "role"
                                           [] req[p].op = "remove" -> "delete"
                                           [] req[p].op = "invite" -> "insert"
                                           [] OTHER -> "asked"]
    /\ UNCHANGED <<tables, outbox, entered>> /\ Rest

\* The last admin is looked for one too late.
CountStepOffByOne(p) ==
    /\ req[p].at = "count"
    /\ IF Cardinality(Admins) < 1 THEN Finish(p)
       ELSE req' = [req EXCEPT ![p].saw = Admins,
                               ![p].at = IF req[p].op = "remove" THEN "delete" ELSE "role"]
    /\ UNCHANGED <<tables, outbox, entered>> /\ Rest

\* The decision is written whether or not the member could be created.
InsertStepIgnoresError(p) ==
    /\ req[p].at = "insert"
    /\ \/ /\ members[req[p].on] = NoRow
          /\ \/ /\ members' = [members EXCEPT ![req[p].on] =
                                  [role |-> req[p].role, status |-> req[p].status]]
                /\ entered' = entered \cup {req[p].on}
             \/ UNCHANGED <<members, entered>>
       \/ members[req[p].on] # NoRow /\ UNCHANGED <<members, entered>>
    /\ IF req[p].op = "review" THEN Goto(p, "decide") ELSE Finish(p)
    /\ UNCHANGED <<team, joins, outbox>> /\ Rest

\* Only an approval is announced.
DecideStepQuiet(p) ==
    /\ req[p].at = "decide"
    /\ joins' = [joins EXCEPT ![req[p].on] = req[p].status]
    /\ outbox' = IF req[p].status = "approved"
                 THEN outbox \cup {[kind |-> req[p].status, about |-> req[p].on]} ELSE outbox
    /\ Finish(p)
    /\ UNCHANGED <<team, members, entered>> /\ Rest

-----------------------------------------------------------------------------
\* Statements. Each is one SQL statement of the request and the code around it.

\* GetByTeamAndUser, and what each operation makes of the row.
RowStep(p) ==
    LET r == req[p]
        m == members[r.on]
        isRow == m # NoRow
        next == CASE r.op = "invite" -> IF isRow THEN "end" ELSE "insert"
                  [] r.op = "join"   -> IF isRow THEN "end" ELSE "asked"
                  [] r.op = "remove" -> IF ~isRow THEN "end"
                                        ELSE IF m = [role |-> "admin", status |-> "approved"]
                                        THEN "count" ELSE "delete"
                  [] r.op = "update" -> IF ~isRow THEN "end"
                                        ELSE IF r.role = "" THEN "status"
                                        ELSE IF m.role = "admin" /\ r.role # "admin"
                                        THEN "count" ELSE "role"
    IN  /\ r.at = "row"
        /\ IF next = "end" THEN Finish(p)
           ELSE req' = [req EXCEPT ![p].at = next, ![p].saw = Admins]
        /\ UNCHANGED <<tables, outbox, entered>> /\ Rest

\* CountAdmins; the last approved admin is neither demoted nor removed.
CountStep(p) ==
    /\ req[p].at = "count"
    /\ IF Cardinality(Admins) <= 1 THEN Finish(p)
       ELSE req' = [req EXCEPT ![p].saw = Admins,
                               ![p].at = IF req[p].op = "remove" THEN "delete" ELSE "role"]
    /\ UNCHANGED <<tables, outbox, entered>> /\ Rest

\* UpdateRole; an UPDATE of a row that is gone changes nothing.
RoleStep(p) ==
    /\ req[p].at = "role"
    /\ members' = IF members[req[p].on] = NoRow THEN members
                  ELSE [members EXCEPT ![req[p].on].role = req[p].role]
    /\ IF req[p].status = "" THEN Finish(p) ELSE Goto(p, "status")
    /\ UNCHANGED <<team, joins, outbox, entered>> /\ Rest

\* UpdateStatus, which nothing guards.
StatusStep(p) ==
    /\ req[p].at = "status"
    /\ members' = IF req[p].status = "" \/ members[req[p].on] = NoRow THEN members
                  ELSE [members EXCEPT ![req[p].on].status = req[p].status]
    /\ Finish(p)
    /\ UNCHANGED <<team, joins, outbox, entered>> /\ Rest

\* DELETE FROM team_members, for RemoveMember and for UpdateUserTeams.
DeleteStep(p) ==
    /\ req[p].at = "delete"
    /\ members' = [members EXCEPT ![req[p].on] = NoRow]
    /\ Finish(p)
    /\ UNCHANGED <<team, joins, outbox, entered>> /\ Rest

\* INSERT INTO team_members: (team, user) is unique, so it fails when there is
\* a row; only a review that could insert goes on to write its decision.
InsertStep(p) ==
    /\ req[p].at = "insert"
    /\ \/ /\ members[req[p].on] = NoRow
          /\ members' = [members EXCEPT ![req[p].on] =
                            [role |-> req[p].role, status |-> req[p].status]]
          /\ entered' = entered \cup {req[p].on}
          /\ IF req[p].op = "review" THEN Goto(p, "decide") ELSE Finish(p)
       \/ /\ members[req[p].on] # NoRow
          /\ Finish(p)
          /\ UNCHANGED <<members, entered>>
    /\ UNCHANGED <<team, joins, outbox>> /\ Rest

\* SubmitJoinRequest: only a pending request of the user is looked for.
AskedStep(p) ==
    /\ req[p].at = "asked"
    /\ IF joins[req[p].on] = "pending" THEN Finish(p) ELSE Goto(p, "ask")
    /\ UNCHANGED <<tables, outbox, entered>> /\ Rest

\* The INSERT fails on any request of the user; the admins are told later.
AskStep(p) ==
    /\ req[p].at = "ask"
    /\ Finish(p)
    /\ \/ /\ joins[req[p].on] = "none"
          /\ joins' = [joins EXCEPT ![req[p].on] = "pending"]
          /\ outbox' = outbox \cup {[kind |-> "asked", about |-> req[p].on]}
       \/ joins[req[p].on] # "none" /\ UNCHANGED <<joins, outbox>>
    /\ UNCHANGED <<team, members, entered>> /\ Rest

\* The decision overwrites any other; the requester is told later.
DecideStep(p) ==
    /\ req[p].at = "decide"
    /\ joins' = [joins EXCEPT ![req[p].on] = req[p].status]
    /\ outbox' = outbox \cup {[kind |-> req[p].status, about |-> req[p].on]}
    /\ Finish(p)
    /\ UNCHANGED <<team, members, entered>> /\ Rest

\* CreateTeam: GetBySlug sees live teams only, the slug is unique among all;
\* the creator becomes admin in a second INSERT.
SlugStep(p) ==
    /\ req[p].at = "slug"
    /\ IF team = "live" THEN Finish(p) ELSE Goto(p, "team")
    /\ UNCHANGED <<tables, outbox, entered>> /\ Rest

TeamStep(p) ==
    /\ req[p].at = "team"
    /\ \/ team = "absent" /\ team' = "live" /\ Goto(p, "insert")
       \/ team # "absent" /\ UNCHANGED team /\ Finish(p)
    /\ UNCHANGED <<members, joins, outbox, entered>> /\ Rest

Statement(p) ==
    \/ RowStep(p) \/ CountStep(p) \/ RoleStep(p) \/ StatusStep(p) \/ DeleteStep(p)
    \/ InsertStep(p) \/ AskedStep(p) \/ AskStep(p) \/ DecideStep(p)
    \/ SlugStep(p) \/ TeamStep(p)

\* DeleteTeam is one UPDATE.
DeleteTeam ==
    /\ team = "live" /\ started < MaxRequests
    /\ \E by \in Users : Authorised(by, {"admin"})
    /\ team' = "deleted" /\ started' = started + 1
    /\ UNCHANGED <<members, joins, req, outbox, notices, entered, faults>>

\* CreateAndPublish, for each of them: a row and an event.
Tell(to, n) == notices' = [u \in Users |-> IF u \in to THEN notices[u] \cup {n} ELSE notices[u]]

\* notifyTeamAdminsJoinRequest and notifyRequesterReviewed: nothing is sent
\* for a team that is gone, a join request goes to the approved staff.
Notify(n) ==
    LET to == IF n.kind = "asked" THEN {u \in Users : Approved(u) /\ members[u].role \in Staff}
              ELSE {n.about}
    IN  /\ n \in outbox
        /\ outbox' = outbox \ {n}
        /\ IF team = "live" THEN Tell(to, n) ELSE UNCHANGED notices
        /\ UNCHANGED <<tables, req, entered, started, faults>>

\* A statement fails or the process ends: the request goes no further, what it
\* wrote stays. A goroutine that has not run is lost with its process.
Abort(p) ==
    /\ faults < MaxFaults
    /\ req[p] # Idle
    /\ Finish(p)
    /\ faults' = faults + 1
    /\ UNCHANGED <<tables, outbox, notices, entered, started>>

\* The look-up before an INSERT fails: InviteMember, SubmitJoinRequest and
\* CreateTeam take every error for "there is none" and go on.
Misread(p) ==
    /\ faults < MaxFaults
    /\ \/ req[p].at = "row" /\ req[p].op = "invite" /\ Goto(p, "insert")
       \/ req[p].at = "row" /\ req[p].op = "join" /\ Goto(p, "asked")
       \/ req[p].at = "asked" /\ Goto(p, "ask")
       \/ req[p].at = "slug" /\ Goto(p, "team")
    /\ faults' = faults + 1
    /\ UNCHANGED <<tables, outbox, notices, entered, started>>

LoseNotice(n) ==
    /\ faults < MaxFaults
    /\ n \in outbox
    /\ outbox' = outbox \ {n}
    /\ faults' = faults + 1
    /\ UNCHANGED <<tables, req, notices, entered, started>>

Start(p) ==
    \/ StartCreate(p) \/ StartInvite(p) \/ StartUpdate(p) \/ StartRemove(p)
    \/ StartJoin(p) \/ StartReview(p) \/ StartSetTeams(p)

TeamNext ==
    \/ \E p \in Procs : Start(p) \/ Statement(p) \/ Abort(p) \/ Misread(p)
    \/ \E n \in outbox : Notify(n) \/ LoseNotice(n)
    \/ DeleteTeam

TeamSpec == TeamInit /\ [][TeamNext]_vars

-----------------------------------------------------------------------------
\* A team loses its last approved admin by a demotion or a removal only if the
\* set of admins changed after the very request that demotes or removes had
\* looked at it; every other way is one the code leaves open on purpose or by
\* omission: that request rejects the admin's status, or is an administrator's
\* that takes the user out (team_service.go:304-313, :340-348).
LastAdminKept ==
    [][Admins # {} /\ Admins' = {} =>
        \E p \in Procs :
            /\ req'[p] # req[p] /\ Admins = {req[p].on}
            /\ \/ req[p].at = "status" /\ req[p].status = "rejected"
               \/ req[p].at = "delete" /\ req[p].op = "setTeams"
               \/ req[p].at \in {"role", "delete"} /\ req[p].saw # Admins]_vars

\* A join request reads "approved" only if its author has been given a
\* membership: the row comes first, the decision after (:466, :471).
ApprovedWasAdmitted == \A u \in Users : joins[u] = "approved" => u \in entered

\* Whoever has a decision is told that decision, or is about to be, unless a
\* fault came in between or the team is gone (:476, :601-640).
DecisionIsTold ==
    \A u \in Users :
        LET n == [kind |-> joins[u], about |-> u] IN
        joins[u] \in {"approved", "rejected"} /\ faults = 0 /\ team = "live"
            => n \in outbox \cup notices[u]

\* "Team admins cannot remove the last admin" (docs/LLD/API.md:2151): a removal
\* never leaves a team that had an approved admin without one.
RemovalLeavesAnAdmin ==
    [][\A p \in Procs :
        req[p].op = "remove" /\ DeleteStep(p) /\ Admins # {} => Admins' # {}]_vars
=============================================================================
