------------------------------ MODULE Accounts ------------------------------
(***************************************************************************)
(* Users, sessions, workspaces and the requests they gate: sign-in with    *)
(* lazy provisioning of a personal workspace, deletion of the account, the *)
(* session guard, the listing of projects and the move of a project        *)
(* between workspaces.  Requests run concurrently, one awaited statement   *)
(* per step; the migration that gave every project its workspace has run   *)
(* before the first of them.                                               *)
(*                                                                         *)
(* Better Auth is external: its organization endpoint inserts the          *)
(* workspace and then the membership, its session endpoints read, update   *)
(* and delete rows, its invitations change memberships at any time.        *)
(***************************************************************************)
EXTENDS Naturals, Sequences, FiniteSets, SequencesExt

CONSTANTS
  User, Project, Request,
  Team,        \* workspaces that are nobody's personal one
  Orphanage,   \* the sentinel workspace without members
  Owner,       \* [Project -> User or a user whose row is gone]: owner_user_id
  Starts,      \* the tables the migration may find: [organization, member]
  None,
  MaxSignIns,  \* bound: sessions asked for
  MaxRequests, \* bound: guarded requests
  MaxChanges,  \* bound: changes of memberships and of active workspaces
  MaxErrors    \* bound: statements of the provisioning that reject

Workspace == Team \cup (User \X Nat)
Member    == [user : User, ws : Workspace, role : {"owner", "member"}]

ASSUME AccountsAssumption ==
  /\ IsFiniteSet(User) /\ MaxSignIns \in Nat
  /\ None # Orphanage /\ None \notin Workspace
  /\ \A start \in Starts : None \notin start.organization /\ start.member \in Seq(Member)

VARIABLES
  organization, \* workspaces that exist
  member,       \* membership rows, oldest first: [user, ws, role]
  workspace,    \* [Project -> workspace], None before the migration
  deleted,      \* users whose deletedAt is set
  session,      \* session rows: [id, user, active]
  req,          \* the requests in flight
  settled,      \* history: users nobody has changed a membership or choice of
  unmoved,      \* history: projects nobody has moved
  spent         \* counters of the bounds

tables == <<organization, member, workspace, deleted, session>>
vars   == <<tables, req, settled, unmoved, spent>>

Idle == [pc |-> "idle"]

\* History of the moves in flight: the memberships their user has had.
Holding(u, requests) ==
  [q \in Request |->
     IF "held" \in DOMAIN requests[q] /\ requests[q].user = u
       THEN [requests[q] EXCEPT !.held = @ \cup Range(member')] ELSE requests[q]]

-----------------------------------------------------------------------------
(* The repositories. *)

\* The earliest membership, which the migration and the sessions both use.
FirstIn(u, rows) ==
  LET at == {i \in DOMAIN rows : rows[i].user = u}
  IN IF at = {} THEN None ELSE rows[Min(at)].ws

findFirstWorkspaceId(u) == FirstIn(u, member)

isMember(u, w) == \E r \in Range(member) : r.user = u /\ r.ws = w

isWorkspaceOwner(u, w) == \E r \in Range(member) : r.user = u /\ r.ws = w /\ r.role = "owner"

\* A personal workspace carries its user's slug, which is unique.
Personal(u) == {w \in organization : w \in {u} \X (1 .. MaxSignIns + 1)}

\* What a listing of session s is scoped to.
resolveActiveWorkspaceId(s) == IF s.active # None THEN s.active ELSE findFirstWorkspaceId(s.user)

-----------------------------------------------------------------------------
(* The migration, before the server starts. *)

\* Mutant of Synthesized: only owners without an organization get a membership.
SynthesizedWithItsRow(u) ==
  FirstIn(u, member) = None /\ Personal(u) = {} /\ \E p \in Project : Owner[p] = u

\* Owners of projects without any membership: their personal workspace is
\* created unless its slug is there, and they join it.
Synthesized(u) == FirstIn(u, member) = None /\ \E p \in Project : Owner[p] = u

\* A project goes to its owner's earliest workspace, else to the personal one,
\* which may have outlived the owner's row, else to the sentinel.
Backfill ==
  LET made    == {u \in User : Synthesized(u)}
      home(u) == IF Personal(u) # {} THEN CHOOSE w \in Personal(u) : TRUE ELSE <<u, 1>>
      rows    == member \o SetToSeq({[user |-> u, ws |-> home(u), role |-> "owner"] : u \in made})
      For(u)  == IF FirstIn(u, rows) # None THEN FirstIn(u, rows)
                 ELSE IF Personal(u) # {} THEN home(u) ELSE Orphanage
  IN /\ member' = rows
     /\ workspace' = [p \in Project |-> For(Owner[p])]
     /\ organization' = organization \cup {home(u) : u \in made} \cup Range(workspace')

Migrate ==
  /\ \E p \in Project : workspace[p] = None
  /\ Backfill
  /\ UNCHANGED <<deleted, session, req, settled, unmoved, spent>>

Served == \A p \in Project : workspace[p] # None

-----------------------------------------------------------------------------
(* Sign-in: the session.create.before hook and the row it lets through. *)

Step(q, r)  == req' = [req EXCEPT ![q] = r]
To(q, pc)   == Step(q, [req[q] EXCEPT !.pc = pc])
Quiet       == UNCHANGED <<tables, settled, unmoved, spent>>
Count(what) == spent' = [spent EXCEPT ![what] = @ + 1]

SignIn(q, u) ==
  /\ req[q] = Idle /\ spent.signIns < MaxSignIns
  /\ Count("signIns")
  /\ Step(q, [pc |-> "checking", user |-> u, ws |-> None])
  /\ UNCHANGED <<tables, settled, unmoved>>

CheckDeleted(q) ==
  /\ req[q].pc = "checking"
  /\ IF req[q].user \in deleted THEN Step(q, Idle) ELSE To(q, "finding")
  /\ Quiet

Reading(q, found) ==
  Step(q, [req[q] EXCEPT !.ws = found,
                         !.pc = IF found = None /\ @ = "finding" THEN "creating" ELSE "inserting"])

FindWorkspace(q) ==
  /\ req[q].pc = "finding"
  /\ Reading(q, findFirstWorkspaceId(req[q].user))
  /\ Quiet

\* Mutant of SlugTaken: a slug that is not unique.
SlugIsFree(u) == FALSE

SlugTaken(u) == Personal(u) # {}

\* createOrganization: the workspace, and then the membership of its owner.
InsertOrganization(q) ==
  LET u == req[q].user
      w == <<u, Cardinality(Personal(u)) + 1>>
  IN /\ req[q].pc = "creating"
     /\ IF SlugTaken(u)
          THEN To(q, "rereading") /\ organization' = organization
          ELSE /\ Step(q, [req[q] EXCEPT !.pc = "joining", !.ws = w])
               /\ organization' = organization \cup {w}
     /\ UNCHANGED <<member, workspace, deleted, session, settled, unmoved, spent>>

InsertMember(q) ==
  /\ req[q].pc = "joining"
  /\ member' = Append(member, [user |-> req[q].user, ws |-> req[q].ws, role |-> "owner"])
  /\ req' = Holding(req[q].user, [req EXCEPT ![q].pc = "inserting"])
  /\ UNCHANGED <<organization, workspace, deleted, session, settled, unmoved, spent>>

\* The catch: what a concurrent sign-in created, if it is there yet.
Reread(q) ==
  /\ req[q].pc = "rereading"
  /\ Reading(q, findFirstWorkspaceId(req[q].user))
  /\ Quiet

\* A statement of the provisioning rejects: the first time it is read again,
\* then the session goes without a workspace.
Reject(q) ==
  /\ req[q].pc \in {"finding", "creating", "joining", "rereading"}
  /\ spent.errors < MaxErrors
  /\ Count("errors")
  /\ Step(q, [req[q] EXCEPT !.ws = None,
                            !.pc = IF @ = "rereading" THEN "inserting" ELSE "rereading"])
  /\ UNCHANGED <<tables, settled, unmoved>>

InsertSession(q) ==
  /\ req[q].pc = "inserting"
  /\ session' = session \cup {[id |-> q, user |-> req[q].user, active |-> req[q].ws]}
  /\ Step(q, Idle)
  /\ UNCHANGED <<organization, member, workspace, deleted, settled, unmoved, spent>>

-----------------------------------------------------------------------------
(* Guarded requests. *)

\* getSession: the row is read once, and the handler uses what was read.
Begin(q, s, op) ==
  /\ req[q] = Idle /\ spent.requests < MaxRequests
  /\ Count("requests")
  /\ Step(q, [pc |-> "guarding", op |-> op, session |-> s, late |-> s.user \in deleted])
  /\ UNCHANGED <<tables, settled, unmoved>>

\* Mutant of Admits: a session row is enough.
AdmitsAnySession(u) == TRUE

\* isActive, asked by the guard and once more by the data export.
Admits(u) == u \notin deleted

SessionGuard(q) ==
  /\ req[q].pc = "guarding"
  /\ IF Admits(req[q].session.user) THEN To(q, req[q].op) ELSE Step(q, Idle)
  /\ Quiet

DataExport(q) ==
  /\ req[q].pc = "export"
  /\ IF Admits(req[q].session.user) THEN To(q, "exporting") ELSE Step(q, Idle)
  /\ Quiet

\* The account is marked deleted and its sessions go, in one transaction.
SoftDeleteUser(q) ==
  LET u == req[q].session.user
  IN /\ req[q].pc = "deleteMe"
     /\ deleted' = deleted \cup {u}
     /\ session' = {s \in session : s.user # u}
     /\ Step(q, Idle)
     /\ UNCHANGED <<organization, member, workspace, settled, unmoved, spent>>

\* A page of the projects of the workspace the session resolves to.
List(q) ==
  /\ req[q].pc = "list"
  /\ LET w == resolveActiveWorkspaceId(req[q].session)
     IN Step(q, [pc |-> "listing", late |-> req[q].late, session |-> req[q].session, ws |-> w])
  /\ Quiet

Reply(q) ==
  /\ req[q].pc \in {"listing", "exporting", "replying"}
  /\ Step(q, Idle)
  /\ Quiet

\* ProjectAccessGuard and the checks of the move, each a statement: the project
\* as it is now, a membership of its workspace, the ownership of it, and a
\* membership of the target.
FindProject(q, p, target) ==
  /\ req[q].pc = "move"
  /\ Step(q, [pc |-> "accessing", late |-> req[q].late, user |-> req[q].session.user,
              project |-> p, source |-> workspace[p], target |-> target,
              held |-> {r \in Range(member) : r.user = req[q].session.user}])
  /\ Quiet

AccessGuard(q) ==
  /\ req[q].pc = "accessing"
  /\ IF isMember(req[q].user, req[q].source) THEN To(q, "gating") ELSE Step(q, Idle)
  /\ Quiet

\* Mutant of OwnsSource: the membership the guard has proven already.
IsMemberOfSource(u, w) == isMember(u, w)

OwnsSource(u, w) == isWorkspaceOwner(u, w)

Gate(q) ==
  /\ req[q].pc = "gating"
  /\ IF ~OwnsSource(req[q].user, req[q].source) THEN Step(q, Idle)
     ELSE To(q, IF req[q].target = req[q].source THEN "replying" ELSE "targeting")
  /\ Quiet

Target(q) ==
  /\ req[q].pc = "targeting"
  /\ IF isMember(req[q].user, req[q].target) THEN To(q, "assigning") ELSE Step(q, Idle)
  /\ Quiet

\* The move is written whatever happened since the checks.
AssignWorkspace(q) ==
  /\ req[q].pc = "assigning"
  /\ workspace' = [workspace EXCEPT ![req[q].project] = req[q].target]
  /\ unmoved' = unmoved \ {req[q].project}
  /\ To(q, "replying")
  /\ UNCHANGED <<organization, member, deleted, session, settled, spent>>

-----------------------------------------------------------------------------
(* Better Auth's own endpoints. *)

\* An invitation is accepted, a role changes, a member leaves.
ChangeMember(u, w, role) ==
  LET at  == CHOOSE i \in DOMAIN member : member[i].user = u /\ member[i].ws = w
      row == [user |-> u, ws |-> w, role |-> role]
  IN /\ Served /\ spent.changes < MaxChanges
     /\ Count("changes")
     /\ \/ ~isMember(u, w) /\ role # None /\ member' = Append(member, row)
        \/ isMember(u, w) /\ role # None /\ member[at].role # role /\ member' = [member EXCEPT ![at] = row]
        \/ isMember(u, w) /\ role = None /\ member' = RemoveAt(member, at)
     /\ req' = Holding(u, req)
     /\ settled' = settled \ {u}
     /\ UNCHANGED <<organization, workspace, deleted, session, unmoved>>

\* The workspace picker: the active workspace of the session, then a refresh.
SetActive(s, w) ==
  /\ spent.changes < MaxChanges
  /\ s.active # w /\ isMember(s.user, w)
  /\ Count("changes")
  /\ session' = (session \ {s}) \cup {[s EXCEPT !.active = w]}
  /\ settled' = settled \ {s.user}
  /\ UNCHANGED <<organization, member, workspace, deleted, req, unmoved>>

SignOut(s) ==
  /\ session' = session \ {s}
  /\ UNCHANGED <<organization, member, workspace, deleted, req, settled, unmoved, spent>>

-----------------------------------------------------------------------------
Init ==
  /\ \E start \in Starts : organization = start.organization /\ member = start.member
  /\ workspace = [p \in Project |-> None]
  /\ deleted = {} /\ session = {}
  /\ req = [q \in Request |-> Idle]
  /\ settled = User /\ unmoved = Project
  /\ spent = [signIns |-> 0, requests |-> 0, changes |-> 0, errors |-> 0]

Handle(q) ==
  \/ CheckDeleted(q) \/ FindWorkspace(q) \/ InsertOrganization(q) \/ InsertMember(q)
  \/ Reread(q) \/ Reject(q) \/ InsertSession(q)
  \/ SessionGuard(q) \/ DataExport(q) \/ SoftDeleteUser(q) \/ List(q) \/ Reply(q)
  \/ \E p \in Project, w \in organization : FindProject(q, p, w)
  \/ AccessGuard(q) \/ Gate(q) \/ Target(q) \/ AssignWorkspace(q)

Next ==
  \/ Migrate
  \/ /\ Served
     /\ \/ \E q \in Request, u \in User : SignIn(q, u)
        \/ \E q \in Request, s \in session, op \in {"list", "export", "deleteMe", "move"} :
             Begin(q, s, op)
        \/ \E q \in Request : Handle(q)
  \/ \E u \in User, w \in Team, role \in {"owner", "member", None} : ChangeMember(u, w, role)
  \/ \E s \in session : SignOut(s) \/ \E w \in organization : SetActive(s, w)

Spec == Init /\ [][Next]_vars

-----------------------------------------------------------------------------
(* Properties. *)

\* However many sign-ins of one user race, and whichever of their statements
\* fail, its sessions list one workspace, until the user joins, leaves or picks
\* another: the one that lost reads the winner's, or none and falls back to it
\* (workspace-provisioning.ts:45).
RacingSessionsAgree ==
  \A s, t \in session :
    s.user = t.user /\ s.user \in settled =>
      resolveActiveWorkspaceId(s) = resolveActiveWorkspaceId(t)

\* The projects the migration gave a workspace are in the one their owner's
\* sessions list, whether the owner had a workspace, half of one or none
\* (0010_project_workspace.sql, "a project and its owner's active session
\* converge on one workspace").
BackfillMeetsSessions ==
  \A s \in session, p \in unmoved :
    Owner[p] = s.user /\ s.user \in settled => workspace[p] = resolveActiveWorkspaceId(s)

\* Nothing is listed, exported or moved for a request that came after its user
\* was deleted, not even with a session whose sign-in overtook the deletion
\* (auth.soft-delete-guard.ts:46, session.guard.ts:64).
DeletedIsNeverServed ==
  \A q \in Request : req[q].pc \notin {"idle", "guarding"} /\ "late" \in DOMAIN req[q] => ~req[q].late

\* A move is written only for one who, while the request ran, owned the
\* workspace the project was found in and belonged to the one it goes to
\* (project.controller.ts:110-130); both may be over when it is written.
MovesAreEarned ==
  \A q \in Request :
    req[q].pc = "assigning" =>
      /\ \E r \in req[q].held : r.ws = req[q].source /\ r.user = req[q].user /\ r.role = "owner"
      /\ \E r \in req[q].held : r.ws = req[q].target /\ r.user = req[q].user
=============================================================================
