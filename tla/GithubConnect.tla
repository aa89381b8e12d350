---------------------------- MODULE GithubConnect ---------------------------
(***************************************************************************)
(* Connecting repositories: the API requests that link a GitHub App        *)
(* installation to a user and keep the project table in step with what the *)
(* installation grants.  The install redirect (completeInstall) and the    *)
(* installation webhooks run concurrently, each a loop over repositories   *)
(* with one awaited statement or call per step.                            *)
(*                                                                         *)
(* GitHub is external: it changes its installations on its own, posts a    *)
(* webhook for each change, does not repeat one that failed, and answers   *)
(* the App's calls only while the installation is active.  Repositories of *)
(* one call are taken in any order.                                        *)
(***************************************************************************)
EXTENDS Integers, FiniteSets

CONSTANTS
    User, Workspace, Installation, Repo,
    Request,       \* API requests in flight at once
    NoUser, NoProject, NoRepo, NoInstallation,
    Member,        \* Member[u]: the workspaces u is a member of
    First,         \* First[u]: the earliest of them
    Changes,       \* the changes GitHub makes to installations
    InOrder,       \* TRUE: webhooks arrive in the order they were posted
    MaxEvents,     \* bound: changes of installations at GitHub
    MaxCompletes,  \* bound: returns from the install redirect
    MaxErrors      \* bound: statements or calls that reject

Project == [owner : User, home : Workspace, inst : Installation, archived : BOOLEAN]

ASSUME ConnectAssumption ==
    /\ Member \in [User -> SUBSET Workspace]
    /\ First \in [User -> Workspace] /\ \A u \in User : First[u] \in Member[u]
    /\ NoUser \notin User /\ NoRepo \notin Repo /\ NoInstallation \notin Installation
    /\ NoProject \notin Project
    /\ InOrder \in BOOLEAN
    /\ MaxEvents \in Nat /\ MaxCompletes \in Nat /\ MaxErrors \in Nat

VARIABLES
    \* GitHub: the installations, what each grants, the webhooks on their way
    installed, grant, mail, events,
    \* the tables: github_installation, project (by its unique repository)
    link, project,
    scanned,     \* first scans enqueued, by repository and installation
    req,         \* the requests
    holders,     \* history: the users each installation has been linked to
    completes, errors

github == <<installed, grant, mail, events>>
tables == <<link, project, scanned, holders>>
bounds == <<completes, errors>>
vars   == <<github, tables, req, bounds>>

Acts    == {"created", "added", "unsuspend", "removed", "deleted", "suspend"}
Webhook == [act : Acts, inst : Installation, repos : SUBSET Repo, n : 1 .. MaxEvents]

\* A request: where it is, what for, the repositories left and the one in hand,
\* whether a revival re-homes it; history: did anything happen meanwhile.
Phase == {"idle", "listing", "finding", "creating", "reviving", "scanning",
          "archiving", "unlinking", "done"}
Calls == [pc : Phase, act : Acts \cup {"complete", "none"},
          inst : Installation \cup {NoInstallation}, user : User \cup {NoUser}, todo : SUBSET Repo,
          at : Repo \cup {NoRepo}, move : BOOLEAN, met : BOOLEAN]
Idle  == [pc |-> "idle", act |-> "none",
          inst |-> NoInstallation, user |-> NoUser,
          todo |-> {}, at |-> NoRepo, move |-> FALSE, met |-> FALSE]

TypeOK ==
    /\ installed \in [Installation -> {"new", "active", "suspended", "deleted"}]
    /\ grant \in [Installation -> SUBSET Repo]
    /\ mail \in SUBSET Webhook
    /\ events \in 0 .. MaxEvents
    /\ link \in [Installation -> User \cup {NoUser}]
    /\ project \in [Repo -> Project \cup {NoProject}]
    /\ scanned \in SUBSET (Repo \X Installation)
    /\ req \in [Request -> Calls]
    /\ holders \in [Installation -> SUBSET User]
    /\ completes \in 0 .. MaxCompletes
    /\ errors \in 0 .. MaxErrors

Init ==
    /\ installed = [i \in Installation |-> "new"]
    /\ grant = [i \in Installation |-> {}]
    /\ mail = {}
    /\ events = 0
    /\ link = [i \in Installation |-> NoUser]
    /\ project = [r \in Repo |-> NoProject]
    /\ scanned = {}
    /\ req = [q \in Request |-> Idle]
    /\ holders = [i \in Installation |-> {}]
    /\ completes = 0
    /\ errors = 0

Busy == {q \in Request : req[q].pc # "idle"}

-----------------------------------------------------------------------------
(* GitHub. *)

\* Installation i changes to state s with repositories R, and a webhook about
\* the repositories W is posted.
Change(i, s, R, act, W) ==
    /\ act \in Changes
    /\ events < MaxEvents
    /\ installed' = [installed EXCEPT ![i] = s]
    /\ grant' = [grant EXCEPT ![i] = R]
    /\ events' = events + 1
    /\ mail' = mail \cup {[act |-> act, inst |-> i, repos |-> W, n |-> events + 1]}
    /\ req' = [q \in Request |->
                 IF q \in Busy THEN [req[q] EXCEPT !.met = TRUE] ELSE req[q]]
    /\ UNCHANGED <<tables, bounds>>

\* A repository is granted by one installation at a time.
Free == Repo \ UNION {grant[i] : i \in Installation}

Install(i, R) ==
    /\ installed[i] = "new" /\ R # {} /\ R \subseteq Free
    /\ Change(i, "active", R, "created", R)

AddRepos(i, R) ==
    /\ installed[i] = "active" /\ R # {} /\ R \subseteq Free
    /\ Change(i, "active", grant[i] \cup R, "added", R)

RemoveRepo(i, r) ==
    /\ installed[i] = "active" /\ r \in grant[i]
    /\ Change(i, "active", grant[i] \ {r}, "removed", {r})

Suspend(i)   == installed[i] = "active" /\ Change(i, "suspended", grant[i], "suspend", {})
Unsuspend(i) == installed[i] = "suspended"
                /\ Change(i, "active", grant[i], "unsuspend", grant[i])
Uninstall(i) == installed[i] \in {"active", "suspended"}
                /\ Change(i, "deleted", {}, "deleted", {})

-----------------------------------------------------------------------------
(* The requests. *)

\* q goes on as c; to the others something has happened meanwhile.
Begin(q, c) ==
    req' = [p \in Request |->
              IF p = q THEN [c EXCEPT !.met = Busy # {}]
              ELSE IF p \in Busy THEN [req[p] EXCEPT !.met = TRUE] ELSE req[p]]

Goto(q, pc) == req' = [req EXCEPT ![q].pc = pc]

\* The loop is at its end, or takes the next repository.
NextOf(c, again, after) == IF c.todo = {} THEN [c EXCEPT !.pc = after]
                           ELSE [c EXCEPT !.pc = again]

\* An exception answers the request; what is left of its loop is not done.
Throw(q) == req' = [req EXCEPT ![q] = Idle]

\* Mutant: the link upsert is unconditional.
MayLinkAlways(u, i) == TRUE

\* The link statement's ON CONFLICT ... WHERE.
MayLink(u, i) == link[i] \in {NoUser, u}

\* completeInstall, its state verified: link the installation, which nothing
\* has said exists, or answer 409.
CompleteInstall(q, u, i) ==
    /\ req[q].pc = "idle"
    /\ completes < MaxCompletes
    /\ completes' = completes + 1
    /\ MayLink(u, i)
    /\ link' = [link EXCEPT ![i] = u]
    /\ holders' = [holders EXCEPT ![i] = @ \cup {u}]
    /\ Begin(q, [Idle EXCEPT !.pc = "listing", !.act = "complete",
                             !.inst = i, !.user = u])
    /\ UNCHANGED <<github, project, scanned, errors>>

\* listInstallationRepos, and the memberships read once.
ListRepos(q) ==
    /\ req[q].pc = "listing"
    /\ installed[req[q].inst] = "active"
    /\ req' = [req EXCEPT ![q] =
                 NextOf([@ EXCEPT !.todo = grant[req[q].inst]], "finding", "done")]
    /\ UNCHANGED <<github, tables, bounds>>

\* The App's calls fail while the installation is not active.
ListFails(q) ==
    /\ req[q].pc = "listing"
    /\ installed[req[q].inst] # "active"
    /\ Throw(q)
    /\ UNCHANGED <<github, tables, bounds>>

Arrives(m) == m \in mail /\ (InOrder => \A o \in mail : m.n <= o.n)

\* Mutant: an installation without a link is attributed to somebody.
OwnerOfAnyone(i) == IF link[i] # NoUser THEN {link[i]} ELSE User

\* The owner a webhook may provision for: the holder of the link, or nobody.
OwnerOf(i) == {link[i]} \ {NoUser}

\* created, unsuspend, added: provision for the holder of the link ...
ProvisionWebhook(q, m) ==
    /\ req[q].pc = "idle"
    /\ Arrives(m) /\ m.act \in {"created", "unsuspend", "added"}
    /\ \E u \in OwnerOf(m.inst) :
          Begin(q, NextOf([Idle EXCEPT !.act = m.act, !.inst = m.inst, !.user = u,
                                       !.todo = m.repos], "finding", "done"))
    /\ mail' = mail \ {m}
    /\ UNCHANGED <<installed, grant, events, tables, bounds>>

\* ... and without a link, ignore the webhook.
IgnoreWebhook(m) ==
    /\ Arrives(m) /\ m.act \in {"created", "unsuspend", "added"}
    /\ OwnerOf(m.inst) = {}
    /\ mail' = mail \ {m}
    /\ UNCHANGED <<installed, grant, events, tables, req, bounds>>

\* deleted, suspend: the projects of the installation, as one query finds them.
ArchiveWebhook(q, m) ==
    /\ req[q].pc = "idle"
    /\ Arrives(m) /\ m.act \in {"deleted", "suspend"}
    /\ LET mine == {r \in Repo : project[r] # NoProject /\ project[r].inst = m.inst}
       IN  Begin(q, NextOf([Idle EXCEPT !.act = m.act, !.inst = m.inst, !.todo = mine],
                           "archiving", IF m.act = "deleted" THEN "unlinking" ELSE "done"))
    /\ mail' = mail \ {m}
    /\ UNCHANGED <<installed, grant, events, tables, bounds>>

\* removed: the projects of the repositories, whoever installed them.
RemovedWebhook(q, m) ==
    /\ req[q].pc = "idle"
    /\ Arrives(m) /\ m.act = "removed"
    /\ Begin(q, [Idle EXCEPT !.pc = "archiving", !.act = m.act, !.inst = m.inst,
                             !.todo = m.repos])
    /\ mail' = mail \ {m}
    /\ UNCHANGED <<installed, grant, events, tables, bounds>>

\* Mutant: a revived project stays where it was.
MustMoveNever(u, home) == FALSE

\* A revival re-homes a project its owner cannot reach.
MustMove(u, home) == home \notin Member[u]

\* provisionRepo looks the repository up and decides on what it found.
FindProject(q) ==
    /\ req[q].pc = "finding"
    /\ \E r \in req[q].todo :
          req' = [req EXCEPT ![q] =
              IF project[r] = NoProject
              THEN [@ EXCEPT !.pc = "creating", !.at = r, !.todo = req[q].todo \ {r}]
              ELSE [@ EXCEPT !.pc = "reviving", !.at = r, !.todo = req[q].todo \ {r},
                             !.move = MustMove(req[q].user, project[r].home)]]
    /\ UNCHANGED <<github, tables, bounds>>

CreateProject(q) ==
    /\ req[q].pc = "creating"
    /\ project[req[q].at] = NoProject
    /\ project' = [project EXCEPT ![req[q].at] =
          [owner |-> req[q].user, home |-> First[req[q].user],
           inst |-> req[q].inst, archived |-> FALSE]]
    /\ Goto(q, "scanning")
    /\ UNCHANGED <<github, link, scanned, holders, bounds>>

\* Somebody created it meanwhile: the unique index refuses, the request throws.
CreateViolates(q) ==
    /\ req[q].pc = "creating"
    /\ project[req[q].at] # NoProject
    /\ Throw(q)
    /\ UNCHANGED <<github, tables, bounds>>

ReviveProject(q) ==
    /\ req[q].pc = "reviving"
    /\ project' = [project EXCEPT ![req[q].at] =
          [@ EXCEPT !.inst = req[q].inst, !.archived = FALSE,
                    !.home = IF req[q].move THEN First[req[q].user]
                             ELSE project[req[q].at].home]]
    /\ Goto(q, "scanning")
    /\ UNCHANGED <<github, link, scanned, holders, bounds>>

\* resolveDefaultBranchHead, then the first scan is enqueued.
EnqueueScan(q) ==
    /\ req[q].pc = "scanning"
    /\ installed[req[q].inst] = "active" /\ req[q].at \in grant[req[q].inst]
    /\ scanned' = scanned \cup {<<req[q].at, req[q].inst>>}
    /\ req' = [req EXCEPT ![q] = NextOf([@ EXCEPT !.at = NoRepo, !.move = FALSE],
                                        "finding", "done")]
    /\ UNCHANGED <<github, link, project, holders, bounds>>

\* The installation, or its grant of the repository, is gone.
ScanFails(q) ==
    /\ req[q].pc = "scanning"
    /\ installed[req[q].inst] # "active" \/ req[q].at \notin grant[req[q].inst]
    /\ Throw(q)
    /\ UNCHANGED <<github, tables, bounds>>

\* archiveProject by id; archiveRepo's look-up is part of it, as rows stay.
ArchiveProject(q) ==
    /\ req[q].pc = "archiving"
    /\ \E r \in req[q].todo :
          /\ project' = [project EXCEPT ![r] =
                IF @ = NoProject THEN @ ELSE [@ EXCEPT !.archived = TRUE]]
          /\ req' = [req EXCEPT ![q] =
                NextOf([@ EXCEPT !.todo = req[q].todo \ {r}], "archiving",
                       IF req[q].act = "deleted" THEN "unlinking" ELSE "done")]
    /\ UNCHANGED <<github, link, scanned, holders, bounds>>

DeleteInstallation(q) ==
    /\ req[q].pc = "unlinking"
    /\ link' = [link EXCEPT ![req[q].inst] = NoUser]
    /\ Goto(q, "done")
    /\ UNCHANGED <<github, project, scanned, holders, bounds>>

Reply(q) ==
    /\ req[q].pc = "done"
    /\ req' = [req EXCEPT ![q] = Idle]
    /\ UNCHANGED <<github, tables, bounds>>

\* A statement or a call rejects, or the process dies.
Fail(q) ==
    /\ req[q].pc \notin {"idle", "done"}
    /\ errors < MaxErrors
    /\ errors' = errors + 1
    /\ Throw(q)
    /\ UNCHANGED <<github, tables, completes>>

-----------------------------------------------------------------------------
GitHub ==
    \E i \in Installation :
        \/ \E R \in SUBSET Repo : Install(i, R) \/ AddRepos(i, R)
        \/ \E r \in Repo : RemoveRepo(i, r)
        \/ Suspend(i) \/ Unsuspend(i) \/ Uninstall(i)

Api(q) ==
    \/ \E u \in User, i \in Installation : CompleteInstall(q, u, i)
    \/ \E m \in mail : ProvisionWebhook(q, m) \/ ArchiveWebhook(q, m) \/ RemovedWebhook(q, m)
    \/ ListRepos(q) \/ ListFails(q)
    \/ FindProject(q) \/ CreateProject(q) \/ CreateViolates(q) \/ ReviveProject(q)
    \/ EnqueueScan(q) \/ ScanFails(q)
    \/ ArchiveProject(q) \/ DeleteInstallation(q) \/ Reply(q) \/ Fail(q)

Next ==
    \/ GitHub
    \/ \E m \in mail : IgnoreWebhook(m)
    \/ \E q \in Request : Api(q)

Spec == Init /\ [][Next]_vars

-----------------------------------------------------------------------------
\* No owner is fabricated: whatever webhooks and redirects overlap, a project
\* belongs to a user who had linked an installation, and is attributed to an
\* installation somebody linked.
NoFabricatedOwner ==
    \A r \in Repo : project[r] # NoProject =>
        /\ holders[project[r].inst] # {}
        /\ \E i \in Installation : project[r].owner \in holders[i]

\* A held link is never re-pointed: it changes hands only through nobody's, and
\* becomes nobody's only once the installation is deleted.
LinkIsHeld ==
    [][\A i \in Installation : link[i] # NoUser /\ link'[i] # link[i]
          => link'[i] = NoUser /\ installed[i] = "deleted"]_vars

\* A live project of i that u can open, and whose first scan is enqueued.
Connected(r, i, u) ==
    /\ project[r] # NoProject
    /\ project[r].inst = i /\ ~project[r].archived /\ project[r].home \in Member[u]
    /\ <<r, i>> \in scanned

\* From whatever earlier requests, failures and lost webhooks left behind, one
\* install redirect connects everything the installation grants, and one
\* deletion archives everything it had, if nothing else happens meanwhile.
AloneReconciles ==
    \A q \in Request :
        LET c == req[q]
        IN  c.pc = "done" /\ ~c.met =>
            /\ c.act = "complete" =>
                  \A r \in grant[c.inst] : Connected(r, c.inst, c.user)
            /\ c.act = "deleted" =>
                  /\ link[c.inst] = NoUser
                  /\ \A r \in Repo : /\ project[r] # NoProject
                                     /\ project[r].inst = c.inst
                                     => project[r].archived
=============================================================================
