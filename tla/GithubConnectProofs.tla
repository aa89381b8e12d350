------------------------ MODULE GithubConnectProofs -------------------------
(***************************************************************************)
(* Theorems about GithubConnect, for every set of users, installations,    *)
(* repositories and concurrent requests, and every value of the bounds.    *)
(***************************************************************************)
EXTENDS GithubConnect, TLAPS

-----------------------------------------------------------------------------
(* Typing.  A request at work knows its installation, one that provisions  *)
(* its user, and one with a repository in hand that repository.            *)

AtWork       == {"creating", "reviving", "scanning"}
Provisioning == {"listing", "finding"} \cup AtWork

CallOK(c) ==
    /\ c.pc # "idle" => c.inst \in Installation
    /\ c.pc \in Provisioning => c.user \in User
    /\ c.pc \in AtWork => c.at \in Repo
    /\ c.act = "complete" => c.pc \in Provisioning \cup {"done"} /\ c.user \in User
    /\ c.act = "deleted" => c.pc \in {"archiving", "unlinking", "done"}
    /\ c.pc = "unlinking" => c.act = "deleted"

Good  == {c \in Calls : CallOK(c)}

\* Rows are never removed: one that was found is still there.
Found ==
    \A q \in Request : req[q].pc \in {"reviving", "scanning"} =>
                           project[req[q].at] # NoProject

Typed == TypeOK /\ req \in [Request -> Good] /\ Found

\* A record that is disturbed, and one whose loop goes on.
LEMMA Disturbed == ASSUME NEW c \in Good, NEW b \in BOOLEAN
                   PROVE  [c EXCEPT !.met = b] \in Good
  BY DEF Good, Calls, CallOK

LEMMA IdleGood == Idle \in Good
  BY DEF Good, Calls, CallOK, Idle, Phase, Provisioning, AtWork

LEMMA TypedInit == Init => Typed
<1> SUFFICES ASSUME Init PROVE Typed
  OBVIOUS
<1>1. req \in [Request -> Good]
  BY IdleGood DEF Init
<1>2. req \in [Request -> Calls]
  BY <1>1 DEF Good
<1>3. \A q \in Request : req[q].pc = "idle"
  BY DEF Init, Idle
<1>4. Found
  BY <1>3 DEF Found
<1> QED
  BY <1>1, <1>2, <1>4, ConnectAssumption DEF Init, Typed, TypeOK

LEMMA TypedChange ==
    ASSUME Typed, NEW i \in Installation, NEW s \in {"active", "suspended", "deleted"},
           NEW R \in SUBSET Repo, NEW act \in Acts, NEW W \in SUBSET Repo,
           Change(i, s, R, act, W)
    PROVE  Typed'
<1> USE ConnectAssumption DEF Change, tables, bounds
<1>1. mail' \in SUBSET Webhook /\ events' \in 0 .. MaxEvents
  BY DEF Webhook, Typed, TypeOK
<1>2. req' \in [Request -> Good]
  BY Disturbed DEF Typed
<1>3. req' \in [Request -> Calls]
  BY <1>2 DEF Good
<1>4. \A q \in Request : req'[q].pc = req[q].pc /\ req'[q].at = req[q].at
  BY DEF Typed, Good, Calls
<1> QED
  BY <1>1, <1>2, <1>3, <1>4 DEF Typed, TypeOK, Found

\* Every step of GitHub is a change of one installation.
LEMMA GitHubChanges ==
    ASSUME Typed, GitHub
    PROVE  \E i \in Installation, s \in {"active", "suspended", "deleted"},
              R \in SUBSET Repo, act \in Acts, W \in SUBSET Repo :
              /\ Change(i, s, R, act, W)
              /\ installed[i] # "deleted"
              /\ act = "deleted" => s = "deleted"
<1>1. PICK i \in Installation :
         \/ \E R \in SUBSET Repo : Install(i, R) \/ AddRepos(i, R)
         \/ \E r \in Repo : RemoveRepo(i, r)
         \/ Suspend(i) \/ Unsuspend(i) \/ Uninstall(i)
  BY DEF GitHub
<1>2. grant[i] \in SUBSET Repo
  BY DEF Typed, TypeOK
<1>3. ASSUME NEW R \in SUBSET Repo, Install(i, R)
      PROVE  Change(i, "active", R, "created", R) /\ installed[i] # "deleted"
  BY <1>3 DEF Install
<1>4. ASSUME NEW R \in SUBSET Repo, AddRepos(i, R)
      PROVE  Change(i, "active", grant[i] \cup R, "added", R) /\ installed[i] # "deleted"
  BY <1>4 DEF AddRepos
<1>5. ASSUME NEW r \in Repo, RemoveRepo(i, r)
      PROVE  Change(i, "active", grant[i] \ {r}, "removed", {r}) /\ installed[i] # "deleted"
  BY <1>5 DEF RemoveRepo
<1>6. Suspend(i) => Change(i, "suspended", grant[i], "suspend", {}) /\ installed[i] # "deleted"
  BY DEF Suspend
<1>7. Unsuspend(i) => Change(i, "active", grant[i], "unsuspend", grant[i])
                      /\ installed[i] # "deleted"
  BY DEF Unsuspend
<1>8. Uninstall(i) => Change(i, "deleted", {}, "deleted", {}) /\ installed[i] # "deleted"
  BY DEF Uninstall
<1> HIDE DEF Change
<1>9. \A R \in SUBSET Repo : grant[i] \cup R \in SUBSET Repo
  BY <1>2
<1>10. \A r \in Repo : grant[i] \ {r} \in SUBSET Repo /\ {r} \in SUBSET Repo
  BY <1>2
<1>11. /\ "active" \in {"active", "suspended", "deleted"}
       /\ "suspended" \in {"active", "suspended", "deleted"}
       /\ "deleted" \in {"active", "suspended", "deleted"}
       /\ {"created", "added", "removed", "suspend", "unsuspend", "deleted"} \subseteq Acts
       /\ {} \in SUBSET Repo
  BY DEF Acts
<1>a. CASE \E R \in SUBSET Repo : Install(i, R)
  BY <1>a, <1>3, <1>11
<1>b. CASE \E R \in SUBSET Repo : AddRepos(i, R)
  <2>1. PICK Q \in SUBSET Repo : AddRepos(i, Q)
    BY <1>b
  <2> DEFINE R == grant[i] \cup Q
  <2>2. R \in SUBSET Repo /\ Change(i, "active", R, "added", Q)
    BY <2>1, <1>4, <1>9
  <2>3. installed[i] # "deleted"
    BY <2>1, <1>4
  <2> HIDE DEF R
  <2> USE <1>11, <2>2
  <2> WITNESS i \in Installation, "active" \in {"active", "suspended", "deleted"},
              R \in SUBSET Repo, "added" \in Acts, Q \in SUBSET Repo
  <2> QED
    BY <2>2, <2>3
<1>c. CASE \E r \in Repo : RemoveRepo(i, r)
  <2>1. PICK r \in Repo : RemoveRepo(i, r)
    BY <1>c
  <2> DEFINE R == grant[i] \ {r}
             W == {r}
  <2>2. R \in SUBSET Repo /\ W \in SUBSET Repo /\ Change(i, "active", R, "removed", W)
    BY <2>1, <1>5, <1>10
  <2>3. installed[i] # "deleted"
    BY <2>1, <1>5
  <2> HIDE DEF R, W
  <2> USE <1>11, <2>2
  <2> WITNESS i \in Installation, "active" \in {"active", "suspended", "deleted"},
              R \in SUBSET Repo, "removed" \in Acts, W \in SUBSET Repo
  <2> QED
    BY <2>2, <2>3
<1>d. CASE Suspend(i)
  BY <1>d, <1>2, <1>6, <1>11
<1>e. CASE Unsuspend(i)
  BY <1>e, <1>2, <1>7, <1>11
<1>f. CASE Uninstall(i)
  BY <1>f, <1>8, <1>11
<1> QED
  BY <1>1, <1>a, <1>b, <1>c, <1>d, <1>e, <1>f

\* The requests stay typed when q goes on as c and the others are disturbed.
LEMMA TypedBegin ==
    ASSUME Typed, NEW q \in Request, NEW c \in Good, Begin(q, c)
    PROVE  req' \in [Request -> Good]
<1>1. [c EXCEPT !.met = Busy # {}] \in Good
  BY Disturbed
<1>2. \A p \in Request : [req[p] EXCEPT !.met = TRUE] \in Good
  BY Disturbed DEF Typed
<1> QED
  BY <1>1, <1>2 DEF Begin, Typed

LEMMA TypedThrow ==
    ASSUME Typed, NEW q \in Request, Throw(q)
    PROVE  req' \in [Request -> Good]
  BY IdleGood DEF Throw, Typed

LEMMA TypedApi ==
    ASSUME Typed, NEW q \in Request, Api(q)
    PROVE  /\ req' \in [Request -> Good] /\ TypeOK'
           /\ \A r \in Repo : project'[r] # project[r] => project'[r] \in Project
<1> USE ConnectAssumption DEF github, tables, bounds
<1>0. /\ TypeOK /\ req[q] \in Good /\ req[q] \in Calls /\ CallOK(req[q])
      /\ req \in [Request -> Good]
  BY DEF Typed, Good
<1> DEFINE Step == /\ req' \in [Request -> Good]
                   /\ (req' \in [Request -> Calls]) => TypeOK'
                   /\ \A r \in Repo : project'[r] # project[r] => project'[r] \in Project
<1> SUFFICES Step
  BY DEF Good
<1>1. ASSUME NEW u \in User, NEW i \in Installation, CompleteInstall(q, u, i)
      PROVE  Step
  <2>1. [Idle EXCEPT !.pc = "listing", !.act = "complete", !.inst = i, !.user = u] \in Good
    BY DEF Idle, Good, Calls, Phase, CallOK, Provisioning, AtWork
  <2> QED
    BY <1>0, <1>1, <2>1, TypedBegin DEF CompleteInstall, TypeOK
<1>2. ASSUME NEW m \in mail, ProvisionWebhook(q, m)
      PROVE  Step
  <2> DEFINE c(u) == NextOf([Idle EXCEPT !.act = m.act, !.inst = m.inst, !.user = u,
                                         !.todo = m.repos], "finding", "done")
  <2>1. PICK u \in OwnerOf(m.inst) : Begin(q, c(u))
    BY <1>2 DEF ProvisionWebhook
  <2>2. /\ m \in Webhook /\ u \in User
        /\ m.act \in {"created", "unsuspend", "added"}
    BY <1>0, <1>2 DEF OwnerOf, Webhook, TypeOK, ProvisionWebhook
  <2>3. c(u) \in Good
    BY <2>2 DEF NextOf, Idle, Good, Calls, Phase, Webhook, CallOK, Provisioning, AtWork
  <2> QED
    BY <1>0, <1>2, <2>1, <2>3, TypedBegin DEF ProvisionWebhook, TypeOK
<1>3. ASSUME NEW m \in mail, ArchiveWebhook(q, m)
      PROVE  Step
  <2> DEFINE mine == {r \in Repo : project[r] # NoProject /\ project[r].inst = m.inst}
             c == [Idle EXCEPT !.act = m.act, !.inst = m.inst, !.todo = mine]
             after == IF m.act = "deleted" THEN "unlinking" ELSE "done"
  <2>1. m \in Webhook /\ m.act \in {"deleted", "suspend"}
    BY <1>0, <1>3 DEF TypeOK, ArchiveWebhook
  <2>2. Begin(q, NextOf(c, "archiving", after))
    BY <1>3 DEF ArchiveWebhook
  <2>3. NextOf(c, "archiving", after) \in Good
    BY <2>1 DEF NextOf, Idle, Good, Calls, Phase, Webhook, CallOK, Provisioning, AtWork
  <2> QED
    BY <1>0, <1>3, <2>2, <2>3, TypedBegin DEF ArchiveWebhook, TypeOK
<1>4. ASSUME NEW m \in mail, RemovedWebhook(q, m)
      PROVE  Step
  <2>1. m \in Webhook /\ m.act = "removed"
    BY <1>0, <1>4 DEF TypeOK, RemovedWebhook
  <2>2. [Idle EXCEPT !.pc = "archiving", !.act = m.act, !.inst = m.inst,
                     !.todo = m.repos] \in Good
    BY <2>1 DEF Idle, Good, Calls, Phase, Webhook, CallOK, Provisioning, AtWork
  <2> QED
    BY <1>0, <1>4, <2>2, TypedBegin DEF RemovedWebhook, TypeOK
<1>5. CASE ListRepos(q)
  <2>1. req[q].inst \in Installation
    BY <1>0, <1>5 DEF ListRepos, CallOK
  <2>2. grant[req[q].inst] \in SUBSET Repo
    BY <2>1, <1>0 DEF TypeOK
  <2>3. NextOf([req[q] EXCEPT !.todo = grant[req[q].inst]], "finding", "done") \in Good
    BY <2>2, <1>0, <1>5 DEF ListRepos, NextOf, Good, Calls, Phase, CallOK, Provisioning, AtWork
  <2> QED
    BY <1>0, <1>5, <2>3 DEF ListRepos, TypeOK
<1>6. CASE ListFails(q) \/ CreateViolates(q) \/ ScanFails(q)
  BY <1>0, <1>6, TypedThrow DEF ListFails, CreateViolates, ScanFails, TypeOK
<1>7. CASE Fail(q)
  BY <1>0, <1>7, TypedThrow DEF Fail, TypeOK
<1>8. CASE FindProject(q)
  <2>1. PICK r \in req[q].todo :
          req' = [req EXCEPT ![q] =
              IF project[r] = NoProject
              THEN [@ EXCEPT !.pc = "creating", !.at = r, !.todo = req[q].todo \ {r}]
              ELSE [@ EXCEPT !.pc = "reviving", !.at = r, !.todo = req[q].todo \ {r},
                             !.move = MustMove(req[q].user, project[r].home)]]
    BY <1>8 DEF FindProject
  <2>2. r \in Repo /\ req[q].pc = "finding" /\ req[q].todo \ {r} \in SUBSET Repo
    BY <1>0, <1>8 DEF FindProject, Calls
  <2>3. MustMove(req[q].user, project[r].home) \in BOOLEAN
    BY DEF MustMove
  <2>4. [req[q] EXCEPT !.pc = "creating", !.at = r, !.todo = req[q].todo \ {r}] \in Good
    BY <2>2, <1>0 DEF Good, Calls, Phase, CallOK, Provisioning, AtWork
  <2>5. [req[q] EXCEPT !.pc = "reviving", !.at = r, !.todo = req[q].todo \ {r},
                       !.move = MustMove(req[q].user, project[r].home)] \in Good
    BY <2>2, <2>3, <1>0 DEF Good, Calls, Phase, CallOK, Provisioning, AtWork
  <2>6. req' \in [Request -> Good]
    BY <1>0, <2>1, <2>4, <2>5
  <2> QED
    BY <1>0, <1>8, <2>6 DEF FindProject, TypeOK
\* Provisioning one repository.
<1>9. CASE CreateProject(q)
  <2>1. req[q].at \in Repo /\ req[q].user \in User /\ req[q].inst \in Installation
    BY <1>0, <1>9 DEF CreateProject, CallOK, Provisioning, AtWork
  <2>2. [owner |-> req[q].user, home |-> First[req[q].user],
         inst |-> req[q].inst, archived |-> FALSE] \in Project
    BY <2>1 DEF Project
  <2>3. [req[q] EXCEPT !.pc = "scanning"] \in Good
    BY <1>0, <1>9 DEF CreateProject, Good, Calls, Phase, CallOK, Provisioning, AtWork
  <2> QED
    BY <1>0, <1>9, <2>1, <2>2, <2>3 DEF CreateProject, Goto, TypeOK
<1> DEFINE scanned1 == [req[q] EXCEPT !.at = NoRepo, !.move = FALSE]
<1>10. CASE EnqueueScan(q)
  <2>1. req[q].at \in Repo /\ req[q].inst \in Installation
    BY <1>0, <1>10 DEF EnqueueScan, CallOK, Provisioning, AtWork
  <2>2. NextOf(scanned1, "finding", "done") \in Good
    BY <1>0, <1>10 DEF EnqueueScan, NextOf, Good, Calls, Phase, CallOK, Provisioning, AtWork
  <2>3. scanned' \in SUBSET (Repo \X Installation)
    BY <1>0, <1>10, <2>1 DEF EnqueueScan, TypeOK
  <2> QED
    BY <1>0, <1>10, <2>2, <2>3 DEF EnqueueScan, TypeOK
<1>11. CASE ReviveProject(q)
  <2>1. req[q].at \in Repo /\ req[q].user \in User /\ req[q].inst \in Installation
    BY <1>0, <1>11 DEF ReviveProject, CallOK, Provisioning, AtWork
  <2> DEFINE row == [project[req[q].at] EXCEPT !.inst = req[q].inst, !.archived = FALSE,
                        !.home = IF req[q].move THEN First[req[q].user]
                                 ELSE project[req[q].at].home]
  <2>2. row \in Project
    <3>1. project[req[q].at] \in Project
      BY <1>0, <1>11, <2>1 DEF ReviveProject, TypeOK, Typed, Found
    <3> QED
      BY <3>1, <2>1 DEF Project
  <2>3. [req[q] EXCEPT !.pc = "scanning"] \in Good
    BY <1>0, <1>11 DEF ReviveProject, Good, Calls, Phase, CallOK, Provisioning, AtWork
  <2> QED
    BY <1>0, <1>11, <2>1, <2>2, <2>3 DEF ReviveProject, Goto, TypeOK
<1>12. CASE ArchiveProject(q)
  <2> DEFINE after == IF req[q].act = "deleted" THEN "unlinking" ELSE "done"
  <2>1. PICK r \in req[q].todo :
          /\ project' = [project EXCEPT ![r] =
                IF @ = NoProject THEN @ ELSE [@ EXCEPT !.archived = TRUE]]
          /\ req' = [req EXCEPT ![q] =
                NextOf([@ EXCEPT !.todo = req[q].todo \ {r}], "archiving", after)]
    BY <1>12 DEF ArchiveProject
  <2>2. r \in Repo
    BY <1>0 DEF Calls
  <2>3. project[r] # NoProject => [project[r] EXCEPT !.archived = TRUE] \in Project
    <3>1. project[r] \in Project \cup {NoProject}
      BY <1>0, <2>2 DEF TypeOK
    <3> QED
      BY <3>1 DEF Project
  <2>4. NextOf([req[q] EXCEPT !.todo = req[q].todo \ {r}], "archiving", after) \in Good
    BY <1>0, <1>12 DEF ArchiveProject, NextOf, Good, Calls, Phase, CallOK, Provisioning, AtWork
  <2>5. req' \in [Request -> Good]
    BY <1>0, <2>1, <2>4
  <2>6. /\ project' \in [Repo -> Project \cup {NoProject}]
        /\ \A x \in Repo : project'[x] # project[x] => project'[x] \in Project
    BY <1>0, <2>1, <2>2, <2>3 DEF TypeOK
  <2> QED
    BY <1>0, <1>12, <2>5, <2>6 DEF ArchiveProject, TypeOK
<1>13. CASE DeleteInstallation(q)
  <2>1. [req[q] EXCEPT !.pc = "done"] \in Good
    BY <1>0, <1>13 DEF DeleteInstallation, Good, Calls, Phase, CallOK, Provisioning, AtWork
  <2> QED
    BY <1>0, <1>13, <2>1 DEF DeleteInstallation, Goto, TypeOK
<1>14. CASE Reply(q)
  BY <1>0, <1>14, IdleGood DEF Reply, TypeOK
<1> QED
  BY <1>1, <1>2, <1>3, <1>4, <1>5, <1>6, <1>7, <1>8, <1>9, <1>10,
     <1>11, <1>12, <1>13, <1>14 DEF Api

\* To the other requests a step of q does nothing, or marks them disturbed.
Same(c, d) == d = c \/ d = [c EXCEPT !.met = TRUE]

LEMMA ApiOthers ==
    ASSUME Typed, NEW q \in Request, Api(q), NEW p \in Request, p # q
    PROVE  Same(req[p], req'[p])
<1> USE DEF Typed, Same, Begin, Goto, Throw, bounds, tables, github
<1>1. ASSUME NEW u \in User, NEW i \in Installation, CompleteInstall(q, u, i)
      PROVE  Same(req[p], req'[p])
  BY <1>1 DEF CompleteInstall
<1>2. ASSUME NEW m \in mail, ProvisionWebhook(q, m) \/ ArchiveWebhook(q, m) \/ RemovedWebhook(q, m)
      PROVE  Same(req[p], req'[p])
  BY <1>2 DEF ProvisionWebhook, ArchiveWebhook, RemovedWebhook
<1>3. CASE \/ ListRepos(q) \/ ListFails(q) \/ FindProject(q) \/ CreateProject(q)
           \/ CreateViolates(q) \/ ReviveProject(q) \/ EnqueueScan(q) \/ ScanFails(q)
           \/ ArchiveProject(q) \/ DeleteInstallation(q) \/ Reply(q) \/ Fail(q)
  BY <1>3 DEF ListRepos, ListFails, FindProject, CreateProject, CreateViolates, ReviveProject,
              EnqueueScan, ScanFails, ArchiveProject, DeleteInstallation, Reply, Fail
<1> QED
  BY <1>1, <1>2, <1>3 DEF Api

\* What a marked request keeps.
LEMMA SameFields ==
    ASSUME NEW c \in Good, NEW d, Same(c, d)
    PROVE  /\ d.pc = c.pc /\ d.act = c.act /\ d.inst = c.inst /\ d.user = c.user
           /\ d.todo = c.todo /\ d.at = c.at /\ d.move = c.move
           /\ ~d.met => ~c.met
  BY DEF Same, Good, Calls

\* Where a request goes next, when it may have a row in hand.
LEMMA FoundApi == ASSUME Typed, NEW q \in Request, Api(q) PROVE Found'
<1>1. /\ req' \in [Request -> Good] /\ TypeOK'
      /\ \A r \in Repo : project'[r] # project[r] => project'[r] \in Project
  BY TypedApi
<1>2. SUFFICES ASSUME NEW p \in Request, req'[p].pc \in {"reviving", "scanning"}
               PROVE  project'[req'[p].at] # NoProject
  BY DEF Found
<1>3. \A r \in Repo : project[r] # NoProject => project'[r] # NoProject
  BY <1>1, ConnectAssumption
<1>4. CASE p # q
  <2>1. req'[p].pc = req[p].pc /\ req'[p].at = req[p].at /\ req[p].at \in Repo
    BY <1>1, <1>2, <1>4, ApiOthers, SameFields DEF Typed, Good, CallOK, AtWork
  <2> QED
    BY <2>1, <1>2, <1>3 DEF Typed, Found
<1>5. CASE p = q
  <2> USE <1>5, <1>2 DEF Typed, Good, Calls
  <2>0. req'[q].at \in Repo
    BY <1>1 DEF CallOK, AtWork
  <2>1. CASE FindProject(q)
    <3>1. PICK r \in req[q].todo :
            req' = [req EXCEPT ![q] =
                IF project[r] = NoProject
                THEN [@ EXCEPT !.pc = "creating", !.at = r, !.todo = req[q].todo \ {r}]
                ELSE [@ EXCEPT !.pc = "reviving", !.at = r, !.todo = req[q].todo \ {r},
                               !.move = MustMove(req[q].user, project[r].home)]]
      BY <2>1 DEF FindProject
    <3>2. project[r] # NoProject /\ req'[q].at = r
      BY <3>1
    <3> QED
      BY <2>1, <3>2 DEF FindProject, tables
  <2>2. CASE CreateProject(q)
    <3>1. req'[q].at = req[q].at /\ req[q].pc = "creating"
      BY <2>2 DEF CreateProject, Goto
    <3>3. req[q].at \in Repo
      BY <2>0, <3>1
    <3>4. project'[req[q].at] = [owner |-> req[q].user, home |-> First[req[q].user],
                                 inst |-> req[q].inst, archived |-> FALSE]
      BY <2>2, <3>3 DEF CreateProject, TypeOK
    <3>5. req[q].user \in User /\ req[q].inst \in Installation
      BY <3>1 DEF CallOK, Provisioning, AtWork
    <3>6. project'[req[q].at] \in Project
      BY <3>4, <3>5, ConnectAssumption DEF Project
    <3> QED
      BY <3>1, <3>6, ConnectAssumption
  <2>3. CASE ReviveProject(q)
    <3>1. req'[q].at = req[q].at /\ req[q].pc = "reviving"
      BY <2>3 DEF ReviveProject, Goto
    <3> QED
      BY <3>1, <2>0, <1>3 DEF Found
  <2>4. ASSUME NEW u \in User, NEW i \in Installation, CompleteInstall(q, u, i)
        PROVE  FALSE
    BY <2>4 DEF CompleteInstall, Begin, Idle
  <2>5. ASSUME NEW m \in mail, ProvisionWebhook(q, m) PROVE FALSE
    BY <2>5 DEF ProvisionWebhook, Begin, NextOf, Idle
  <2>6. ASSUME NEW m \in mail, ArchiveWebhook(q, m) PROVE FALSE
    BY <2>6 DEF ArchiveWebhook, Begin, Idle, NextOf
  <2>7. ASSUME NEW m \in mail, RemovedWebhook(q, m) PROVE FALSE
    BY <2>7 DEF RemovedWebhook, Begin, Idle
  <2>8. CASE ListRepos(q) \/ EnqueueScan(q)
    <3>1. CASE ListRepos(q)
      BY <3>1 DEF ListRepos, NextOf
    <3>2. CASE EnqueueScan(q)
      BY <3>2 DEF EnqueueScan, NextOf
    <3> QED
      BY <2>8, <3>1, <3>2
  <2>9. CASE ListFails(q) \/ CreateViolates(q) \/ ScanFails(q) \/ Reply(q) \/ Fail(q)
    <3>1. req'[q] = Idle
      BY <2>9 DEF ListFails, CreateViolates, ScanFails, Reply, Fail, Throw
    <3> QED
      BY <3>1 DEF Idle
  <2>10. CASE DeleteInstallation(q)
    BY <2>10 DEF DeleteInstallation, Goto
  <2>11. CASE ArchiveProject(q)
    <3>1. PICK r \in req[q].todo :
            req' = [req EXCEPT ![q] =
              NextOf([@ EXCEPT !.todo = req[q].todo \ {r}], "archiving",
                     IF req[q].act = "deleted" THEN "unlinking" ELSE "done")]
      BY <2>11 DEF ArchiveProject
    <3> QED
      BY <3>1 DEF NextOf
  <2> QED
    BY <2>1, <2>2, <2>3, <2>4, <2>5, <2>6, <2>7, <2>8, <2>9,
       <2>10, <2>11 DEF Api
<1> QED
  BY <1>4, <1>5

LEMMA TypedNext == Typed /\ [Next]_vars => Typed'
<1> SUFFICES ASSUME Typed, [Next]_vars PROVE Typed'
  OBVIOUS
<1>1. CASE GitHub
  BY <1>1, GitHubChanges, TypedChange
<1>2. ASSUME NEW m \in mail, IgnoreWebhook(m) PROVE Typed'
  BY <1>2 DEF IgnoreWebhook, Typed, TypeOK, Found, tables, bounds
<1>3. ASSUME NEW q \in Request, Api(q) PROVE Typed'
  BY <1>3, TypedApi, FoundApi DEF Typed
<1>4. CASE UNCHANGED vars
  BY <1>4 DEF vars, github, tables, bounds, Typed, TypeOK, Found
<1> QED
  BY <1>1, <1>2, <1>3, <1>4 DEF Next

LEMMA TypedAlways == Spec => []Typed
  BY TypedInit, TypedNext, PTL DEF Spec

\* Type correctness of the tables and of every request in flight.
THEOREM TypeCorrect == Spec => []TypeOK
<1>1. Typed => TypeOK
  BY DEF Typed
<1> QED
  BY <1>1, TypedAlways, PTL

-----------------------------------------------------------------------------
(* Links and owners.  Deletion is final at GitHub, so whoever handles a    *)
(* deletion, or has its webhook in hand, knows the installation is gone;   *)
(* and whoever provisions does so for a user who has held the link.        *)

GoneInv ==
    /\ \A m \in mail : m.act = "deleted" => installed[m.inst] = "deleted"
    /\ \A q \in Request : req[q].act = "deleted" => installed[req[q].inst] = "deleted"

HeldInv ==
    /\ \A i \in Installation : link[i] # NoUser => link[i] \in holders[i]
    /\ \A q \in Request :
          req[q].pc \in Provisioning => req[q].user \in holders[req[q].inst]

\* What is left of a request's record when its step is done.
Kin(c, d) == d.act = c.act /\ d.inst = c.inst /\ d.user = c.user /\ d.met = c.met

LEMMA ListReposFields ==
    ASSUME Typed, NEW q \in Request, ListRepos(q)
    PROVE  /\ Kin(req[q], req'[q])
           /\ req'[q].todo = grant[req[q].inst]
           /\ req'[q].pc = IF req'[q].todo = {} THEN "done" ELSE "finding"
<1> DEFINE c == [req[q] EXCEPT !.todo = grant[req[q].inst]]
<1>1. req'[q] = NextOf(c, "finding", "done")
  BY DEF ListRepos, Typed
<1>2. Kin(req[q], c) /\ c.todo = grant[req[q].inst]
  BY DEF Kin, Typed, Good, Calls
<1> QED
  BY <1>1, <1>2 DEF NextOf, Kin, Typed, Good, Calls

LEMMA FindProjectFields ==
    ASSUME Typed, NEW q \in Request, FindProject(q)
    PROVE  \E r \in req[q].todo :
              /\ Kin(req[q], req'[q])
              /\ req'[q].at = r /\ req'[q].todo = req[q].todo \ {r}
              /\ IF project[r] = NoProject
                 THEN req'[q].pc = "creating"
                 ELSE /\ req'[q].pc = "reviving"
                      /\ req'[q].move = MustMove(req[q].user, project[r].home)
<1>1. PICK r \in req[q].todo :
        req' = [req EXCEPT ![q] =
            IF project[r] = NoProject
            THEN [@ EXCEPT !.pc = "creating", !.at = r, !.todo = req[q].todo \ {r}]
            ELSE [@ EXCEPT !.pc = "reviving", !.at = r, !.todo = req[q].todo \ {r},
                           !.move = MustMove(req[q].user, project[r].home)]]
  BY DEF FindProject
<1> QED
  BY <1>1 DEF Kin, Typed, Good, Calls

LEMMA GotoFields ==
    ASSUME Typed, NEW q \in Request, NEW pc, Goto(q, pc)
    PROVE  /\ Kin(req[q], req'[q])
           /\ req'[q].pc = pc /\ req'[q].at = req[q].at /\ req'[q].todo = req[q].todo
  BY DEF Goto, Kin, Typed, Good, Calls

LEMMA EnqueueScanFields ==
    ASSUME Typed, NEW q \in Request, EnqueueScan(q)
    PROVE  /\ Kin(req[q], req'[q])
           /\ req'[q].todo = req[q].todo
           /\ req'[q].pc = IF req'[q].todo = {} THEN "done" ELSE "finding"
<1> DEFINE c == [req[q] EXCEPT !.at = NoRepo, !.move = FALSE]
<1>1. req'[q] = NextOf(c, "finding", "done")
  BY DEF EnqueueScan, Typed
<1>2. Kin(req[q], c) /\ c.todo = req[q].todo
  BY DEF Kin, Typed, Good, Calls
<1> QED
  BY <1>1, <1>2 DEF NextOf, Kin, Typed, Good, Calls

LEMMA ArchiveProjectFields ==
    ASSUME Typed, NEW q \in Request, ArchiveProject(q)
    PROVE  \E r \in req[q].todo :
              /\ Kin(req[q], req'[q])
              /\ req'[q].todo = req[q].todo \ {r}
              /\ req'[q].pc = IF req'[q].todo # {} THEN "archiving"
                              ELSE IF req[q].act = "deleted" THEN "unlinking" ELSE "done"
              /\ project' = [project EXCEPT ![r] =
                    IF @ = NoProject THEN @ ELSE [@ EXCEPT !.archived = TRUE]]
<1> DEFINE after == IF req[q].act = "deleted" THEN "unlinking" ELSE "done"
           c(r) == [req[q] EXCEPT !.todo = req[q].todo \ {r}]
<1>1. PICK r \in req[q].todo :
        /\ project' = [project EXCEPT ![r] =
              IF @ = NoProject THEN @ ELSE [@ EXCEPT !.archived = TRUE]]
        /\ req' = [req EXCEPT ![q] = NextOf(c(r), "archiving", after)]
  BY DEF ArchiveProject
<1>2. req'[q] = NextOf(c(r), "archiving", after)
  BY <1>1 DEF Typed
<1>3. Kin(req[q], c(r)) /\ c(r).todo = req[q].todo \ {r}
  BY DEF Kin, Typed, Good, Calls
<1>4. /\ Kin(req[q], req'[q]) /\ req'[q].todo = req[q].todo \ {r}
      /\ req'[q].pc = IF req'[q].todo # {} THEN "archiving" ELSE after
  BY <1>2, <1>3 DEF NextOf, Kin, Typed, Good, Calls
<1> QED
  BY <1>1, <1>4

\* The records requests start with.
LEMMA CompleteInstallFields ==
    ASSUME Typed, NEW q \in Request, NEW u, NEW i, CompleteInstall(q, u, i)
    PROVE  /\ req'[q].pc = "listing" /\ req'[q].act = "complete"
           /\ req'[q].inst = i /\ req'[q].user = u /\ req'[q].met = (Busy # {})
  BY DEF CompleteInstall, Begin, Idle

LEMMA ProvisionWebhookFields ==
    ASSUME Typed, NEW q \in Request, NEW m, ProvisionWebhook(q, m)
    PROVE  \E u \in OwnerOf(m.inst) :
              /\ req'[q].pc \in {"finding", "done"} /\ req'[q].act = m.act
              /\ req'[q].inst = m.inst /\ req'[q].user = u
              /\ req'[q].met = (Busy # {})
<1> DEFINE c(u) == NextOf([Idle EXCEPT !.act = m.act, !.inst = m.inst, !.user = u,
                                       !.todo = m.repos], "finding", "done")
<1>1. PICK u \in OwnerOf(m.inst) : Begin(q, c(u))
  BY DEF ProvisionWebhook
<1>2. req'[q] = [c(u) EXCEPT !.met = Busy # {}]
  BY <1>1 DEF Begin, Typed, TypeOK
<1> QED
  BY <1>1, <1>2 DEF NextOf, Idle

LEMMA ArchiveWebhookFields ==
    ASSUME Typed, NEW q \in Request, NEW m, ArchiveWebhook(q, m)
    PROVE  /\ req'[q].act = m.act /\ req'[q].inst = m.inst
           /\ req'[q].met = (Busy # {})
           /\ req'[q].todo = {r \in Repo : project[r] # NoProject /\ project[r].inst = m.inst}
           /\ req'[q].pc = IF req'[q].todo # {} THEN "archiving"
                           ELSE IF m.act = "deleted" THEN "unlinking" ELSE "done"
<1> DEFINE mine == {r \in Repo : project[r] # NoProject /\ project[r].inst = m.inst}
           after == IF m.act = "deleted" THEN "unlinking" ELSE "done"
           c == NextOf([Idle EXCEPT !.act = m.act, !.inst = m.inst, !.todo = mine],
                       "archiving", after)
<1>1. req'[q] = [c EXCEPT !.met = Busy # {}]
  BY DEF ArchiveWebhook, Begin
<1> QED
  BY <1>1 DEF NextOf, Idle

\* What a request goes on with: its own errand, a webhook's, or none.
LEMMA ApiErrand ==
    ASSUME Typed, NEW q \in Request, Api(q)
    PROVE  \/ req'[q].act = req[q].act /\ req'[q].inst = req[q].inst
           \/ req'[q].act = "none" /\ req'[q].pc = "idle"
           \/ req'[q].act = "complete"
           \/ \E m \in mail : req'[q].act = m.act /\ req'[q].inst = m.inst
<1> USE DEF Typed, Good, Calls
<1>1. ASSUME NEW u \in User, NEW i \in Installation, CompleteInstall(q, u, i)
      PROVE  req'[q].act = "complete"
  BY <1>1, CompleteInstallFields
<1>2. ASSUME NEW m \in mail, ProvisionWebhook(q, m) \/ ArchiveWebhook(q, m)
      PROVE  req'[q].act = m.act /\ req'[q].inst = m.inst
  BY <1>2, ProvisionWebhookFields, ArchiveWebhookFields
<1>3. ASSUME NEW m \in mail, RemovedWebhook(q, m)
      PROVE  req'[q].act = m.act /\ req'[q].inst = m.inst
  BY <1>3 DEF RemovedWebhook, Begin, Idle
<1>4. CASE ListRepos(q) \/ EnqueueScan(q)
  BY <1>4, ListReposFields, EnqueueScanFields DEF Kin
<1>5. CASE FindProject(q)
  BY <1>5, FindProjectFields DEF Kin
<1>6. CASE ArchiveProject(q)
  BY <1>6, ArchiveProjectFields DEF Kin
<1>7. CASE CreateProject(q) \/ ReviveProject(q) \/ DeleteInstallation(q)
  BY <1>7, GotoFields DEF CreateProject, ReviveProject, DeleteInstallation, Kin
<1>8. CASE ListFails(q) \/ CreateViolates(q) \/ ScanFails(q) \/ Reply(q) \/ Fail(q)
  BY <1>8 DEF ListFails, CreateViolates, ScanFails, Reply, Fail, Throw, Idle
<1> QED
  BY <1>1, <1>2, <1>3, <1>4, <1>5, <1>6, <1>7, <1>8 DEF Api

\* The installations are GitHub's, and a request only takes webhooks away.
LEMMA ApiKeeps ==
    ASSUME NEW q, Api(q)
    PROVE  UNCHANGED <<installed, grant, events>> /\ mail' \subseteq mail
<1> USE DEF github
<1>1. ASSUME NEW m, ProvisionWebhook(q, m) \/ ArchiveWebhook(q, m) \/ RemovedWebhook(q, m)
      PROVE  UNCHANGED <<installed, grant, events>> /\ mail' \subseteq mail
  BY <1>1 DEF ProvisionWebhook, ArchiveWebhook, RemovedWebhook
<1>2. ASSUME NEW u, NEW i, CompleteInstall(q, u, i)
      PROVE  UNCHANGED <<installed, grant, events>> /\ mail' \subseteq mail
  BY <1>2 DEF CompleteInstall
<1>3. CASE \/ ListRepos(q) \/ ListFails(q) \/ FindProject(q) \/ CreateProject(q)
           \/ CreateViolates(q) \/ ReviveProject(q) \/ EnqueueScan(q) \/ ScanFails(q)
           \/ ArchiveProject(q) \/ DeleteInstallation(q) \/ Reply(q) \/ Fail(q)
  BY <1>3 DEF ListRepos, ListFails, FindProject, CreateProject, CreateViolates, ReviveProject,
              EnqueueScan, ScanFails, ArchiveProject, DeleteInstallation, Reply, Fail
<1> QED
  BY <1>1, <1>2, <1>3 DEF Api

LEMMA GoneNext == Typed /\ GoneInv /\ [Next]_vars => GoneInv'
<1> SUFFICES ASSUME Typed, GoneInv, [Next]_vars PROVE GoneInv'
  OBVIOUS
<1>1. CASE GitHub
  <2>1. PICK i \in Installation, s \in {"active", "suspended", "deleted"},
             R \in SUBSET Repo, act \in Acts, W \in SUBSET Repo :
             /\ Change(i, s, R, act, W)
             /\ installed[i] # "deleted"
             /\ act = "deleted" => s = "deleted"
    BY <1>1, GitHubChanges
  <2>2. \A j \in Installation :
          installed'[j] = IF j = i THEN s ELSE installed[j]
    BY <2>1 DEF Change, Typed, TypeOK
  <2>3. \A j \in Installation : installed[j] = "deleted" => installed'[j] = "deleted"
    BY <2>1, <2>2
  <2>4. ASSUME NEW m \in mail', m.act = "deleted" PROVE installed'[m.inst] = "deleted"
    <3>1. CASE m \in mail
      BY <3>1, <2>3, <2>4 DEF GoneInv, Typed, TypeOK, Webhook
    <3>2. CASE m \notin mail
      BY <3>2, <2>1, <2>2, <2>4 DEF Change
    <3> QED
      BY <3>1, <3>2
  <2>5. ASSUME NEW q \in Request, req'[q].act = "deleted"
        PROVE  installed'[req'[q].inst] = "deleted"
    <3>1. req'[q].act = req[q].act /\ req'[q].inst = req[q].inst /\ req'[q].pc = req[q].pc
      BY <2>1 DEF Change, Typed, Good, Calls
    <3>2. req[q].inst \in Installation
      BY <2>5, <3>1 DEF Typed, Good, CallOK
    <3> QED
      BY <2>3, <2>5, <3>1, <3>2 DEF GoneInv
  <2> QED
    BY <2>4, <2>5 DEF GoneInv
<1>2. ASSUME NEW m \in mail, IgnoreWebhook(m) PROVE GoneInv'
  BY <1>2 DEF IgnoreWebhook, GoneInv
<1>3. ASSUME NEW q \in Request, Api(q) PROVE GoneInv'
  <2>1. UNCHANGED installed /\ mail' \subseteq mail
    BY <1>3, ApiKeeps
  <2>2. ASSUME NEW p \in Request, req'[p].act = "deleted"
        PROVE  installed[req'[p].inst] = "deleted"
    <3>1. CASE p = q
      BY <1>3, <2>2, <3>1, ApiErrand DEF GoneInv
    <3>2. CASE p # q
      BY <1>3, <2>2, <3>2, ApiOthers, SameFields DEF GoneInv, Typed
    <3> QED
      BY <3>1, <3>2
  <2> QED
    BY <2>1, <2>2 DEF GoneInv
<1>4. CASE UNCHANGED vars
  BY <1>4 DEF vars, github, GoneInv
<1> QED
  BY <1>1, <1>2, <1>3, <1>4 DEF Next

LEMMA GoneAlways == Spec => [](Typed /\ GoneInv)
<1>1. Init => GoneInv
  BY DEF Init, GoneInv, Idle
<1> QED
  BY <1>1, TypedInit, TypedNext, GoneNext, PTL DEF Spec

\* No step of any request moves a held link to another user, nor drops it while
\* its installation exists.
THEOREM LinksAreHeld == Spec => LinkIsHeld
<1> DEFINE Holds(i) == link[i] # NoUser /\ link'[i] # link[i]
                          => link'[i] = NoUser /\ installed[i] = "deleted"
<1>1. ASSUME Typed, GoneInv, [Next]_vars, NEW i \in Installation
      PROVE  Holds(i)
  <2>1. ASSUME NEW q \in Request, Api(q) PROVE Holds(i)
    <3>1. ASSUME NEW u \in User, NEW j \in Installation, CompleteInstall(q, u, j)
          PROVE  Holds(i)
      BY <1>1, <3>1 DEF CompleteInstall, MayLink, Typed, TypeOK
    <3>2. CASE DeleteInstallation(q)
      <4>0. CallOK(req[q]) /\ req[q].pc = "unlinking"
        BY <1>1, <3>2 DEF DeleteInstallation, Typed, Good
      <4>1. req[q].act = "deleted" /\ req[q].inst \in Installation
        BY <4>0 DEF CallOK
      <4>2. installed[req[q].inst] = "deleted"
        BY <1>1, <4>1 DEF GoneInv
      <4>3. link' = [link EXCEPT ![req[q].inst] = NoUser]
        BY <3>2 DEF DeleteInstallation
      <4> QED
        BY <1>1, <4>1, <4>2, <4>3 DEF Typed, TypeOK
    <3>3. ASSUME NEW m \in mail,
                 ProvisionWebhook(q, m) \/ ArchiveWebhook(q, m) \/ RemovedWebhook(q, m)
          PROVE  UNCHANGED link
      BY <3>3 DEF ProvisionWebhook, ArchiveWebhook, RemovedWebhook, tables
    <3>4. CASE \/ ListRepos(q) \/ ListFails(q) \/ FindProject(q) \/ CreateProject(q)
               \/ CreateViolates(q) \/ ReviveProject(q) \/ EnqueueScan(q) \/ ScanFails(q)
               \/ ArchiveProject(q) \/ Reply(q) \/ Fail(q)
      BY <3>4 DEF ListRepos, ListFails, FindProject, CreateProject, CreateViolates,
                  ReviveProject, EnqueueScan, ScanFails, ArchiveProject, Reply, Fail, tables
    <3> QED
      BY <2>1, <3>1, <3>2, <3>3, <3>4 DEF Api
  <2>2. CASE GitHub
    <3>1. \A j, t, R, act, W : Change(j, t, R, act, W) => UNCHANGED link
      BY DEF Change, tables
    <3> QED
      BY <2>2, <3>1, <1>1, GitHubChanges
  <2>3. ASSUME NEW m \in mail, IgnoreWebhook(m) PROVE UNCHANGED link
    BY <2>3 DEF IgnoreWebhook, tables
  <2>4. CASE UNCHANGED vars
    BY <2>4 DEF vars, tables
  <2> QED
    BY <1>1, <2>1, <2>2, <2>3, <2>4 DEF Next
<1>2. Typed /\ GoneInv /\ [Next]_vars =>
         [\A i \in Installation : link[i] # NoUser /\ link'[i] # link[i]
             => link'[i] = NoUser /\ installed[i] = "deleted"]_vars
  BY <1>1
<1> QED
  BY <1>2, GoneAlways, PTL DEF Spec, LinkIsHeld

\* A request provisions for the user and the installation it started with.
LEMMA ApiProvisions ==
    ASSUME Typed, NEW q \in Request, Api(q), req'[q].pc \in Provisioning
    PROVE  \/ \E u \in User, i \in Installation :
                 CompleteInstall(q, u, i) /\ req'[q].user = u /\ req'[q].inst = i
           \/ req'[q].user = link[req'[q].inst] /\ req'[q].user # NoUser
           \/ /\ req[q].pc \in Provisioning
              /\ req'[q].user = req[q].user /\ req'[q].inst = req[q].inst
<1> USE DEF Provisioning, AtWork
<1>1. ASSUME NEW u \in User, NEW i \in Installation, CompleteInstall(q, u, i)
      PROVE  req'[q].user = u /\ req'[q].inst = i
  BY <1>1, CompleteInstallFields
<1>2. ASSUME NEW m \in mail, ProvisionWebhook(q, m)
      PROVE  req'[q].user = link[req'[q].inst] /\ req'[q].user # NoUser
  BY <1>2, ProvisionWebhookFields DEF OwnerOf
<1>3. ASSUME NEW m \in mail, ArchiveWebhook(q, m) PROVE FALSE
  BY <1>3, ArchiveWebhookFields
<1>4. ASSUME NEW m \in mail, RemovedWebhook(q, m) PROVE FALSE
  BY <1>4 DEF RemovedWebhook, Begin, Idle, Typed
<1>5. CASE ListRepos(q) \/ EnqueueScan(q)
  BY <1>5, ListReposFields, EnqueueScanFields DEF Kin, ListRepos, EnqueueScan
<1>6. CASE FindProject(q)
  BY <1>6, FindProjectFields DEF Kin, FindProject
<1>7. CASE ArchiveProject(q)
  BY <1>7, ArchiveProjectFields
<1>8. CASE CreateProject(q) \/ ReviveProject(q) \/ DeleteInstallation(q)
  BY <1>8, GotoFields DEF CreateProject, ReviveProject, DeleteInstallation, Kin
<1>9. CASE ListFails(q) \/ CreateViolates(q) \/ ScanFails(q) \/ Reply(q) \/ Fail(q)
  BY <1>9 DEF ListFails, CreateViolates, ScanFails, Reply, Fail, Throw, Idle, Typed
<1> QED
  BY <1>1, <1>2, <1>3, <1>4, <1>5, <1>6, <1>7, <1>8, <1>9 DEF Api

\* What a step of a request does to links and their history.
LEMMA ApiLinks ==
    ASSUME Typed, NEW q \in Request, Api(q)
    PROVE  \/ \E u \in User, i \in Installation :
                 /\ CompleteInstall(q, u, i)
                 /\ link' = [link EXCEPT ![i] = u]
                 /\ holders' = [holders EXCEPT ![i] = @ \cup {u}]
                 /\ UNCHANGED project
           \/ /\ UNCHANGED holders
              /\ \A i \in Installation : link'[i] \in {link[i], NoUser}
<1>1. ASSUME NEW u \in User, NEW i \in Installation, CompleteInstall(q, u, i)
      PROVE  /\ link' = [link EXCEPT ![i] = u]
             /\ holders' = [holders EXCEPT ![i] = @ \cup {u}]
             /\ UNCHANGED project
  BY <1>1 DEF CompleteInstall
<1>2. CASE DeleteInstallation(q)
  BY <1>2 DEF DeleteInstallation, Typed, TypeOK
<1>3. ASSUME NEW m \in mail,
             ProvisionWebhook(q, m) \/ ArchiveWebhook(q, m) \/ RemovedWebhook(q, m)
      PROVE  UNCHANGED <<link, holders>>
  BY <1>3 DEF ProvisionWebhook, ArchiveWebhook, RemovedWebhook, tables
<1>4. CASE \/ ListRepos(q) \/ ListFails(q) \/ FindProject(q) \/ CreateProject(q)
           \/ CreateViolates(q) \/ ReviveProject(q) \/ EnqueueScan(q) \/ ScanFails(q)
           \/ ArchiveProject(q) \/ Reply(q) \/ Fail(q)
  BY <1>4 DEF ListRepos, ListFails, FindProject, CreateProject, CreateViolates, ReviveProject,
              EnqueueScan, ScanFails, ArchiveProject, Reply, Fail, tables
<1> QED
  BY <1>1, <1>2, <1>3, <1>4 DEF Api

LEMMA HeldApi ==
    ASSUME Typed, HeldInv, NEW q \in Request, Api(q)
    PROVE  /\ HeldInv'
           /\ \A i \in Installation : holders[i] \subseteq holders'[i]
<1> DEFINE Grows == \A i \in Installation : holders[i] \subseteq holders'[i]
           Held  == \A i \in Installation : link'[i] # NoUser => link'[i] \in holders'[i]
<1>a. /\ link \in [Installation -> User \cup {NoUser}]
      /\ holders \in [Installation -> SUBSET User]
      /\ \A i \in Installation : link[i] # NoUser => link[i] \in holders[i]
  BY DEF Typed, TypeOK, HeldInv
<1>b. ASSUME NEW u \in User, NEW i \in Installation,
             link' = [link EXCEPT ![i] = u],
             holders' = [holders EXCEPT ![i] = @ \cup {u}]
      PROVE  Grows /\ Held
  BY <1>a, <1>b
<1>c. ASSUME UNCHANGED holders, \A i \in Installation : link'[i] \in {link[i], NoUser}
      PROVE  Grows /\ Held
  BY <1>a, <1>c
<1>1. Grows /\ Held
  BY <1>b, <1>c, ApiLinks
<1>2. Held
  BY <1>1
<1> USE DEF Typed, TypeOK
<1>3. ASSUME NEW p \in Request, req'[p].pc \in Provisioning
      PROVE  req'[p].user \in holders'[req'[p].inst]
  <2>0. req' \in [Request -> Good]
    BY TypedApi
  <2>1. req'[p].inst \in Installation
    BY <1>3, <2>0 DEF Good, CallOK, Provisioning, AtWork
  <2>2. CASE p # q
    BY <1>1, <1>3, <2>1, <2>2, ApiOthers, SameFields DEF HeldInv
  <2>3. CASE p = q
    <3>1. CASE \E u \in User, i \in Installation :
                 CompleteInstall(q, u, i) /\ req'[q].user = u /\ req'[q].inst = i
      BY <2>3, <3>1 DEF CompleteInstall
    <3>2. CASE req'[q].user = link[req'[q].inst] /\ req'[q].user # NoUser
      BY <1>1, <2>1, <2>3, <3>2 DEF HeldInv
    <3>3. CASE /\ req[q].pc \in Provisioning
               /\ req'[q].user = req[q].user /\ req'[q].inst = req[q].inst
      BY <1>1, <2>1, <2>3, <3>3 DEF HeldInv
    <3> QED
      BY <1>3, <2>3, <3>1, <3>2, <3>3, ApiProvisions
  <2> QED
    BY <2>2, <2>3
<1> QED
  BY <1>1, <1>2, <1>3 DEF HeldInv

\* A project's owner and installation come from the request that wrote the row.
LEMMA ApiOwners ==
    ASSUME Typed, NEW q \in Request, Api(q), NEW r \in Repo, project'[r] # NoProject
    PROVE  \/ /\ project[r] # NoProject
              /\ project'[r].owner = project[r].owner
              /\ project'[r].inst \in {project[r].inst, req[q].inst}
              /\ project'[r].inst # project[r].inst => req[q].pc \in Provisioning
           \/ /\ req[q].pc \in Provisioning
              /\ project'[r].owner = req[q].user /\ project'[r].inst = req[q].inst
<1> USE DEF Typed, TypeOK
<1>1. CASE CreateProject(q)
  BY <1>1 DEF CreateProject, Provisioning, AtWork
<1>2. CASE ReviveProject(q)
  <2>1. req[q].at \in Repo /\ project[req[q].at] # NoProject
    BY <1>2 DEF ReviveProject, Found, Good, CallOK, AtWork
  <2>2. project[req[q].at] \in Project
    BY <2>1
  <2> QED
    BY <1>2, <2>1, <2>2 DEF ReviveProject, Project, Provisioning, AtWork
<1>3. CASE ArchiveProject(q)
  <2>1. PICK x \in req[q].todo :
          project' = [project EXCEPT ![x] =
             IF @ = NoProject THEN @ ELSE [@ EXCEPT !.archived = TRUE]]
    BY <1>3, ArchiveProjectFields
  <2>2. project[r] \in Project \cup {NoProject}
    OBVIOUS
  <2>3. project[r] # NoProject
    BY <2>1
  <2> QED
    BY <2>1, <2>2, <2>3 DEF Project
<1>4. ASSUME UNCHANGED project
      PROVE  /\ project[r] # NoProject
             /\ project'[r].owner = project[r].owner
             /\ project'[r].inst = project[r].inst
  BY <1>4
<1>5. ASSUME NEW m \in mail,
             ProvisionWebhook(q, m) \/ ArchiveWebhook(q, m) \/ RemovedWebhook(q, m)
      PROVE  UNCHANGED project
  BY <1>5 DEF ProvisionWebhook, ArchiveWebhook, RemovedWebhook, tables
<1>6. ASSUME NEW u \in User, NEW i \in Installation, CompleteInstall(q, u, i)
      PROVE  UNCHANGED project
  BY <1>6 DEF CompleteInstall
<1>7. CASE \/ ListRepos(q) \/ ListFails(q) \/ FindProject(q) \/ CreateViolates(q)
           \/ EnqueueScan(q) \/ ScanFails(q) \/ DeleteInstallation(q) \/ Reply(q) \/ Fail(q)
  BY <1>7, <1>4 DEF ListRepos, ListFails, FindProject, CreateViolates, EnqueueScan, ScanFails,
                    DeleteInstallation, Reply, Fail, tables
<1> QED
  BY <1>1, <1>2, <1>3, <1>4, <1>5, <1>6, <1>7 DEF Api

OwnedInv == HeldInv /\ NoFabricatedOwner

LEMMA OwnedNext == Typed /\ OwnedInv /\ [Next]_vars => OwnedInv'
<1> SUFFICES ASSUME Typed, OwnedInv, [Next]_vars PROVE OwnedInv'
  OBVIOUS
<1>1. CASE GitHub
  <2>1. UNCHANGED tables
    <3>1. \A i, t, R, act, W : Change(i, t, R, act, W) => UNCHANGED tables
      BY DEF Change
    <3> QED
      BY <1>1, <3>1, GitHubChanges
  <2>2. \A q \in Request :
          /\ req'[q].pc = req[q].pc /\ req'[q].user = req[q].user
          /\ req'[q].inst = req[q].inst
    <3>1. \A i, t, R, act, W : Change(i, t, R, act, W) =>
             req' = [q \in Request |->
                       IF q \in Busy THEN [req[q] EXCEPT !.met = TRUE] ELSE req[q]]
      BY DEF Change
    <3>2. req' = [q \in Request |->
                    IF q \in Busy THEN [req[q] EXCEPT !.met = TRUE] ELSE req[q]]
      BY <1>1, <3>1, GitHubChanges
    <3> QED
      BY <3>2 DEF Typed, Good, Calls
  <2> QED
    BY <2>1, <2>2 DEF OwnedInv, HeldInv, NoFabricatedOwner, tables
<1>2. ASSUME NEW m \in mail, IgnoreWebhook(m) PROVE OwnedInv'
  BY <1>2 DEF IgnoreWebhook, OwnedInv, HeldInv, NoFabricatedOwner, tables
<1>3. ASSUME NEW q \in Request, Api(q) PROVE OwnedInv'
  <2>1. HeldInv' /\ \A i \in Installation : holders[i] \subseteq holders'[i]
    BY <1>3, HeldApi DEF OwnedInv
  <2>2. ASSUME NEW r \in Repo, project'[r] # NoProject
        PROVE  /\ holders'[project'[r].inst] # {}
               /\ \E i \in Installation : project'[r].owner \in holders'[i]
    <3>1. req[q].pc \in Provisioning =>
             req[q].inst \in Installation /\ req[q].user \in holders[req[q].inst]
      BY DEF OwnedInv, HeldInv, Typed, Good, CallOK, Provisioning, AtWork
    <3>2. project[r] # NoProject =>
             /\ project[r].inst \in Installation
             /\ holders[project[r].inst] # {}
             /\ \E i \in Installation : project[r].owner \in holders[i]
      BY DEF OwnedInv, NoFabricatedOwner, Typed, TypeOK, Project
    <3> QED
      BY <1>3, <2>1, <2>2, <3>1, <3>2, ApiOwners
  <2> QED
    BY <2>1, <2>2 DEF OwnedInv, NoFabricatedOwner
<1>4. CASE UNCHANGED vars
  BY <1>4 DEF vars, tables, OwnedInv, HeldInv, NoFabricatedOwner
<1> QED
  BY <1>1, <1>2, <1>3, <1>4 DEF Next

\* No project is given to a user who never linked an installation, nor to an
\* installation nobody linked, whatever redirects and webhooks overlap.
THEOREM OwnersAreReal == Spec => []NoFabricatedOwner
<1>1. Init => OwnedInv
  BY DEF Init, OwnedInv, HeldInv, NoFabricatedOwner, Idle, Provisioning, AtWork
<1>2. OwnedInv => NoFabricatedOwner
  BY DEF OwnedInv
<1> QED
  BY <1>1, <1>2, TypedInit, TypedNext, OwnedNext, PTL DEF Spec

-----------------------------------------------------------------------------
(* The undisturbed request.  While a request works and nothing else has    *)
(* happened, no other request is at work; so everything it has done so far *)
(* is still as it left it, and what it has not done is on its list.        *)

Alone(q) == req[q].pc # "idle" /\ ~req[q].met

AloneInv ==
    \A q, p \in Request : Alone(q) /\ p # q => req[p].pc = "idle"

\* A redirect: the grants are connected, but for the one in hand and the rest.
Connects(c) ==
    /\ c.pc # "listing" =>
          \A r \in grant[c.inst] :
             \/ r \in c.todo
             \/ c.pc \in AtWork /\ r = c.at
             \/ Connected(r, c.inst, c.user)
    /\ c.pc = "reviving" => c.move \/ project[c.at].home \in Member[c.user]
    /\ c.pc = "scanning" => /\ project[c.at].inst = c.inst
                            /\ ~project[c.at].archived
                            /\ project[c.at].home \in Member[c.user]
    /\ c.pc = "done" => c.todo = {}

\* A deletion: the installation's projects are archived, but for the rest.
Archives(c) ==
    /\ \A r \in Repo :
          project[r] # NoProject /\ project[r].inst = c.inst =>
             r \in c.todo \/ project[r].archived
    /\ c.pc \in {"unlinking", "done"} => c.todo = {}
    /\ c.pc = "done" => link[c.inst] = NoUser

Progress(q) ==
    Alone(q) => /\ req[q].act = "complete" => Connects(req[q])
                /\ req[q].act = "deleted"  => Archives(req[q])

ReconcileInv == AloneInv /\ \A q \in Request : Progress(q)

LEMMA ReconcileImplies == Typed /\ ReconcileInv => AloneReconciles
<1> SUFFICES ASSUME Typed, ReconcileInv, NEW q \in Request,
                    req[q].pc = "done", ~req[q].met
             PROVE  /\ req[q].act = "complete" =>
                         \A r \in grant[req[q].inst] : Connected(r, req[q].inst, req[q].user)
                    /\ req[q].act = "deleted" =>
                         /\ link[req[q].inst] = NoUser
                         /\ \A r \in Repo : /\ project[r] # NoProject
                                            /\ project[r].inst = req[q].inst
                                            => project[r].archived
  BY DEF AloneReconciles
<1>1. Progress(q) /\ Alone(q)
  BY DEF ReconcileInv, Alone
<1> QED
  BY <1>1 DEF Progress, Connects, Archives, AtWork

\* What is left of q's being alone after its own step.
LEMMA ApiMet ==
    ASSUME Typed, NEW q \in Request, Api(q), req'[q].pc # "idle", ~req'[q].met
    PROVE  \/ req[q].pc # "idle" /\ ~req[q].met
           \/ req[q].pc = "idle" /\ Busy = {}
<1>1. ASSUME NEW u \in User, NEW i \in Installation, CompleteInstall(q, u, i)
      PROVE  req[q].pc = "idle" /\ Busy = {}
  BY <1>1, CompleteInstallFields DEF CompleteInstall
<1>2. ASSUME NEW m \in mail, ProvisionWebhook(q, m)
      PROVE  req[q].pc = "idle" /\ Busy = {}
  BY <1>2, ProvisionWebhookFields DEF ProvisionWebhook
<1>3. ASSUME NEW m \in mail, ArchiveWebhook(q, m)
      PROVE  req[q].pc = "idle" /\ Busy = {}
  BY <1>3, ArchiveWebhookFields DEF ArchiveWebhook
<1>4. ASSUME NEW m \in mail, RemovedWebhook(q, m)
      PROVE  req[q].pc = "idle" /\ Busy = {}
  BY <1>4 DEF RemovedWebhook, Begin, Idle
<1>5. CASE ListRepos(q) \/ EnqueueScan(q)
  BY <1>5, ListReposFields, EnqueueScanFields DEF Kin, ListRepos, EnqueueScan
<1>6. CASE FindProject(q)
  BY <1>6, FindProjectFields DEF Kin, FindProject
<1>7. CASE ArchiveProject(q)
  BY <1>7, ArchiveProjectFields DEF Kin, ArchiveProject
<1>8. CASE CreateProject(q) \/ ReviveProject(q) \/ DeleteInstallation(q)
  BY <1>8, GotoFields DEF CreateProject, ReviveProject, DeleteInstallation, Kin
<1>9. CASE ListFails(q) \/ CreateViolates(q) \/ ScanFails(q) \/ Reply(q) \/ Fail(q)
  BY <1>9 DEF ListFails, CreateViolates, ScanFails, Reply, Fail, Throw, Idle, Typed
<1> QED
  BY <1>1, <1>2, <1>3, <1>4, <1>5, <1>6, <1>7, <1>8, <1>9 DEF Api

\* A request that begins marks those at work.
LEMMA ApiBegins ==
    ASSUME Typed, NEW q \in Request, Api(q), req[q].pc = "idle",
           NEW p \in Request, p # q, req[p].pc # "idle"
    PROVE  req'[p].met
<1> USE DEF Typed, Good, Calls
<1>1. ASSUME NEW c, Begin(q, c) PROVE req'[p].met
  BY <1>1 DEF Begin, Busy
<1>2. ASSUME NEW u \in User, NEW i \in Installation, CompleteInstall(q, u, i)
      PROVE  req'[p].met
  BY <1>1, <1>2 DEF CompleteInstall
<1>3. ASSUME NEW m \in mail,
             ProvisionWebhook(q, m) \/ ArchiveWebhook(q, m) \/ RemovedWebhook(q, m)
      PROVE  req'[p].met
  BY <1>1, <1>3 DEF ProvisionWebhook, ArchiveWebhook, RemovedWebhook
<1>4. CASE \/ ListRepos(q) \/ ListFails(q) \/ FindProject(q) \/ CreateProject(q)
           \/ CreateViolates(q) \/ ReviveProject(q) \/ EnqueueScan(q) \/ ScanFails(q)
           \/ ArchiveProject(q) \/ DeleteInstallation(q) \/ Reply(q) \/ Fail(q)
  BY <1>4 DEF ListRepos, ListFails, FindProject, CreateProject, CreateViolates, ReviveProject,
              EnqueueScan, ScanFails, ArchiveProject, DeleteInstallation, Reply, Fail
<1> QED
  BY <1>2, <1>3, <1>4 DEF Api

LEMMA AloneApi ==
    ASSUME Typed, AloneInv, NEW q \in Request, Api(q)
    PROVE  AloneInv' /\ \A p \in Request : p # q => ~Alone(p)'
<1>1. ASSUME NEW p \in Request, p # q PROVE ~Alone(p)'
  <2>1. req'[p].pc = req[p].pc /\ (~req'[p].met => ~req[p].met)
    BY <1>1, ApiOthers, SameFields DEF Typed
  <2>2. SUFFICES ASSUME Alone(p)' PROVE FALSE
    OBVIOUS
  <2>3. Alone(p)
    BY <2>1, <2>2 DEF Alone
  <2>4. req[q].pc = "idle"
    BY <1>1, <2>3 DEF AloneInv
  <2> QED
    BY <1>1, <2>2, <2>3, <2>4, ApiBegins DEF Alone
<1>2. ASSUME NEW p \in Request, p # q, Alone(q)' PROVE req'[p].pc = "idle"
  <2>1. req'[p].pc = req[p].pc
    BY <1>2, ApiOthers, SameFields DEF Typed
  <2>2. Alone(q) \/ Busy = {}
    BY <1>2, ApiMet DEF Alone
  <2> QED
    BY <1>2, <2>1, <2>2 DEF AloneInv, Busy
<1> QED
  BY <1>1, <1>2 DEF AloneInv

\* An undisturbed request that has begun was undisturbed before the step.
LEMMA ApiContinues ==
    ASSUME Typed, NEW q \in Request, Api(q), Alone(q)', req[q].pc # "idle"
    PROVE  Alone(q)
  BY ApiMet DEF Alone

\* Connected does not depend on other rows, nor on more scans.
LEMMA ConnectedKept ==
    ASSUME NEW r, NEW i, NEW u, Connected(r, i, u), project'[r] = project[r],
           scanned \subseteq scanned'
    PROVE  Connected(r, i, u)'
  BY DEF Connected

\* The repository in hand is connected step by step; the others do not change.
LEMMA ConnectsApi ==
    ASSUME Typed, NEW q \in Request, Api(q), Alone(q)', req'[q].act = "complete",
           Alone(q) /\ req[q].act = "complete" => Connects(req[q])
    PROVE  Connects(req[q])'
<1>0. /\ req[q] \in Good /\ CallOK(req[q]) /\ TypeOK /\ Found
      /\ grant' = grant /\ req'[q].pc # "idle"
  BY ApiKeeps DEF Typed, Good, Alone
<1>1. ASSUME NEW u \in User, NEW i \in Installation, CompleteInstall(q, u, i)
      PROVE  Connects(req[q])'
  BY <1>1, CompleteInstallFields DEF Connects
<1>u. PICK i, u : i = req[q].inst /\ u = req[q].user
  OBVIOUS
<1>2. ASSUME NEW m \in mail,
             ProvisionWebhook(q, m) \/ ArchiveWebhook(q, m) \/ RemovedWebhook(q, m)
      PROVE  FALSE
  <2>1. req'[q].act = m.act
    <3>1. CASE RemovedWebhook(q, m)
      BY <3>1 DEF RemovedWebhook, Begin, Idle
    <3> QED
      BY <1>2, <3>1, ProvisionWebhookFields, ArchiveWebhookFields
  <2>2. m.act \in Acts
    BY <1>0 DEF TypeOK, Webhook
  <2> QED
    BY <2>1, <2>2 DEF Acts
<1>3. ASSUME Kin(req[q], req'[q]), req[q].pc # "idle"
      PROVE  /\ Connects(req[q]) /\ req[q].act = "complete"
             /\ req[q].pc \in Provisioning \cup {"done"}
             /\ req[q].inst \in Installation /\ req[q].user \in User
             /\ req'[q].inst = req[q].inst /\ req'[q].user = req[q].user
  BY <1>0, <1>3, ApiContinues DEF Kin, CallOK
<1>4. CASE ListRepos(q)
  <2>1. /\ Kin(req[q], req'[q]) /\ req[q].pc # "idle"
        /\ req'[q].todo = grant[req[q].inst]
        /\ req'[q].pc = IF req'[q].todo = {} THEN "done" ELSE "finding"
    BY <1>4, ListReposFields DEF ListRepos
  <2> QED
    BY <1>0, <1>3, <2>1 DEF Connects, AtWork
<1>5. CASE FindProject(q)
  <2>1. PICK r0 \in req[q].todo :
          /\ Kin(req[q], req'[q])
          /\ req'[q].at = r0 /\ req'[q].todo = req[q].todo \ {r0}
          /\ IF project[r0] = NoProject
             THEN req'[q].pc = "creating"
             ELSE /\ req'[q].pc = "reviving"
                  /\ req'[q].move = MustMove(req[q].user, project[r0].home)
    BY <1>5, FindProjectFields
  <2>2. req[q].pc = "finding" /\ UNCHANGED <<project, scanned>>
    BY <1>5 DEF FindProject, tables
  <2>3. ASSUME NEW r \in grant[req[q].inst]
        PROVE  r \in req'[q].todo \/ r = req'[q].at \/ Connected(r, i, u)'
    <3>1. r \in req[q].todo \/ Connected(r, i, u)
      BY <1>3, <1>u, <2>1, <2>2, <2>3 DEF Connects, AtWork
    <3> QED
      BY <2>1, <2>2, <2>3, <3>1 DEF Connected
  <2> QED
    BY <1>0, <1>3, <2>1, <2>2, <2>3, <1>u DEF Connects, Connected, AtWork, MustMove
<1>6. ASSUME req[q].pc \in {"creating", "reviving"},
             Goto(q, "scanning"), UNCHANGED scanned,
             \A r \in Repo : r # req[q].at => project'[r] = project[r],
             /\ project'[req[q].at].inst = req[q].inst
             /\ ~project'[req[q].at].archived
             /\ project'[req[q].at].home \in Member[req[q].user]
      PROVE  Connects(req[q])'
  <2>1. /\ Kin(req[q], req'[q]) /\ req'[q].pc = "scanning"
        /\ req'[q].at = req[q].at /\ req'[q].todo = req[q].todo
    BY <1>6, GotoFields
  <2>2. ASSUME NEW r \in grant[req[q].inst]
        PROVE  r \in req'[q].todo \/ r = req'[q].at \/ Connected(r, i, u)'
    <3>1. r \in Repo
      BY <1>0, <1>3, <1>6, <2>1, <2>2 DEF TypeOK
    <3>2. r \in req[q].todo \/ r = req[q].at \/ Connected(r, i, u)
      BY <1>3, <1>6, <1>u, <2>1, <2>2 DEF Connects
    <3> QED
      BY <1>6, <2>1, <2>2, <3>1, <3>2, ConnectedKept
  <2> QED
    BY <1>0, <1>3, <1>6, <1>u, <2>1, <2>2 DEF Connects, Connected, AtWork
<1>7. CASE CreateProject(q)
  <2>1. /\ req[q].pc = "creating" /\ Goto(q, "scanning") /\ UNCHANGED scanned
        /\ project' = [project EXCEPT ![req[q].at] =
              [owner |-> req[q].user, home |-> First[req[q].user],
               inst |-> req[q].inst, archived |-> FALSE]]
    BY <1>7 DEF CreateProject
  <2>2. req[q].at \in Repo /\ req[q].user \in User
    BY <1>0, <2>1 DEF CallOK, Provisioning, AtWork
  <2> QED
    BY <1>0, <1>6, <2>1, <2>2, ConnectAssumption DEF TypeOK
<1>8. CASE ReviveProject(q)
  <2> DEFINE row == [project[req[q].at] EXCEPT !.inst = req[q].inst, !.archived = FALSE,
                        !.home = IF req[q].move THEN First[req[q].user]
                                 ELSE project[req[q].at].home]
  <2>1. /\ req[q].pc = "reviving" /\ Goto(q, "scanning") /\ UNCHANGED scanned
        /\ project' = [project EXCEPT ![req[q].at] = row]
    BY <1>8 DEF ReviveProject
  <2>2. /\ req[q].at \in Repo /\ req[q].user \in User
        /\ project[req[q].at] \in Project
    BY <1>0, <2>1 DEF CallOK, Provisioning, AtWork, Found, TypeOK
  <2>3. req[q].move \/ project[req[q].at].home \in Member[req[q].user]
    BY <1>3, <2>1, GotoFields DEF Connects
  <2>4. row.inst = req[q].inst /\ ~row.archived /\ row.home \in Member[req[q].user]
    BY <2>2, <2>3, ConnectAssumption DEF Project
  <2>5. /\ project'[req[q].at] = row
        /\ \A r \in Repo : r # req[q].at => project'[r] = project[r]
    BY <1>0, <2>1, <2>2 DEF TypeOK
  <2> HIDE DEF row
  <2> QED
    BY <1>6, <2>1, <2>4, <2>5
<1>9. CASE EnqueueScan(q)
  <2>1. /\ Kin(req[q], req'[q]) /\ req'[q].todo = req[q].todo
        /\ req'[q].pc = IF req'[q].todo = {} THEN "done" ELSE "finding"
    BY <1>9, EnqueueScanFields
  <2>2. /\ req[q].pc = "scanning" /\ UNCHANGED project
        /\ scanned' = scanned \cup {<<req[q].at, req[q].inst>>}
    BY <1>9 DEF EnqueueScan
  <2>3. PICK x : x = req[q].at
    OBVIOUS
  <2>5. Connected(x, i, u)'
    <3>1. project[x] # NoProject
      BY <1>0, <2>2, <2>3 DEF Found
    <3>2. /\ project[x].inst = i /\ ~project[x].archived
          /\ project[x].home \in Member[u]
      BY <1>3, <1>u, <2>1, <2>2, <2>3 DEF Connects
    <3>3. <<x, i>> \in scanned'
      BY <1>u, <2>2, <2>3
    <3> QED
      BY <2>2, <3>1, <3>2, <3>3 DEF Connected
  <2>4. ASSUME NEW r \in grant[req[q].inst]
        PROVE  r \in req'[q].todo \/ Connected(r, i, u)'
    <3>1. r \in req[q].todo \/ r = req[q].at \/ Connected(r, i, u)
      BY <1>3, <1>u, <2>1, <2>2, <2>4 DEF Connects
    <3> QED
      BY <2>1, <2>2, <2>3, <2>4, <2>5, <3>1, ConnectedKept
  <2> QED
    BY <1>0, <1>3, <1>u, <2>1, <2>2, <2>4 DEF Connects, Connected, AtWork
<1>10. CASE ArchiveProject(q) \/ DeleteInstallation(q)
  <2>1. Kin(req[q], req'[q]) /\ req[q].pc \in {"archiving", "unlinking"}
    BY <1>10, ArchiveProjectFields, GotoFields DEF ArchiveProject, DeleteInstallation
  <2> QED
    BY <1>3, <2>1 DEF Provisioning, AtWork
<1>11. CASE ListFails(q) \/ CreateViolates(q) \/ ScanFails(q) \/ Reply(q) \/ Fail(q)
  BY <1>0, <1>11 DEF ListFails, CreateViolates, ScanFails, Reply, Fail, Throw, Idle, Typed
<1> QED
  BY <1>1, <1>2, <1>4, <1>5, <1>7, <1>8, <1>9, <1>10, <1>11 DEF Api

\* The listed projects are archived one by one, then the link goes.
LEMMA ArchivesApi ==
    ASSUME Typed, NEW q \in Request, Api(q), Alone(q)', req'[q].act = "deleted",
           Alone(q) /\ req[q].act = "deleted" => Archives(req[q])
    PROVE  Archives(req[q])'
<1>0. /\ req[q] \in Good /\ CallOK(req[q]) /\ TypeOK /\ req'[q].pc # "idle"
  BY DEF Typed, Good, Alone
<1>1. ASSUME NEW u \in User, NEW i \in Installation, CompleteInstall(q, u, i)
      PROVE  FALSE
  BY <1>1, CompleteInstallFields
<1>2. ASSUME NEW m \in mail, ProvisionWebhook(q, m) \/ RemovedWebhook(q, m)
      PROVE  FALSE
  <2>1. CASE RemovedWebhook(q, m)
    BY <2>1 DEF RemovedWebhook, Begin, Idle
  <2>2. CASE ProvisionWebhook(q, m)
    BY <2>2, ProvisionWebhookFields DEF ProvisionWebhook
  <2> QED
    BY <1>2, <2>1, <2>2
<1>3. ASSUME NEW m \in mail, ArchiveWebhook(q, m)
      PROVE  Archives(req[q])'
  <2>1. project' = project
    BY <1>3 DEF ArchiveWebhook, tables
  <2> QED
    BY <1>3, <2>1, ArchiveWebhookFields DEF Archives
<1>4. ASSUME Kin(req[q], req'[q]), req[q].pc # "idle"
      PROVE  /\ Archives(req[q]) /\ req[q].act = "deleted"
             /\ req[q].pc \in {"archiving", "unlinking", "done"}
             /\ req[q].inst \in Installation /\ req'[q].inst = req[q].inst
  BY <1>0, <1>4, ApiContinues DEF Kin, CallOK
<1>5. CASE ArchiveProject(q)
  <2>1. PICK r0 \in req[q].todo :
          /\ Kin(req[q], req'[q])
          /\ req'[q].todo = req[q].todo \ {r0}
          /\ req'[q].pc = IF req'[q].todo # {} THEN "archiving"
                          ELSE IF req[q].act = "deleted" THEN "unlinking" ELSE "done"
          /\ project' = [project EXCEPT ![r0] =
                IF @ = NoProject THEN @ ELSE [@ EXCEPT !.archived = TRUE]]
    BY <1>5, ArchiveProjectFields
  <2>2. req[q].pc = "archiving" /\ r0 \in Repo
    BY <1>0, <1>5 DEF ArchiveProject, Good, Calls
  <2>3. PICK i : i = req[q].inst
    OBVIOUS
  <2>4. ASSUME NEW r \in Repo, project'[r] # NoProject, project'[r].inst = i
        PROVE  r \in req'[q].todo \/ project'[r].archived
    <3>1. CASE r = r0
      <4>1. project[r0] # NoProject => project[r0] \in Project
        BY <1>0, <2>2 DEF TypeOK
      <4>2. /\ project[r0] # NoProject
            /\ project'[r0] = [project[r0] EXCEPT !.archived = TRUE]
        BY <1>0, <2>1, <2>2, <2>4, <3>1 DEF TypeOK
      <4> QED
        BY <3>1, <4>1, <4>2 DEF Project
    <3>2. CASE r # r0
      <4>1. project'[r] = project[r]
        BY <1>0, <2>1, <3>2 DEF TypeOK
      <4>2. r \in req[q].todo \/ project[r].archived
        BY <1>4, <2>1, <2>2, <2>3, <2>4, <4>1 DEF Archives
      <4> QED
        BY <2>1, <3>2, <4>1, <4>2
    <3> QED
      BY <3>1, <3>2
  <2> QED
    BY <1>4, <2>1, <2>2, <2>3, <2>4 DEF Archives
<1>6. CASE DeleteInstallation(q)
  <2>1. /\ Kin(req[q], req'[q])
        /\ req'[q].pc = "done" /\ req'[q].todo = req[q].todo
    BY <1>6, GotoFields DEF DeleteInstallation
  <2>2. /\ req[q].pc = "unlinking" /\ project' = project
        /\ link' = [link EXCEPT ![req[q].inst] = NoUser]
    BY <1>6 DEF DeleteInstallation
  <2>3. link'[req[q].inst] = NoUser
    BY <1>0, <1>4, <2>1, <2>2 DEF TypeOK
  <2> QED
    BY <1>4, <2>1, <2>2, <2>3 DEF Archives
<1>7. CASE ListRepos(q)
  BY <1>4, <1>7, ListReposFields DEF ListRepos
<1>8. CASE FindProject(q)
  BY <1>4, <1>8, FindProjectFields DEF FindProject
<1>9. CASE CreateProject(q) \/ ReviveProject(q)
  BY <1>4, <1>9, GotoFields DEF CreateProject, ReviveProject
<1>10. CASE EnqueueScan(q)
  BY <1>4, <1>10, EnqueueScanFields DEF EnqueueScan
<1>11. CASE ListFails(q) \/ CreateViolates(q) \/ ScanFails(q) \/ Reply(q) \/ Fail(q)
  BY <1>0, <1>11 DEF ListFails, CreateViolates, ScanFails, Reply, Fail, Throw, Idle, Typed
<1> QED
  BY <1>1, <1>2, <1>3, <1>5, <1>6, <1>7, <1>8, <1>9, <1>10, <1>11 DEF Api

LEMMA ReconcileNext == Typed /\ ReconcileInv /\ [Next]_vars => ReconcileInv'
<1> SUFFICES ASSUME Typed, ReconcileInv, [Next]_vars
             PROVE  ReconcileInv'
  OBVIOUS
<1>1. CASE GitHub
  <2>1. PICK i \in Installation, s \in {"active", "suspended", "deleted"},
             R \in SUBSET Repo, act \in Acts, W \in SUBSET Repo :
          Change(i, s, R, act, W)
    BY <1>1, GitHubChanges
  <2>2. \A q \in Request : req'[q].pc # "idle" => req'[q].met
    BY <2>1 DEF Change, Busy, Typed, Good, Calls
  <2> QED
    BY <2>2 DEF ReconcileInv, AloneInv, Progress, Alone
<1>2. ASSUME NEW m \in mail, IgnoreWebhook(m) PROVE ReconcileInv'
  BY <1>2 DEF IgnoreWebhook, tables, ReconcileInv, AloneInv, Progress, Alone,
              Connects, Archives, Connected
<1>3. ASSUME NEW q \in Request, Api(q) PROVE ReconcileInv'
  <2>1. AloneInv' /\ \A p \in Request : p # q => ~Alone(p)'
    BY <1>3, AloneApi DEF ReconcileInv
  <2>2. Progress(q)'
    <3>1. /\ Alone(q) /\ req[q].act = "complete" => Connects(req[q])
          /\ Alone(q) /\ req[q].act = "deleted"  => Archives(req[q])
      BY DEF ReconcileInv, Progress
    <3>2. Alone(q)' /\ req'[q].act = "complete" => Connects(req[q])'
      BY <1>3, <3>1, ConnectsApi
    <3>3. Alone(q)' /\ req'[q].act = "deleted" => Archives(req[q])'
      BY <1>3, <3>1, ArchivesApi
    <3> QED
      BY <3>2, <3>3 DEF Progress
  <2>3. \A p \in Request : Progress(p)'
    BY <2>1, <2>2 DEF Progress
  <2> QED
    BY <2>1, <2>3 DEF ReconcileInv
<1>4. CASE UNCHANGED vars
  BY <1>4 DEF vars, github, tables, ReconcileInv, AloneInv, Progress, Alone,
              Connects, Archives, Connected
<1> QED
  BY <1>1, <1>2, <1>3, <1>4 DEF Next

\* A redirect that nothing disturbs connects all that its installation grants,
\* and an undisturbed deletion archives all it had and unlinks it, whatever
\* earlier requests left half done and however many repositories there are.
THEOREM UndisturbedReconciles == Spec => []AloneReconciles
<1>1. Init => ReconcileInv
  BY DEF Init, Idle, ReconcileInv, AloneInv, Progress, Alone
<1> QED
  BY <1>1, ReconcileImplies, TypedInit, TypedNext, ReconcileNext, PTL DEF Spec
=============================================================================
