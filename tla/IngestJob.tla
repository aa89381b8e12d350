----------------------------- MODULE IngestJob ------------------------------
(***************************************************************************)
(* From a push to the stored graph: the requests that enqueue (a push      *)
(* webhook, the first scan of a repository just connected), the jobs of    *)
(* the queue, the handler of apps/worker (clone at the commit, read the    *)
(* stored hashes, ingest the delta, replace the graph) and the fragment    *)
(* cache all projects share.  A step is one awaited statement and the      *)
(* synchronous code after it; requests run side by side and GitHub         *)
(* delivers in any order.  The queue is JobQueue's, cut down to what       *)
(* orders deliveries; the replacement is one step, GraphReplace has its    *)
(* statements.                                                             *)
(*                                                                         *)
(* A document is kept as the files it has nodes for, which is all a later  *)
(* delivery compares; what an import binds to depends on tsconfig and the  *)
(* workspace files too, which are not among them.  A fragment is what      *)
(* parsing one file yields, and every id in it is made from its path.      *)
(***************************************************************************)
EXTENDS Integers, FiniteSets, FiniteSetsExt, Functions

CONSTANTS
    Project, Commit, Worker, Job, Request,
    NoProject, NoCommit, NoJob,
    Content,         \* the byte strings files have
    Repo,            \* Repo[c]: the project c belongs to
    Tree,            \* Tree[c]: source path -> content; paths are naturals, in walk order
    Oversized,       \* commits past a byte limit
    CorruptAtStart,  \* contents whose cache row does not deserialize
    MaxAttempts,     \* RetryPolicy.maxAttempts
    MaxPushes,       \* bound: moves of the branches and scans after the first
    MaxFaults,       \* bound: requests and handlers that fail, worker crashes
    LeaseOutlivesDelivery  \* TRUE: a delivery ends before its lease

ASSUME IngestAssumption ==
    /\ Repo \in [Commit -> Project]
    /\ \A c \in Commit :
          /\ Tree[c] \in [DOMAIN Tree[c] -> Content]
          /\ DOMAIN Tree[c] \subseteq Nat /\ DOMAIN Tree[c] # {}
          \* a walk is finite: of any of its files there is a last one
          /\ \A S \in SUBSET DOMAIN Tree[c] :
                S # {} => \E q \in S : \A r \in S : r <= q
    /\ NoProject \notin Project /\ NoCommit \notin Commit /\ NoJob \notin Job
    /\ Oversized \subseteq Commit /\ CorruptAtStart \subseteq Content
    /\ MaxAttempts \in Nat \ {0} /\ MaxPushes \in Nat /\ MaxFaults \in Nat
    /\ LeaseOutlivesDelivery \in BOOLEAN

VARIABLES
    head,      \* per project: the default branch's commit, at GitHub
    connected, \* the projects that exist
    \* the requests: where each is, its project, the commit it enqueues and the
    \* time it took for available_at
    stage, target, wanted, moment,
    \* the job table: status, commit reference, order of available_at, attempts
    status, ref, due, attempts, clock,
    graph,     \* per project: the stored document
    cache,     \* content hash -> fragment
    \* the workers: program counter, the job each holds and the attempts it was
    \* claimed with, the cached fragments it read
    pc, job, delivery, hits,
    shown,     \* history: the commit each stored graph was written for
    calm,      \* history: projects nothing has put out of order since they settled
    pushes, faults

github == <<head, connected, pushes>>
asked  == <<stage, target, wanted, moment>>
rows   == <<status, ref, due, attempts>>
stored == <<graph, cache>>
loop   == <<pc, job, delivery, hits>>
vars   == <<github, asked, rows, clock, stored, loop, shown, calm, faults>>

Paths    == UNION {DOMAIN Tree[c] : c \in Commit}
Corrupt  == [path |-> 0, content |-> "corrupt"]
Fragment == [path : Paths, content : Content]
Cache    == UNION {[S -> Fragment \cup {Corrupt}] : S \in SUBSET Content}
Files    == UNION {[S -> Content] : S \in SUBSET Paths}
Status   == {"fresh", "waiting", "ready", "processing", "gone", "dead"}
Stage    == {"idle", "resolving", "posted", "finding", "inserting", "refinding"}
Phase    == {"idle", "reading", "caching", "parsing", "replacing", "acking"}

TypeOK ==
    /\ head \in [Project -> Commit \cup {NoCommit}]
    /\ connected \subseteq Project
    /\ stage \in [Request -> Stage]
    /\ target \in [Request -> Project \cup {NoProject}]
    /\ wanted \in [Request -> Commit \cup {NoCommit}]
    /\ moment \in [Request -> Nat]
    /\ status \in [Job -> Status]
    /\ ref \in [Job -> Commit \cup {NoCommit}]
    /\ due \in [Job -> Nat] /\ attempts \in [Job -> 0 .. MaxAttempts]
    /\ clock \in Nat
    /\ graph \in [Project -> Files]
    /\ cache \in Cache
    /\ pc \in [Worker -> Phase]
    /\ job \in [Worker -> Job \cup {NoJob}]
    /\ delivery \in [Worker -> 0 .. MaxAttempts]
    /\ hits \in [Worker -> Cache]
    /\ shown \in [Project -> Commit \cup {NoCommit}]
    /\ calm \subseteq Project
    /\ pushes \in Nat /\ faults \in Nat

\* No repository is connected yet; some have a commit.
Init ==
    /\ head \in [Project -> Commit \cup {NoCommit}]
    /\ \A p \in Project : head[p] \in Commit => Repo[head[p]] = p
    /\ connected = {}
    /\ stage = [r \in Request |-> "idle"]
    /\ target = [r \in Request |-> NoProject]
    /\ wanted = [r \in Request |-> NoCommit]
    /\ moment = [r \in Request |-> 0]
    /\ status = [j \in Job |-> "fresh"]
    /\ ref = [j \in Job |-> NoCommit]
    /\ due = [j \in Job |-> 0] /\ attempts = [j \in Job |-> 0]
    /\ clock = 0
    /\ graph = [p \in Project |-> <<>>]
    /\ cache = [x \in CorruptAtStart |-> Corrupt]
    /\ pc = [w \in Worker |-> "idle"]
    /\ job = [w \in Worker |-> NoJob]
    /\ delivery = [w \in Worker |-> 0]
    /\ hits = [w \in Worker |-> <<>>]
    /\ shown = [p \in Project |-> NoCommit]
    /\ calm = {}
    /\ pushes = 0 /\ faults = 0

-----------------------------------------------------------------------------
(* The pipeline, as functions of a tree and what the cache returned. *)

\* A cached fragment the boundary accepts; any other is a miss.
Valid(h, x) == x \in DOMAIN h /\ h[x] # Corrupt

\* loadFragment: reuse the cached fragment of the content, else parse the file.
FragmentOf(t, h, q) ==
    IF Valid(h, t[q]) THEN h[t[q]] ELSE [path |-> q, content |-> t[q]]

\* Mutant: every key is put with the last file's fragment.
ToCacheLast(t, h) ==
    [x \in {t[q] : q \in DOMAIN t} \ {y \in DOMAIN h : Valid(h, y)} |->
        [path |-> Max(DOMAIN t), content |-> t[Max(DOMAIN t)]]]

\* The fragments to cache: one per content that missed, the last file's.
ToCache(t, h) ==
    [x \in {t[q] : q \in DOMAIN t} \ {y \in DOMAIN h : Valid(h, y)} |->
        [path |-> Max({q \in DOMAIN t : t[q] = x}), content |-> x]]

\* resolveAndSynthesize and the row dedupe: a node per file id, last wins.
FilesOf(t, h) ==
    LET source(r) == {q \in DOMAIN t : FragmentOf(t, h, q).path = r}
    IN  [r \in {FragmentOf(t, h, q).path : q \in DOMAIN t} |->
            FragmentOf(t, h, Max(source(r))).content]

-----------------------------------------------------------------------------
(* What has put a project out of order: the code keeps to the order of the *)
(* pushes only while none of the conditions below calls for Disturb.       *)

Active(j)   == status[j] \in {"waiting", "ready", "processing"}
Holders(j)  == {w \in Worker : job[w] = j}
InFlight(p) == {r \in Request : target[r] = p}
Queued(p)   == {j \in Job : Active(j) /\ Repo[ref[j]] = p}
AtWork(p)   == {w \in Worker : job[w] # NoJob /\ Repo[ref[job[w]]] = p}
Idle(p)     == Queued(p) = {} /\ AtWork(p) = {}
Settled(p)  == InFlight(p) = {} /\ Idle(p)

Disturb(p) == calm' = calm \ {p}

\* Request r comes to stand for the head of p: after another of p that is still
\* under way it may be overtaken; with nothing else to come it starts afresh.
Begin(r, p) ==
    calm' = IF InFlight(p) \ {r} # {} THEN calm \ {p}
            ELSE IF Idle(p) THEN calm \cup {p} ELSE calm

-----------------------------------------------------------------------------
(* The requests of the API. *)

\* A push to the default branch moves the head; its delivery is on its way.
Push(c) ==
    /\ pushes < MaxPushes
    /\ head[Repo[c]] # c
    /\ head' = [head EXCEPT ![Repo[c]] = c]
    /\ pushes' = pushes + 1
    /\ \E r \in Request :
          /\ stage[r] = "idle"
          /\ stage' = [stage EXCEPT ![r] = "posted"]
          /\ target' = [target EXCEPT ![r] = Repo[c]]
          /\ wanted' = [wanted EXCEPT ![r] = c]
          /\ Begin(r, Repo[c])
    /\ UNCHANGED <<connected, moment, rows, clock, stored, loop, shown, faults>>

\* The repository is connected, or connected again: its project is created or
\* revived, then GitHub is asked for the head of the default branch.
FirstScan(p) ==
    /\ IF p \notin connected THEN pushes' = pushes
                             ELSE pushes < MaxPushes /\ pushes' = pushes + 1
    /\ connected' = connected \cup {p}
    /\ \E r \in Request :
          /\ stage[r] = "idle"
          /\ stage' = [stage EXCEPT ![r] = "resolving"]
          /\ target' = [target EXCEPT ![r] = p]
    /\ UNCHANGED <<head, wanted, moment, rows, clock, stored, loop, shown, calm,
                   faults>>

\* GitHub reads the head; the answer is on its way.
ResolveHead(r) ==
    /\ stage[r] = "resolving"
    /\ head[target[r]] # NoCommit
    /\ stage' = [stage EXCEPT ![r] = "posted"]
    /\ wanted' = [wanted EXCEPT ![r] = head[target[r]]]
    /\ Begin(r, target[r])
    /\ UNCHANGED <<github, target, moment, rows, clock, stored, loop, shown, faults>>

End(r) ==
    /\ stage' = [stage EXCEPT ![r] = "idle"]
    /\ target' = [target EXCEPT ![r] = NoProject]
    /\ wanted' = [wanted EXCEPT ![r] = NoCommit]
    /\ moment' = [moment EXCEPT ![r] = 0]

\* There is no head to scan, or no project the repository of a push is connected
\* to: nothing is enqueued.
Ignore(r) ==
    /\ \/ stage[r] = "resolving" /\ head[target[r]] = NoCommit
       \/ stage[r] = "posted" /\ target[r] \notin connected
    /\ End(r)
    /\ UNCHANGED <<github, rows, clock, stored, loop, shown, calm, faults>>

\* The project is found; enqueue takes the time before its first statement.
TakeTime(r) ==
    /\ stage[r] = "posted" /\ target[r] \in connected
    /\ stage' = [stage EXCEPT ![r] = "finding"]
    /\ moment' = [moment EXCEPT ![r] = clock + 1]
    /\ clock' = clock + 1
    /\ UNCHANGED <<github, target, wanted, rows, stored, loop, shown, calm, faults>>

Same(r) == {j \in Job : Active(j) /\ ref[j] = wanted[r]}

\* A job of the commit is still active: the request is coalesced onto it, be it
\* ahead of a job of another commit.
Coalesce(r) ==
    /\ stage[r] \in {"finding", "refinding"}
    /\ Same(r) # {}
    /\ End(r)
    /\ IF Queued(target[r]) \subseteq Same(r) THEN UNCHANGED calm
                                           ELSE Disturb(target[r])
    /\ UNCHANGED <<github, rows, clock, stored, loop, shown, faults>>

NoneActive(r) ==
    /\ stage[r] = "finding"
    /\ Same(r) = {}
    /\ stage' = [stage EXCEPT ![r] = "inserting"]
    /\ UNCHANGED <<github, target, wanted, moment, rows, clock, stored, loop,
                   shown, calm, faults>>

Insert(r) ==
    /\ stage[r] = "inserting"
    /\ Same(r) = {}
    /\ \E j \in Job :
          /\ status[j] = "fresh"
          /\ status' = [status EXCEPT ![j] = "ready"]
          /\ ref' = [ref EXCEPT ![j] = wanted[r]]
          /\ due' = [due EXCEPT ![j] = moment[r]]
    /\ End(r)
    /\ UNCHANGED <<github, attempts, clock, stored, loop, shown, calm, faults>>

\* The index refuses the row: another request has inserted it since.
InsertTaken(r) ==
    /\ stage[r] = "inserting"
    /\ Same(r) # {}
    /\ stage' = [stage EXCEPT ![r] = "refinding"]
    /\ UNCHANGED <<github, target, wanted, moment, rows, clock, stored, loop,
                   shown, calm, faults>>

\* Or: the row that was in the way is settled by now, and the request fails.
RefindNone(r) ==
    /\ stage[r] = "refinding"
    /\ Same(r) = {}
    /\ End(r)
    /\ Disturb(target[r])
    /\ UNCHANGED <<github, rows, clock, stored, loop, shown, faults>>

\* A request, a handler or a worker fails.
Fault == faults < MaxFaults /\ faults' = faults + 1

\* A delivery is lost, GitHub does not answer, or a statement fails.
RequestFails(r) ==
    /\ stage[r] # "idle"
    /\ Fault
    /\ End(r)
    /\ Disturb(target[r])
    /\ UNCHANGED <<github, rows, clock, stored, loop, shown>>

Ask(r) ==
    \/ ResolveHead(r) \/ Ignore(r) \/ TakeTime(r) \/ Coalesce(r)
    \/ NoneActive(r) \/ Insert(r) \/ InsertTaken(r) \/ RefindNone(r)

-----------------------------------------------------------------------------
(* The queue. *)

\* A backoff runs out: the row is due after those that are due already.
BackoffEnds(j) ==
    /\ status[j] = "waiting"
    /\ status' = [status EXCEPT ![j] = "ready"]
    /\ due' = [due EXCEPT ![j] = clock + 1]
    /\ clock' = clock + 1
    /\ UNCHANGED <<github, asked, ref, attempts, stored, loop, shown, calm, faults>>

\* A lease runs out: the row is claimable again at its old place.
LeaseEnds(j) ==
    /\ status[j] = "processing"
    /\ LeaseOutlivesDelivery => Holders(j) = {}
    /\ status' = [status EXCEPT ![j] = "ready"]
    /\ UNCHANGED <<github, asked, ref, due, attempts, clock, stored, loop, shown,
                   calm, faults>>

Step(w, phase) == pc' = [pc EXCEPT ![w] = phase]

Release(w) ==
    /\ Step(w, "idle")
    /\ job' = [job EXCEPT ![w] = NoJob]
    /\ delivery' = [delivery EXCEPT ![w] = 0]
    /\ hits' = [hits EXCEPT ![w] = <<>>]

\* Mutant: the claim takes the newest row.
DueLast(j) == \A i \in Job : status[i] = "ready" => due[i] <= due[j]

\* The claim takes the row that has been due longest.
DueFirst(j) == \A i \in Job : status[i] = "ready" => due[j] <= due[i]

\* Another worker has a job of the project, or an older commit comes again.
Overtaking(j) ==
    \/ AtWork(Repo[ref[j]]) # {}
    \/ attempts[j] > 0 /\ ref[j] # head[Repo[ref[j]]]

Claim(w) ==
    /\ pc[w] = "idle"
    /\ \E j \in Job :
          /\ status[j] = "ready" /\ attempts[j] < MaxAttempts
          /\ DueFirst(j)
          /\ status' = [status EXCEPT ![j] = "processing"]
          /\ attempts' = [attempts EXCEPT ![j] = @ + 1]
          /\ job' = [job EXCEPT ![w] = j]
          /\ delivery' = [delivery EXCEPT ![w] = attempts[j] + 1]
          /\ IF Overtaking(j) THEN Disturb(Repo[ref[j]]) ELSE UNCHANGED calm
    /\ Step(w, "reading")
    /\ UNCHANGED <<github, asked, ref, due, clock, stored, hits, shown, faults>>

\* A delivery past the cap: the row is dead-lettered unseen by the handler.
PoisonRow(w) ==
    /\ pc[w] = "idle"
    /\ \E j \in Job :
          /\ status[j] = "ready" /\ attempts[j] = MaxAttempts
          /\ DueFirst(j)
          /\ status' = [status EXCEPT ![j] = "dead"]
          /\ Disturb(Repo[ref[j]])
    /\ UNCHANGED <<github, asked, ref, due, attempts, clock, stored, loop, shown,
                   faults>>

-----------------------------------------------------------------------------
(* The handler.  Credentials are minted and the tree of exactly the job's   *)
(* commit is cloned, which no one else sees, before the hashes are read.   *)

At(w, phase) == pc[w] = phase
CommitOf(w)  == ref[job[w]]
TreeOf(w)    == Tree[CommitOf(w)]
ProjectOf(w) == Repo[CommitOf(w)]

\* Mutant: the delta compares what the two trees have in common.
SameFilesWhereBoth(w) ==
    \A q \in DOMAIN TreeOf(w) \cap DOMAIN graph[ProjectOf(w)] :
        graph[ProjectOf(w)][q] = TreeOf(w)[q]

\* mapsEqual of the clone's content hashes and the stored ones.
SameFiles(w) == graph[ProjectOf(w)] = TreeOf(w)

\* The stored hashes equal the clone's: nothing to do.
Unchanged(w) ==
    /\ At(w, "reading")
    /\ CommitOf(w) \notin Oversized
    /\ SameFiles(w)
    /\ Step(w, "acking")
    /\ UNCHANGED <<github, asked, rows, clock, stored, job, delivery, hits, shown,
                   calm, faults>>

Changed(w) ==
    /\ At(w, "reading")
    /\ CommitOf(w) \notin Oversized
    /\ ~SameFiles(w)
    /\ Step(w, "caching")
    /\ UNCHANGED <<github, asked, rows, clock, stored, job, delivery, hits, shown,
                   calm, faults>>

\* getMany: one query for the contents of the tree.
ReadCache(w) ==
    /\ At(w, "caching")
    /\ hits' = [hits EXCEPT ![w] = Restrict(cache, DOMAIN cache \cap Range(TreeOf(w)))]
    /\ Step(w, "parsing")
    /\ UNCHANGED <<github, asked, rows, clock, stored, job, delivery, shown, calm,
                   faults>>

\* The misses are parsed and put; a key that is taken keeps its row.
ParseAndPut(w) ==
    /\ At(w, "parsing")
    /\ LET new == ToCache(TreeOf(w), hits[w])
       IN  cache' = [x \in DOMAIN cache \cup DOMAIN new |->
                        IF x \in DOMAIN cache THEN cache[x] ELSE new[x]]
    /\ Step(w, "replacing")
    /\ UNCHANGED <<github, asked, rows, clock, graph, job, delivery, hits, shown,
                   calm, faults>>

\* Mutant: the graph is replaced additively, the old files stay.
MergeGraph(w) ==
    /\ At(w, "replacing")
    /\ LET new == FilesOf(TreeOf(w), hits[w])
           old == graph[ProjectOf(w)]
       IN  graph' = [graph EXCEPT ![ProjectOf(w)] =
              [q \in DOMAIN new \cup DOMAIN old |->
                  IF q \in DOMAIN new THEN new[q] ELSE old[q]]]
    /\ shown' = [shown EXCEPT ![ProjectOf(w)] = CommitOf(w)]
    /\ Step(w, "acking")
    /\ UNCHANGED <<github, asked, rows, clock, cache, job, delivery, hits, calm,
                   faults>>

\* Resolve over every fragment and replace the project's graph.
Replace(w) ==
    /\ At(w, "replacing")
    /\ graph' = [graph EXCEPT ![ProjectOf(w)] = FilesOf(TreeOf(w), hits[w])]
    /\ shown' = [shown EXCEPT ![ProjectOf(w)] = CommitOf(w)]
    /\ Step(w, "acking")
    /\ UNCHANGED <<github, asked, rows, clock, cache, job, delivery, hits, calm,
                   faults>>

Ack(w) ==
    /\ At(w, "acking")
    /\ status' = [status EXCEPT ![job[w]] = "gone"]
    /\ Release(w)
    /\ UNCHANGED <<github, asked, ref, due, attempts, clock, stored, shown, calm,
                   faults>>

\* The statement of settleFailure: a retry after a backoff, which the active-key
\* index may refuse, or the dead letter; nothing on a row that is gone.
Failed(w) ==
    LET j == job[w]
        taken == \E i \in Job \ {j} : Active(i) /\ ref[i] = ref[j]
    IN  CASE status[j] = "gone"             -> "gone"
          [] status[j] # "gone" /\ delivery[w] >= MaxAttempts -> "dead"
          [] status[j] # "gone" /\ delivery[w] < MaxAttempts
                -> IF taken THEN status[j] ELSE "waiting"

Settle(w) ==
    /\ status' = [status EXCEPT ![job[w]] = Failed(w)]
    /\ Release(w)
    /\ IF Failed(w) = "dead" THEN Disturb(ProjectOf(w)) ELSE UNCHANGED calm
    /\ UNCHANGED <<github, asked, ref, due, attempts, clock, stored, shown>>

\* enumerateFiles throws past a byte limit.
TooLarge(w) ==
    /\ At(w, "reading")
    /\ CommitOf(w) \in Oversized
    /\ Settle(w)
    /\ UNCHANGED faults

\* git, the token, or a statement fails at any point of the handler.
HandlerFails(w) ==
    /\ pc[w] # "idle"
    /\ Fault
    /\ Settle(w)

Crash(w) ==
    /\ pc[w] # "idle"
    /\ Fault
    /\ Release(w)
    /\ UNCHANGED <<github, asked, rows, clock, stored, shown, calm>>

-----------------------------------------------------------------------------
Handle(w) ==
    \/ Unchanged(w) \/ Changed(w) \/ TooLarge(w)
    \/ ReadCache(w) \/ ParseAndPut(w) \/ Replace(w) \/ Ack(w)

Next ==
    \/ \E c \in Commit : Push(c)
    \/ \E p \in Project : FirstScan(p)
    \/ \E r \in Request : Ask(r) \/ RequestFails(r)
    \/ \E j \in Job : BackoffEnds(j) \/ LeaseEnds(j)
    \/ \E w \in Worker : \/ Claim(w) \/ PoisonRow(w) \/ Handle(w)
                         \/ HandlerFails(w) \/ Crash(w)

Spec == Init /\ [][Next]_vars

\* A worker polls for ever, every awaited call returns (git runs under a
\* timeout), and the clock reaches every backoff and lease.  Pushes, first scans
\* and faults are free.
Fairness ==
    /\ \A r \in Request : WF_vars(Ask(r))
    /\ \A w \in Worker : WF_vars(Claim(w) \/ PoisonRow(w)) /\ WF_vars(Handle(w))
    /\ \A j \in Job : WF_vars(BackoffEnds(j)) /\ WF_vars(LeaseEnds(j))

LiveSpec == Spec /\ Fairness

-----------------------------------------------------------------------------
\* Some commit has the content at the path.
Stood(q, x) == \E d \in Commit : q \in DOMAIN Tree[d] /\ Tree[d][q] = x

\* The paths of which no content ever stood at another path.
SolePaths == {q \in Paths : \A r \in Paths \ {q}, x \in Content :
                                ~(Stood(q, x) /\ Stood(r, x))}

\* The cache misplaces, and does nothing worse: whatever other commits and
\* projects left in it, however deliveries overlap, crash and come again, a stored
\* graph has no content its commit lacks, puts none at a path where it never
\* stood, and is exactly the commit's at every path that shares no content with
\* another path (ingest-delta.ts:138-195: fragments are reused by content).
CacheOnlyMisplaces ==
    \A p \in Project : shown[p] # NoCommit =>
        LET f == graph[p]
            t == Tree[shown[p]]
        IN  /\ Repo[shown[p]] = p
            /\ \A q \in DOMAIN f : Stood(q, f[q]) /\ f[q] \in Range(t)
            /\ \A q \in SolePaths : /\ q \in DOMAIN f <=> q \in DOMAIN t
                                    /\ q \in DOMAIN t => f[q] = t[q]

\* The graph is the one written for the commit, or has the commit's very files.
Reflects(p, c) == shown[p] = c \/ graph[p] = Tree[c]

\* Whatever went wrong before, one push or first scan that nothing overtakes
\* repairs it: when the project has settled, it shows the head of its branch
\* (github-webhook.service.ts:126-156, github-install.service.ts:218-224,
\* ingest-job-handler.ts:77-102).
SettledShowsHead ==
    \A p \in connected \cap calm :
        Settled(p) /\ head[p] \in Commit => Reflects(p, head[p])

\* And it settles: the head of a connected project is shown in the end, unless
\* the branch moves again or something puts the project out of order.
HeadIsShown ==
    \A c \in Commit :
        LET p == Repo[c]
        IN  head[p] = c /\ p \in connected \cap calm
                ~> Reflects(p, c) \/ head[p] # c \/ p \notin calm
=============================================================================
