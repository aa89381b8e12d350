-------------------------- MODULE IngestJobProofs ---------------------------
(***************************************************************************)
(* Theorems about IngestJob, for every set of projects, commits, workers,  *)
(* jobs and requests, whatever the trees have in common, and whatever      *)
(* fails or overlaps: what the shared cache can do to a stored graph, and  *)
(* when a project that has settled shows the head of its branch.           *)
(***************************************************************************)
EXTENDS IngestJob, TLAPS

-----------------------------------------------------------------------------
(* The pipeline as a function. *)

LEMMA TreeFacts ==
    ASSUME NEW c \in Commit
    PROVE  /\ Tree[c] \in [DOMAIN Tree[c] -> Content]
           /\ DOMAIN Tree[c] \subseteq Paths /\ DOMAIN Tree[c] \subseteq Nat
           /\ DOMAIN Tree[c] # {} /\ Repo[c] \in Project
  BY IngestAssumption DEF Paths

\* Some files of a walk, if there are any, have a last one.
LEMMA LastOfFiles ==
    ASSUME NEW c \in Commit, NEW S \in SUBSET DOMAIN Tree[c], S # {}
    PROVE  Max(S) \in S
<1>1. \E q \in S : \A r \in S : q >= r
  <2>1. PICK q \in S : \A r \in S : r <= q
    BY IngestAssumption
  <2>2. S \subseteq Nat
    BY TreeFacts
  <2> QED
    BY <2>1, <2>2
<1> QED
  BY <1>1 DEF Max

LEMMA EmptyFun == ASSUME NEW S PROVE <<>> \in [{} -> S]
  OBVIOUS

\* What one file yields has a known path and a known content.
LEMMA FragmentTyped ==
    ASSUME NEW c \in Commit, NEW h \in Cache, NEW q \in DOMAIN Tree[c]
    PROVE  FragmentOf(Tree[c], h, q) \in Fragment
<1>1. q \in Paths /\ Tree[c][q] \in Content
  BY TreeFacts
<1>2. CASE Valid(h, Tree[c][q])
  <2>1. h[Tree[c][q]] \in Fragment
    BY <1>2 DEF Valid, Cache
  <2> QED
    BY <1>2, <2>1 DEF FragmentOf
<1>3. CASE ~Valid(h, Tree[c][q])
  BY <1>1, <1>3 DEF FragmentOf, Fragment
<1> QED
  BY <1>2, <1>3

LEMMA FilesTyped ==
    ASSUME NEW c \in Commit, NEW h \in Cache
    PROVE  FilesOf(Tree[c], h) \in Files
<1> DEFINE t == Tree[c]
           F(q) == FragmentOf(t, h, q)
           source(r) == {q \in DOMAIN t : F(q).path = r}
           P == {F(q).path : q \in DOMAIN t}
<1>1. \A q \in DOMAIN t : F(q) \in Fragment
  BY FragmentTyped
<1>2. FilesOf(t, h) = [r \in P |-> F(Max(source(r))).content]
  BY DEF FilesOf
<1>3. ASSUME NEW r \in P PROVE F(Max(source(r))).content \in Content
  <2>1. source(r) # {} /\ source(r) \in SUBSET DOMAIN t
    OBVIOUS
  <2>2. Max(source(r)) \in DOMAIN t
    BY <2>1, LastOfFiles
  <2> QED
    BY <1>1, <2>2 DEF Fragment
<1>4. P \in SUBSET Paths
  BY <1>1 DEF Fragment
<1> HIDE DEF P, F
<1>5. FilesOf(t, h) \in [P -> Content]
  BY <1>2, <1>3
<1> QED
  BY <1>4, <1>5 DEF Files

LEMMA ToCacheTyped ==
    ASSUME NEW c \in Commit, NEW h
    PROVE  /\ DOMAIN ToCache(Tree[c], h) \subseteq Content
           /\ \A x \in DOMAIN ToCache(Tree[c], h) :
                 /\ ToCache(Tree[c], h)[x] \in Fragment
                 /\ ToCache(Tree[c], h)[x].content = x
                 /\ ToCache(Tree[c], h)[x].path \in DOMAIN Tree[c]
                 /\ Tree[c][ToCache(Tree[c], h)[x].path] = x
<1> DEFINE t == Tree[c]
           D == {t[q] : q \in DOMAIN t} \ {y \in DOMAIN h : Valid(h, y)}
           at(x) == {q \in DOMAIN t : t[q] = x}
<1>1. ToCache(t, h) = [x \in D |-> [path |-> Max(at(x)), content |-> x]]
  BY DEF ToCache
<1>2. D \subseteq Content
  BY TreeFacts
<1>3. ASSUME NEW x \in D PROVE Max(at(x)) \in DOMAIN t /\ t[Max(at(x))] = x
  <2>1. at(x) # {} /\ at(x) \in SUBSET DOMAIN t
    OBVIOUS
  <2> QED
    BY <2>1, LastOfFiles
<1> HIDE DEF D, at
<1>4. \A x \in D : ToCache(t, h)[x] = [path |-> Max(at(x)), content |-> x]
  BY <1>1
<1>5. DOMAIN ToCache(t, h) = D
  BY <1>1
<1>6. DOMAIN t \subseteq Paths
  BY TreeFacts
<1>7. ASSUME NEW x \in D
      PROVE  /\ ToCache(t, h)[x] \in Fragment
             /\ ToCache(t, h)[x].content = x
             /\ ToCache(t, h)[x].path \in DOMAIN t
             /\ t[ToCache(t, h)[x].path] = x
  <2>1. PICK m : m = Max(at(x))
    OBVIOUS
  <2>2. m \in DOMAIN t /\ t[m] = x /\ x \in Content /\ m \in Paths
    BY <1>2, <1>3, <1>6, <2>1
  <2>3. ToCache(t, h)[x] = [path |-> m, content |-> x]
    BY <1>4, <2>1
  <2> QED
    BY <2>2, <2>3 DEF Fragment
<1> QED
  BY <1>2, <1>5, <1>7

-----------------------------------------------------------------------------
(* Typing.  A row that was enqueued names a commit, so does the row of     *)
(* every worker at work, and a request under way has a project.            *)

RefInv ==
    /\ \A j \in Job : status[j] # "fresh" => ref[j] \in Commit
    /\ \A w \in Worker : IF pc[w] = "idle" THEN job[w] = NoJob
                         ELSE job[w] \in Job /\ status[job[w]] # "fresh"
    /\ \A r \in Request : IF stage[r] = "idle" THEN target[r] = NoProject
                          ELSE target[r] \in Project
    /\ \A r \in Request : stage[r] \notin {"idle", "resolving"} =>
          wanted[r] \in Commit /\ Repo[wanted[r]] = target[r]
    /\ \A p \in Project : head[p] # NoCommit => Repo[head[p]] = p

Typed == TypeOK /\ RefInv

LEMMA AtCommit ==
    ASSUME Typed, NEW w \in Worker, pc[w] # "idle"
    PROVE  job[w] \in Job /\ CommitOf(w) \in Commit /\ ProjectOf(w) \in Project
  BY IngestAssumption DEF Typed, RefInv, CommitOf, ProjectOf

LEMMA EmptyTyped == <<>> \in Files /\ <<>> \in Cache
<1>1. <<>> \in [{} -> Content] /\ <<>> \in [{} -> Fragment \cup {Corrupt}]
  BY EmptyFun
<1>2. {} \in SUBSET Paths /\ {} \in SUBSET Content
  OBVIOUS
<1> QED
  BY <1>1, <1>2 DEF Files, Cache

LEMMA TypedInit == Init => Typed
<1> SUFFICES ASSUME Init PROVE Typed
  OBVIOUS
<1>1. cache \in [CorruptAtStart -> Fragment \cup {Corrupt}]
  BY DEF Init
<1>2. cache \in Cache
  BY <1>1, IngestAssumption DEF Cache
<1> QED
  BY <1>2, EmptyTyped, IngestAssumption
     DEF Init, Typed, TypeOK, RefInv, Status, Phase, Stage

\* The steps of a request leave the workers and what is stored alone.
LEMMA TypedPush == ASSUME Typed, NEW c \in Commit, Push(c) PROVE Typed'
<1> USE IngestAssumption DEF Typed, TypeOK, RefInv, Stage
<1>1. PICK r \in Request : /\ stage[r] = "idle"
                           /\ stage' = [stage EXCEPT ![r] = "posted"]
                           /\ target' = [target EXCEPT ![r] = Repo[c]]
                           /\ wanted' = [wanted EXCEPT ![r] = c]
                           /\ Begin(r, Repo[c])
  BY DEF Push
<1>2. /\ head' = [head EXCEPT ![Repo[c]] = c] /\ pushes' = pushes + 1
      /\ UNCHANGED <<connected, moment, rows, clock, stored, loop, shown, faults>>
  BY DEF Push
<1>3. calm' \subseteq Project
  BY <1>1 DEF Begin
<1> QED
  BY <1>1, <1>2, <1>3 DEF rows, stored, loop

LEMMA TypedFirstScan == ASSUME Typed, NEW p \in Project, FirstScan(p) PROVE Typed'
  BY IngestAssumption DEF FirstScan, Typed, TypeOK, RefInv, Stage, rows, stored, loop

LEMMA TypedAsk == ASSUME Typed, NEW r \in Request, Ask(r) \/ RequestFails(r) PROVE Typed'
<1> USE IngestAssumption DEF Typed, TypeOK, RefInv, Stage
<1>1. CASE ResolveHead(r)
  <2>1. calm' \subseteq Project
    BY <1>1 DEF ResolveHead, Begin
  <2>2. PICK c \in Commit, p \in Project : c = head[p] /\ p = target[r] /\ Repo[c] = p
    BY <1>1 DEF ResolveHead
  <2>3. /\ stage' = [stage EXCEPT ![r] = "posted"] /\ wanted' = [wanted EXCEPT ![r] = c]
        /\ UNCHANGED <<github, target, moment, rows, clock, stored, loop, shown, faults>>
    BY <1>1, <2>2 DEF ResolveHead
  <2>4. TypeOK'
    BY <2>1, <2>3 DEF github, rows, stored, loop
  <2> QED
    BY <2>2, <2>3, <2>4 DEF github, rows, stored, loop
<1>2. CASE Ignore(r)
  BY <1>2 DEF Ignore, End, github, rows, stored, loop
<1>3. CASE TakeTime(r)
  BY <1>3 DEF TakeTime, github, rows, stored, loop
<1>4. CASE Coalesce(r)
  BY <1>4 DEF Coalesce, End, Disturb, github, rows, stored, loop
<1>5. CASE NoneActive(r) \/ InsertTaken(r)
  <2>1. \E s \in Stage \ {"idle", "resolving"} : stage' = [stage EXCEPT ![r] = s]
    BY <1>5 DEF NoneActive, InsertTaken
  <2>2. stage[r] \notin {"idle", "resolving"}
    BY <1>5 DEF NoneActive, InsertTaken
  <2>3. UNCHANGED <<github, target, wanted, moment, rows, clock, stored, loop, shown,
                    calm, faults>>
    BY <1>5 DEF NoneActive, InsertTaken
  <2> QED
    BY <2>1, <2>2, <2>3 DEF github, rows, stored, loop
<1>6. CASE Insert(r)
  <2>1. PICK j \in Job : /\ status[j] = "fresh"
                         /\ status' = [status EXCEPT ![j] = "ready"]
                         /\ ref' = [ref EXCEPT ![j] = wanted[r]]
                         /\ due' = [due EXCEPT ![j] = moment[r]]
    BY <1>6 DEF Insert
  <2>2. /\ End(r) /\ stage[r] = "inserting"
        /\ UNCHANGED <<github, attempts, clock, stored, loop, shown, calm, faults>>
    BY <1>6 DEF Insert
  <2>3. /\ \A i \in Job : status'[i] # "fresh" => ref'[i] \in Commit
        /\ \A i \in Job : status[i] # "fresh" => status'[i] # "fresh"
    BY <2>1, <2>2
  <2>4. TypeOK'
    BY <2>1, <2>2 DEF End, github, stored, loop, Status
  <2> QED
    BY <2>2, <2>3, <2>4 DEF End, github, stored, loop
<1>7. CASE RefindNone(r)
  BY <1>7 DEF RefindNone, End, Disturb, github, rows, stored, loop
<1>8. CASE RequestFails(r)
  BY <1>8 DEF RequestFails, Fault, End, Disturb, github, rows, stored, loop
<1> QED
  BY <1>1, <1>2, <1>3, <1>4, <1>5, <1>6, <1>7, <1>8 DEF Ask

\* The steps that settle or move a row leave its commit, and no row becomes
\* fresh again.
LEMMA TypedClocks ==
    ASSUME Typed, NEW j \in Job, BackoffEnds(j) \/ LeaseEnds(j) PROVE Typed'
<1> USE DEF Typed, TypeOK, RefInv, Status, github, asked, stored, loop
<1>1. CASE BackoffEnds(j)
  BY <1>1 DEF BackoffEnds
<1>2. CASE LeaseEnds(j)
  BY <1>2 DEF LeaseEnds
<1> QED
  BY <1>1, <1>2

LEMMA TypedClaim ==
    ASSUME Typed, NEW w \in Worker, Claim(w) \/ PoisonRow(w) PROVE Typed'
<1> USE IngestAssumption
    DEF Typed, TypeOK, RefInv, Status, Phase, github, asked, stored
<1>1. CASE Claim(w)
  <2>1. PICK j \in Job :
          /\ status[j] = "ready" /\ attempts[j] < MaxAttempts
          /\ status' = [status EXCEPT ![j] = "processing"]
          /\ attempts' = [attempts EXCEPT ![j] = attempts[j] + 1]
          /\ job' = [job EXCEPT ![w] = j]
          /\ delivery' = [delivery EXCEPT ![w] = attempts[j] + 1]
          /\ calm' = calm \ {Repo[ref[j]]} \/ calm' = calm
    <3>1. PICK j \in Job :
            /\ status[j] = "ready" /\ attempts[j] < MaxAttempts
            /\ status' = [status EXCEPT ![j] = "processing"]
            /\ attempts' = [attempts EXCEPT ![j] = attempts[j] + 1]
            /\ job' = [job EXCEPT ![w] = j]
            /\ delivery' = [delivery EXCEPT ![w] = attempts[j] + 1]
            /\ IF Overtaking(j) THEN Disturb(Repo[ref[j]]) ELSE UNCHANGED calm
      BY <1>1 DEF Claim
    <3>2. calm' = calm \ {Repo[ref[j]]} \/ calm' = calm
      BY <3>1 DEF Disturb
    <3> QED
      BY <3>1, <3>2
  <2>2. /\ pc' = [pc EXCEPT ![w] = "reading"]
        /\ UNCHANGED <<github, asked, ref, due, clock, stored, hits, shown, faults>>
    BY <1>1 DEF Claim, Step
  <2>3. attempts[j] + 1 \in 0 .. MaxAttempts
    BY <2>1
  <2>4. TypeOK'
    BY <2>1, <2>2, <2>3
  <2>5. \A i \in Job : status'[i] # "fresh" => status[i] # "fresh"
    BY <2>1
  <2>6. \A v \in Worker : IF pc'[v] = "idle" THEN job'[v] = NoJob
                          ELSE job'[v] \in Job /\ status'[job'[v]] # "fresh"
    BY <2>1, <2>2
  <2> QED
    BY <2>2, <2>4, <2>5, <2>6
<1>2. CASE PoisonRow(w)
  BY <1>2 DEF PoisonRow, Disturb, loop
<1> QED
  BY <1>1, <1>2

\* The steps of the handler that touch nothing but the program counter.
LEMMA TypedMoves ==
    ASSUME Typed, NEW w \in Worker, Unchanged(w) \/ Changed(w)
    PROVE  Typed'
  BY DEF Typed, TypeOK, RefInv, Phase, Unchanged, Changed, Step, At, github, asked, rows,
         stored

LEMMA TypedReadCache ==
    ASSUME Typed, NEW w \in Worker, ReadCache(w) PROVE Typed'
<1> DEFINE S == DOMAIN cache \cap Range(TreeOf(w))
<1>1. Restrict(cache, S) \in Cache
  <2>1. PICK T \in SUBSET Content : cache \in [T -> Fragment \cup {Corrupt}]
    BY DEF Typed, TypeOK, Cache
  <2>2. S \in SUBSET T
    BY <2>1
  <2> HIDE DEF S
  <2>3. Restrict(cache, S) \in [S -> Fragment \cup {Corrupt}]
    BY <2>1, <2>2 DEF Restrict
  <2> QED
    BY <2>1, <2>2, <2>3 DEF Cache
<1>2. hits' = [hits EXCEPT ![w] = Restrict(cache, S)]
  BY DEF ReadCache
<1> HIDE DEF S
<1>3. hits' \in [Worker -> Cache]
  BY <1>1, <1>2 DEF Typed, TypeOK
<1> QED
  BY <1>3 DEF ReadCache, Typed, TypeOK, RefInv, Phase, Step, At, github, asked, rows, stored

LEMMA TypedParse ==
    ASSUME Typed, NEW w \in Worker, ParseAndPut(w) PROVE Typed'
<1> DEFINE new == ToCache(TreeOf(w), hits[w])
           S == DOMAIN cache \cup DOMAIN new
<1>1. CommitOf(w) \in Commit
  BY AtCommit DEF ParseAndPut, At
<1>2. DOMAIN new \subseteq Content /\ \A x \in DOMAIN new : new[x] \in Fragment
  BY <1>1, ToCacheTyped DEF TreeOf
<1>3. cache' = [x \in S |-> IF x \in DOMAIN cache THEN cache[x] ELSE new[x]]
  BY DEF ParseAndPut
<1>4. PICK T \in SUBSET Content : cache \in [T -> Fragment \cup {Corrupt}]
  BY DEF Typed, TypeOK, Cache
<1> HIDE DEF new
<1>5. S \in SUBSET Content
  BY <1>2, <1>4
<1>6. cache' \in [S -> Fragment \cup {Corrupt}]
  BY <1>2, <1>3, <1>4
<1>7. cache' \in Cache
  BY <1>5, <1>6 DEF Cache
<1> QED
  BY <1>7 DEF ParseAndPut, Typed, TypeOK, RefInv, Phase, Step, At, github, asked, rows

LEMMA TypedReplace ==
    ASSUME Typed, NEW w \in Worker, Replace(w) PROVE Typed'
<1>1. CommitOf(w) \in Commit /\ ProjectOf(w) \in Project
  BY AtCommit DEF Replace, At
<1>2. FilesOf(TreeOf(w), hits[w]) \in Files
  BY <1>1, FilesTyped DEF TreeOf, Typed, TypeOK
<1>3. graph' = [graph EXCEPT ![ProjectOf(w)] = FilesOf(TreeOf(w), hits[w])]
  BY DEF Replace
<1>4. graph' \in [Project -> Files]
  BY <1>1, <1>2, <1>3 DEF Typed, TypeOK
<1>5. shown' \in [Project -> Commit \cup {NoCommit}]
  BY <1>1 DEF Replace, Typed, TypeOK
<1> QED
  BY <1>4, <1>5 DEF Replace, Typed, TypeOK, RefInv, Phase, Step, At, github, asked, rows

LEMMA TypedSettles ==
    ASSUME Typed, NEW w \in Worker,
           Ack(w) \/ TooLarge(w) \/ HandlerFails(w) \/ Crash(w)
    PROVE  Typed'
<1>1. pc[w] # "idle" /\ job[w] \in Job
  BY AtCommit DEF Ack, TooLarge, HandlerFails, Crash, At
<1>2. Failed(w) \in Status /\ Failed(w) # "fresh"
  BY <1>1, IngestAssumption DEF Failed, Typed, TypeOK, RefInv, Status
<1>3. \E s \in Status : s # "fresh" /\ status' = [status EXCEPT ![job[w]] = s]
  <2>1. CASE Ack(w)
    BY <2>1 DEF Ack, Status
  <2>2. CASE TooLarge(w) \/ HandlerFails(w)
    BY <1>2, <2>2 DEF TooLarge, HandlerFails, Settle
  <2>3. CASE Crash(w)
    BY <1>1, <2>3 DEF Crash, rows, Typed, TypeOK, RefInv
  <2> QED
    BY <2>1, <2>2, <2>3
<1>4. /\ Release(w) /\ UNCHANGED <<github, asked, ref, due, attempts, clock, stored, shown>>
      /\ faults' \in Nat /\ calm' \subseteq calm
  BY DEF Ack, TooLarge, HandlerFails, Crash, Settle, Disturb, Fault, rows, Typed, TypeOK
<1> QED
  BY <1>1, <1>3, <1>4, EmptyTyped, IngestAssumption
     DEF Release, Step, github, asked, stored, Typed, TypeOK, RefInv, Phase

LEMMA TypedNext == Typed /\ [Next]_vars => Typed'
<1> SUFFICES ASSUME Typed, [Next]_vars PROVE Typed'
  OBVIOUS
<1>1. CASE UNCHANGED vars
  BY <1>1 DEF vars, github, asked, rows, stored, loop, Typed, TypeOK, RefInv
<1> QED
  BY <1>1, TypedPush, TypedFirstScan, TypedAsk, TypedClocks, TypedClaim, TypedMoves,
     TypedReadCache, TypedParse, TypedReplace, TypedSettles DEF Next, Handle

\* Type correctness, and that every worker at work holds a row with a commit.
LEMMA TypedAlways == Spec => []Typed
  BY TypedInit, TypedNext, PTL DEF Spec

\* Type correctness of the requests, the job rows, the workers, the cache and the
\* graphs.
THEOREM TypeCorrect == Spec => []TypeOK
<1>1. Typed => TypeOK
  BY DEF Typed
<1> QED
  BY <1>1, TypedAlways, PTL

-----------------------------------------------------------------------------
(* The cache.  Its first writer wins and workers overlap, but whoever      *)
(* writes, a fragment was parsed from a file of the content that is its    *)
(* key.                                                                    *)

\* What one file of content x yields, wherever the file stood.
ParseOf(x) == {f \in Fragment : f.content = x /\ Stood(f.path, x)}

Good(h) == \A x \in DOMAIN h : h[x] = Corrupt \/ h[x] \in ParseOf(x)

CacheInv == Good(cache) /\ \A w \in Worker : Good(hits[w])

LEMMA FragmentGood ==
    ASSUME NEW c \in Commit, NEW h \in Cache, Good(h), NEW q \in DOMAIN Tree[c]
    PROVE  FragmentOf(Tree[c], h, q) \in ParseOf(Tree[c][q])
<1>1. q \in Paths /\ Tree[c][q] \in Content
  BY TreeFacts
<1>2. CASE Valid(h, Tree[c][q])
  BY <1>2 DEF Valid, Good, FragmentOf
<1>3. CASE ~Valid(h, Tree[c][q])
  BY <1>1, <1>3 DEF FragmentOf, Fragment, ParseOf, Stood
<1> QED
  BY <1>2, <1>3

\* What the cache gains in a step was parsed from a tree; the rest stays.
LEMMA CacheGrows ==
    ASSUME Typed, CacheInv, NEW w \in Worker, ParseAndPut(w)
    PROVE  Good(cache')
<1> DEFINE new == ToCache(TreeOf(w), hits[w])
           S == DOMAIN cache \cup DOMAIN new
<1>1. CommitOf(w) \in Commit
  BY AtCommit DEF ParseAndPut, At
<1>2. \A x \in DOMAIN new : new[x] \in ParseOf(x)
  BY <1>1, ToCacheTyped DEF TreeOf, ParseOf, Stood
<1>3. cache' = [x \in S |-> IF x \in DOMAIN cache THEN cache[x] ELSE new[x]]
  BY DEF ParseAndPut
<1>4. Good(cache)
  BY DEF CacheInv
<1> HIDE DEF new
<1> QED
  BY <1>2, <1>3, <1>4 DEF Good

\* The other steps leave the cache alone.
LEMMA CacheStays ==
    ASSUME [Next]_vars
    PROVE  UNCHANGED cache \/ \E w \in Worker : ParseAndPut(w)
  BY DEF Next, Push, FirstScan, Ask, ResolveHead, Ignore, TakeTime, Coalesce, NoneActive,
         Insert, InsertTaken, RefindNone, RequestFails, BackoffEnds, LeaseEnds, Claim,
         PoisonRow, Handle, Unchanged, Changed, TooLarge, ReadCache, Replace, Ack,
         HandlerFails, Crash, Settle, stored, vars

\* What a worker read of the cache is kept until it lets its job go.
LEMMA HitsStay ==
    ASSUME [Next]_vars
    PROVE  UNCHANGED hits \/ \E w \in Worker : Release(w) \/ ReadCache(w)
  BY DEF Next, Push, FirstScan, Ask, ResolveHead, Ignore, TakeTime, Coalesce, NoneActive,
         Insert, InsertTaken, RefindNone, RequestFails, BackoffEnds, LeaseEnds, Claim,
         PoisonRow, Handle, Unchanged, Changed, TooLarge, ParseAndPut, Replace, Ack,
         HandlerFails, Crash, Settle, loop, vars

LEMMA CacheInit == Init => CacheInv
  BY DEF Init, CacheInv, Good

LEMMA CacheNext == ASSUME Typed, CacheInv, [Next]_vars PROVE CacheInv'
<1>1. Good(cache)'
  BY CacheStays, CacheGrows DEF CacheInv, Good
<1>2. ASSUME NEW v \in Worker PROVE Good(hits'[v])
  <2>1. CASE hits'[v] = hits[v]
    BY <2>1 DEF CacheInv
  <2>2. CASE hits'[v] = <<>>
    BY <2>2 DEF Good
  <2>3. CASE ReadCache(v)
    <3> DEFINE S == DOMAIN cache \cap Range(TreeOf(v))
    <3>1. hits'[v] = Restrict(cache, S)
      BY <2>3 DEF ReadCache, Typed, TypeOK
    <3>2. S \subseteq DOMAIN cache /\ Good(cache)
      BY DEF CacheInv
    <3> HIDE DEF S
    <3> QED
      BY <3>1, <3>2 DEF Restrict, Good
  <2>4. ASSUME NEW w \in Worker, Release(w) PROVE hits'[v] = hits[v] \/ hits'[v] = <<>>
    BY <2>4 DEF Release, Typed, TypeOK
  <2>5. ASSUME NEW w \in Worker, ReadCache(w) PROVE hits'[v] = hits[v] \/ ReadCache(v)
    BY <2>5 DEF ReadCache, Typed, TypeOK
  <2> QED
    BY <2>1, <2>2, <2>3, <2>4, <2>5, HitsStay
<1> QED
  BY <1>1, <1>2 DEF CacheInv

-----------------------------------------------------------------------------
(* The stored graphs. *)

\* What the pipeline makes of the tree t of a commit.
OnlyMisplaced(f, t) ==
    /\ \A q \in DOMAIN f : Stood(q, f[q]) /\ f[q] \in Range(t)
    /\ \A q \in SolePaths : /\ q \in DOMAIN f <=> q \in DOMAIN t
                            /\ q \in DOMAIN t => f[q] = t[q]

LEMMA FilesMisplaced ==
    ASSUME NEW c \in Commit, NEW h \in Cache, Good(h)
    PROVE  OnlyMisplaced(FilesOf(Tree[c], h), Tree[c])
<1> DEFINE t == Tree[c]
           F(q) == FragmentOf(t, h, q)
           source(r) == {q \in DOMAIN t : F(q).path = r}
           P == {F(q).path : q \in DOMAIN t}
           f == FilesOf(t, h)
<1>1. \A q \in DOMAIN t : F(q) \in ParseOf(t[q])
  BY FragmentGood
<1>2. f = [r \in P |-> F(Max(source(r))).content]
  BY DEF FilesOf
<1>3. ASSUME NEW r \in P
      PROVE  /\ f[r] = F(Max(source(r))).content
             /\ Max(source(r)) \in source(r)
  <2>1. source(r) # {} /\ source(r) \in SUBSET DOMAIN t
    OBVIOUS
  <2>2. Max(source(r)) \in source(r)
    BY <2>1, LastOfFiles
  <2> HIDE DEF F, source
  <2> QED
    BY <1>2, <2>2
<1>4. DOMAIN f = P
  BY <1>2
<1> HIDE DEF F, f
<1>5. ASSUME NEW r \in DOMAIN f
      PROVE  \E q \in DOMAIN t : /\ f[r] = t[q] /\ Stood(r, t[q])
                                 /\ q \in source(r)
  <2>1. PICK m \in source(r) : f[r] = F(m).content
    BY <1>3, <1>4
  <2>2. F(m).content = t[m] /\ Stood(r, t[m])
    BY <1>1, <2>1 DEF ParseOf
  <2> QED
    BY <2>1, <2>2
<1>6. ASSUME NEW r \in DOMAIN f PROVE Stood(r, f[r]) /\ f[r] \in Range(t)
  BY <1>5 DEF Range
\* A file at such a path is parsed there, and so is nothing else.
<1>7. ASSUME NEW q \in SolePaths, NEW k \in DOMAIN t, Stood(q, t[k])
      PROVE  q = k
  <2>1. Stood(k, t[k]) /\ k \in Paths /\ t[k] \in Content
    BY TreeFacts DEF Stood
  <2> QED
    BY <1>7, <2>1 DEF SolePaths
<1>8. ASSUME NEW q \in SolePaths
      PROVE  /\ q \in DOMAIN f <=> q \in DOMAIN t
             /\ q \in DOMAIN t => f[q] = t[q]
  <2>1. ASSUME q \in DOMAIN t PROVE q \in DOMAIN f
    <3>1. Stood(F(q).path, t[q]) /\ F(q).path \in Paths
      BY <1>1, <2>1 DEF ParseOf, Fragment
    <3>2. Stood(q, t[q]) /\ t[q] \in Content
      BY <2>1, TreeFacts DEF Stood
    <3>3. F(q).path = q
      BY <3>1, <3>2 DEF SolePaths
    <3> QED
      BY <1>4, <2>1, <3>3
  <2>2. ASSUME q \in DOMAIN f PROVE q \in DOMAIN t /\ f[q] = t[q]
    BY <1>5, <1>7, <2>2
  <2> QED
    BY <2>1, <2>2
<1> QED
  BY <1>6, <1>8 DEF OnlyMisplaced, f

LEMMA GraphStays ==
    ASSUME [Next]_vars
    PROVE  UNCHANGED <<graph, shown>> \/ \E w \in Worker : Replace(w)
  BY DEF Next, Push, FirstScan, Ask, ResolveHead, Ignore, TakeTime, Coalesce, NoneActive,
         Insert, InsertTaken, RefindNone, RequestFails, BackoffEnds, LeaseEnds, Claim,
         PoisonRow, Handle, Unchanged, Changed, TooLarge, ReadCache, ParseAndPut, Ack,
         HandlerFails, Crash, Settle, stored, vars

LEMMA MisplacesNext ==
    ASSUME Typed, CacheInv, CacheOnlyMisplaces, [Next]_vars PROVE CacheOnlyMisplaces'
<1> USE DEF CacheOnlyMisplaces
<1>1. CASE UNCHANGED <<graph, shown>>
  BY <1>1
<1>2. ASSUME NEW w \in Worker, Replace(w) PROVE CacheOnlyMisplaces'
  <2>1. PICK c \in Commit, p \in Project :
           c = CommitOf(w) /\ p = ProjectOf(w) /\ Repo[c] = p
    BY <1>2, AtCommit DEF Replace, At, ProjectOf, CommitOf
  <2>2. PICK f : f = FilesOf(Tree[c], hits[w])
    OBVIOUS
  <2>3. OnlyMisplaced(f, Tree[c])
    BY <2>2, FilesMisplaced DEF Typed, TypeOK, CacheInv
  <2>4. graph' = [graph EXCEPT ![p] = f] /\ shown' = [shown EXCEPT ![p] = c]
    BY <1>2, <2>1, <2>2 DEF Replace, TreeOf
  <2>5. graph'[p] = f /\ shown'[p] = c
    BY <2>4 DEF Typed, TypeOK
  <2>6. \A q \in Project \ {p} : graph'[q] = graph[q] /\ shown'[q] = shown[q]
    BY <2>4 DEF Typed, TypeOK
  <2> QED
    BY <2>1, <2>3, <2>5, <2>6 DEF OnlyMisplaced
<1> QED
  BY <1>1, <1>2, GraphStays

LEMMA CacheAlways == Spec => [](Typed /\ CacheInv)
<1>1. Typed /\ CacheInv /\ [Next]_vars => (Typed /\ CacheInv)'
  BY TypedNext, CacheNext
<1> QED
  BY <1>1, TypedInit, CacheInit, PTL DEF Spec

\* However deliveries overlap, crash and come again, and whatever other commits
\* and projects left in the cache, a stored graph has only contents of its commit,
\* each at a path where it once stood, and is the commit's own at every path that
\* shares no content with another path.
THEOREM OnlyMisplaces == Spec => []CacheOnlyMisplaces
<1>1. Init => CacheOnlyMisplaces
  BY DEF Init, CacheOnlyMisplaces
<1>2. (Typed /\ CacheInv) /\ CacheOnlyMisplaces /\ [Next]_vars => CacheOnlyMisplaces'
  BY MisplacesNext
<1> QED
  BY <1>1, <1>2, CacheAlways, PTL DEF Spec

\* The same commit always gives the same graph.
SameCommitSameGraph ==
    \A p \in Project : shown[p] # NoCommit => graph[p] = Tree[shown[p]]

\* If no content is ever at two paths, a stored graph is that of its commit.
COROLLARY SameCommit ==
    ASSUME SolePaths = Paths PROVE Spec => []SameCommitSameGraph
<1>1. ASSUME Typed, CacheOnlyMisplaces, NEW p \in Project, shown[p] # NoCommit
      PROVE  graph[p] = Tree[shown[p]]
  <2>1. PICK c \in Commit : c = shown[p]
    BY <1>1 DEF Typed, TypeOK
  <2>2. PICK S \in SUBSET Paths : graph[p] \in [S -> Content]
    BY <1>1 DEF Typed, TypeOK, Files
  <2>3. \A q \in Paths : /\ q \in S <=> q \in DOMAIN Tree[c]
                         /\ q \in DOMAIN Tree[c] => graph[p][q] = Tree[c][q]
    BY <1>1, <2>1, <2>2 DEF CacheOnlyMisplaces
  <2>4. S = DOMAIN Tree[c]
    BY <2>2, <2>3, TreeFacts
  <2> QED
    BY <2>1, <2>2, <2>3, <2>4, TreeFacts
<1>2. Typed /\ CacheOnlyMisplaces => SameCommitSameGraph
  BY <1>1 DEF SameCommitSameGraph
<1> QED
  BY <1>2, TypedAlways, OnlyMisplaces, PTL

-----------------------------------------------------------------------------
(* The order of the deliveries.  First the rows and the requests: what was *)
(* ever retried or claimed has used an attempt, and no one has a time yet  *)
(* to come.                                                                *)

RowInv ==
    /\ \A j \in Job : /\ status[j] \in {"waiting", "processing"} => attempts[j] > 0
                      /\ status[j] = "fresh" => attempts[j] = 0
                      /\ status[j] # "fresh" => Repo[ref[j]] \in connected
                      /\ due[j] <= clock
    /\ \A w \in Worker : pc[w] # "idle" => attempts[job[w]] > 0
    /\ \A r \in Request : /\ moment[r] <= clock
                          /\ stage[r] \notin {"idle", "posted"} => target[r] \in connected

LEMMA RowInit == Init => RowInv
  BY DEF Init, RowInv

LEMMA RowAsk ==
    ASSUME Typed, RowInv,
           \/ \E c \in Commit : Push(c)
           \/ \E p \in Project : FirstScan(p)
           \/ \E r \in Request : Ask(r) \/ RequestFails(r)
    PROVE  RowInv'
<1> USE DEF RowInv, Typed, TypeOK
<1>1. ASSUME NEW c \in Commit, Push(c) PROVE RowInv'
  BY <1>1 DEF Push, rows, loop
<1>2. ASSUME NEW p \in Project, FirstScan(p) PROVE RowInv'
  BY <1>2 DEF FirstScan, rows, loop
<1>3. ASSUME NEW r \in Request, Ask(r) \/ RequestFails(r) PROVE RowInv'
  <2>1. CASE Insert(r)
    <3>1. PICK j \in Job : /\ status[j] = "fresh"
                           /\ status' = [status EXCEPT ![j] = "ready"]
                           /\ ref' = [ref EXCEPT ![j] = wanted[r]]
                           /\ due' = [due EXCEPT ![j] = moment[r]]
      BY <2>1 DEF Insert
    <3>2. /\ End(r) /\ Repo[wanted[r]] \in connected /\ connected' = connected
          /\ UNCHANGED <<attempts, clock, pc, job>>
      BY <2>1 DEF Insert, github, loop, RefInv
    <3>3. /\ status'[j] = "ready" /\ ref'[j] = wanted[r] /\ due'[j] = moment[r]
          /\ \A i \in Job \ {j} : /\ status'[i] = status[i] /\ ref'[i] = ref[i]
                                  /\ due'[i] = due[i]
      BY <3>1
    <3>4. \A i \in Job : /\ status'[i] \in {"waiting", "processing"} => attempts[i] > 0
                         /\ status'[i] = "fresh" => attempts[i] = 0
                         /\ status'[i] # "fresh" => Repo[ref'[i]] \in connected
                         /\ due'[i] <= clock
      BY <3>2, <3>3
    <3>5. \A q \in Request :
             /\ moment'[q] <= clock
             /\ stage'[q] \notin {"idle", "posted"} => target'[q] \in connected
      <4>1. /\ stage'[r] = "idle" /\ moment'[r] = 0
            /\ \A q \in Request \ {r} : /\ stage'[q] = stage[q] /\ target'[q] = target[q]
                                        /\ moment'[q] = moment[q]
        BY <3>2 DEF End
      <4>2. clock \in Nat
        OBVIOUS
      <4> QED
        BY <4>1, <4>2
    <3> QED
      BY <3>2, <3>4, <3>5
  <2>2. CASE ResolveHead(r) \/ TakeTime(r) \/ NoneActive(r) \/ InsertTaken(r)
    BY <2>2 DEF ResolveHead, TakeTime, NoneActive, InsertTaken, github, rows, loop
  <2>3. CASE Ignore(r) \/ Coalesce(r) \/ RefindNone(r) \/ RequestFails(r)
    <3>1. End(r) /\ UNCHANGED <<github, rows, clock, loop>>
      BY <2>3 DEF Ignore, Coalesce, RefindNone, RequestFails
    <3>2. /\ stage'[r] = "idle" /\ moment'[r] = 0
          /\ \A q \in Request \ {r} : /\ stage'[q] = stage[q] /\ target'[q] = target[q]
                                      /\ moment'[q] = moment[q]
      BY <3>1 DEF End
    <3>3. 0 <= clock
      OBVIOUS
    <3> QED
      BY <3>1, <3>2, <3>3 DEF github, rows, loop
  <2> QED
    BY <1>3, <2>1, <2>2, <2>3 DEF Ask
<1> QED
  BY <1>1, <1>2, <1>3

LEMMA RowClocks ==
    ASSUME Typed, RowInv, NEW j \in Job, BackoffEnds(j) \/ LeaseEnds(j) PROVE RowInv'
<1> USE DEF RowInv, Typed, TypeOK, github, asked, loop
<1>1. CASE BackoffEnds(j)
  BY <1>1 DEF BackoffEnds
<1>2. CASE LeaseEnds(j)
  BY <1>2 DEF LeaseEnds
<1> QED
  BY <1>1, <1>2

LEMMA RowWork ==
    ASSUME Typed, RowInv, NEW w \in Worker,
           Claim(w) \/ PoisonRow(w) \/ Handle(w) \/ HandlerFails(w) \/ Crash(w)
    PROVE  RowInv'
<1> USE DEF RowInv, Typed, TypeOK, github, asked
<1>1. CASE Claim(w)
  <2>1. PICK j \in Job : /\ status[j] = "ready"
                         /\ status' = [status EXCEPT ![j] = "processing"]
                         /\ attempts' = [attempts EXCEPT ![j] = attempts[j] + 1]
                         /\ job' = [job EXCEPT ![w] = j]
    BY <1>1 DEF Claim
  <2>2. /\ pc' = [pc EXCEPT ![w] = "reading"]
        /\ UNCHANGED <<github, asked, ref, due, clock>>
    BY <1>1 DEF Claim, Step
  <2>3. \A i \in Job : attempts'[i] >= attempts[i] /\ attempts'[i] \in Int
    BY <2>1
  <2>4. attempts'[j] > 0
    BY <2>1
  <2>5. \A v \in Worker : pc'[v] # "idle" => attempts'[job'[v]] > 0
    BY <2>1, <2>2, <2>3, <2>4 DEF RefInv
  <2> QED
    BY <2>1, <2>2, <2>4, <2>5
<1>2. CASE PoisonRow(w)
  BY <1>2 DEF PoisonRow, loop
<1>3. CASE Unchanged(w) \/ Changed(w) \/ ReadCache(w) \/ ParseAndPut(w) \/ Replace(w)
  BY <1>3 DEF Unchanged, Changed, ReadCache, ParseAndPut, Replace, Step, At, rows
<1>4. CASE Ack(w)
  BY <1>4 DEF Ack, Release, Step, At, RefInv
<1>5. CASE TooLarge(w) \/ HandlerFails(w)
  <2>1. /\ pc[w] # "idle" /\ status' = [status EXCEPT ![job[w]] = Failed(w)] /\ Release(w)
        /\ UNCHANGED <<github, asked, ref, due, attempts, clock>>
    BY <1>5 DEF TooLarge, HandlerFails, Settle, At
  <2>2. /\ attempts[job[w]] > 0 /\ job[w] \in Job /\ status[job[w]] # "fresh"
    BY <2>1 DEF RefInv
  <2>3. Failed(w) # "fresh"
    BY <2>2, IngestAssumption DEF Failed
  <2>4. /\ status'[job[w]] = Failed(w)
        /\ \A i \in Job \ {job[w]} : status'[i] = status[i]
    BY <2>1, <2>2
  <2>5. \A i \in Job : /\ status'[i] \in {"waiting", "processing"} => attempts[i] > 0
                       /\ status'[i] = "fresh" => attempts[i] = 0
                       /\ status'[i] # "fresh" => Repo[ref[i]] \in connected
    BY <2>2, <2>3, <2>4
  <2>6. /\ pc'[w] = "idle"
        /\ \A v \in Worker \ {w} : pc'[v] = pc[v] /\ job'[v] = job[v]
    BY <2>1 DEF Release, Step
  <2>7. UNCHANGED <<ref, due, attempts, clock, connected, stage, target, moment>>
    BY <2>1
  <2> QED
    BY <2>5, <2>6, <2>7
<1>6. CASE Crash(w)
  BY <1>6 DEF Crash, Release, Step, rows
<1> QED
  BY <1>1, <1>2, <1>3, <1>4, <1>5, <1>6 DEF Handle

LEMMA RowNext == ASSUME Typed, RowInv, [Next]_vars PROVE RowInv'
<1>1. CASE UNCHANGED vars
  BY <1>1 DEF vars, github, asked, rows, loop, RowInv
<1> QED
  BY <1>1, RowAsk, RowClocks, RowWork DEF Next

-----------------------------------------------------------------------------
(* A calm project.  One request carries its head, one worker works on it,  *)
(* and the jobs of its older commits are claimed before the head's: what   *)
(* is still to come, or else what is stored, is the head's.                *)

\* The requests of p that stand for a commit.
Carriers(p) == {r \in InFlight(p) : stage[r] # "resolving"}

OneCarrier(p)  == \A q, r \in Carriers(p) : q = r
CarriesHead(p) == \A r \in Carriers(p) : wanted[r] = head[p]

\* A row waiting for its first claim is due before a row still to be inserted.
DueBefore(p) ==
    \A r \in Carriers(p), i \in Queued(p) :
        stage[r] # "posted" /\ attempts[i] = 0 => due[i] < moment[r]

OneWorker(p)   == \A v, w \in AtWork(p) : v = w
HeldActive(p)  == \A w \in AtWork(p) : Active(job[w])
AckReflects(p) == \A w \in AtWork(p) : pc[w] = "acking" => Reflects(p, CommitOf(w))

\* So is it before a row of the head, which has not been claimed either.
OlderFirst(p) ==
    Carriers(p) = {} =>
        \A i, k \in Queued(p) :
            ref[i] # head[p] /\ attempts[i] = 0 /\ ref[k] = head[p]
                => attempts[k] = 0 /\ due[i] < due[k]

\* No older commit can be stored, unless it is claimed again.
NoOlder(p) ==
    /\ \A i \in Queued(p) : ref[i] # head[p] => attempts[i] > 0
    /\ \A w \in AtWork(p) : CommitOf(w) = head[p]

Follows(p) ==
    p \in connected /\ head[p] # NoCommit =>
        \/ InFlight(p) # {}
        \/ \E k \in Queued(p) : ref[k] = head[p]
        \/ Reflects(p, head[p]) /\ NoOlder(p)

Orderly(p) ==
    /\ OneCarrier(p) /\ CarriesHead(p) /\ DueBefore(p)
    /\ OneWorker(p) /\ HeldActive(p) /\ AckReflects(p)
    /\ OlderFirst(p) /\ Follows(p)

CalmInv == \A p \in calm : Orderly(p)

OrderInv == Typed /\ RowInv /\ CalmInv

LEMMA CalmInit == Init => CalmInv
  BY DEF Init, CalmInv

\* A step that leaves project p as it is, but for a worker that lets go of a job
\* or goes on to anything but the ack, and a request that goes on to enqueue.
SameFor(p) ==
    /\ head'[p] = head[p] /\ graph'[p] = graph[p] /\ shown'[p] = shown[p]
    /\ p \in connected' <=> p \in connected
    /\ InFlight(p)' = InFlight(p) /\ Queued(p)' = Queued(p)
    /\ AtWork(p)' \subseteq AtWork(p)
    /\ \A r \in InFlight(p) :
          /\ wanted'[r] = wanted[r] /\ moment'[r] = moment[r]
          /\ \/ stage'[r] = stage[r]
             \/ {stage[r], stage'[r]} \subseteq {"finding", "inserting", "refinding"}
    /\ \A j \in Queued(p) : /\ ref'[j] = ref[j] /\ attempts'[j] = attempts[j]
                            /\ due'[j] = due[j]
    /\ \A w \in AtWork(p)' : /\ job'[w] = job[w] /\ ref'[job[w]] = ref[job[w]]
                             /\ Active(job[w])' <=> Active(job[w])
                             /\ pc'[w] = pc[w] \/ pc'[w] # "acking"

LEMMA Frame ==
    ASSUME NEW p \in Project, Orderly(p), SameFor(p) PROVE Orderly(p)'
<1> USE DEF Orderly, SameFor
<1>1. Carriers(p)' = Carriers(p) /\ Carriers(p) \subseteq InFlight(p)
  BY DEF Carriers
<1>2. \A w \in AtWork(p)' : CommitOf(w)' = CommitOf(w) /\ (Active(job[w]))' = Active(job[w])
  BY DEF CommitOf, Active
<1>3. \A c : Reflects(p, c)' = Reflects(p, c)
  BY DEF Reflects
<1>4. OneCarrier(p)' /\ CarriesHead(p)'
  BY <1>1 DEF OneCarrier, CarriesHead
<1>5. DueBefore(p)'
  BY <1>1 DEF DueBefore
<1>6. OneWorker(p)'
  BY DEF OneWorker
<1>7. HeldActive(p)'
  BY <1>2 DEF HeldActive, Active
<1>8. AckReflects(p)'
  BY <1>2, <1>3 DEF AckReflects
<1>9. OlderFirst(p)'
  BY <1>1 DEF OlderFirst
<1>10. NoOlder(p) => NoOlder(p)'
  BY <1>2 DEF NoOlder
<1>11. Follows(p)'
  BY <1>3, <1>10 DEF Follows
<1> QED
  BY <1>4, <1>5, <1>6, <1>7, <1>8, <1>9, <1>11

\* A step of project p alone: of its requests, its rows and its workers.
StepOf(p) ==
    /\ \A q \in Project \ {p} :
          /\ head'[q] = head[q] /\ graph'[q] = graph[q] /\ shown'[q] = shown[q]
          /\ q \in connected' <=> q \in connected
    /\ \A r \in Request :
          \/ /\ stage'[r] = stage[r] /\ target'[r] = target[r]
             /\ wanted'[r] = wanted[r] /\ moment'[r] = moment[r]
          \/ target[r] \in {p, NoProject} /\ target'[r] \in {p, NoProject}
    /\ \A j \in Job :
          \/ /\ status'[j] = status[j] /\ ref'[j] = ref[j]
             /\ attempts'[j] = attempts[j] /\ due'[j] = due[j]
          \/ (status[j] = "fresh" \/ Repo[ref[j]] = p) /\ Repo[ref'[j]] = p
    /\ \A w \in Worker :
          \/ pc'[w] = pc[w] /\ job'[w] = job[w]
          \/ /\ job[w] = NoJob \/ Repo[ref[job[w]]] = p
             /\ job'[w] = NoJob \/ Repo[ref'[job'[w]]] = p
    /\ calm' \subseteq calm \cup {p}

LEMMA Elsewhere ==
    ASSUME Typed, NEW p \in Project, StepOf(p), NEW q \in Project \ {p}
    PROVE  SameFor(q)
<1> USE DEF StepOf
<1>1. InFlight(q)' = InFlight(q)
  BY IngestAssumption DEF InFlight
<1>2. \A r \in InFlight(q) : stage'[r] = stage[r] /\ wanted'[r] = wanted[r] /\ moment'[r] = moment[r]
  BY IngestAssumption DEF InFlight
<1>3. ASSUME NEW j \in Queued(q)
      PROVE  /\ status'[j] = status[j] /\ ref'[j] = ref[j]
             /\ attempts'[j] = attempts[j] /\ due'[j] = due[j]
  BY DEF Queued, Active
<1>4. Queued(q)' = Queued(q)
  BY DEF Queued, Active
<1>5. ASSUME NEW w \in Worker, job[w] # NoJob, Repo[ref[job[w]]] = q
      PROVE  /\ pc'[w] = pc[w] /\ job'[w] = job[w]
             /\ ref'[job[w]] = ref[job[w]] /\ status'[job[w]] = status[job[w]]
  <2>1. job[w] \in Job /\ status[job[w]] # "fresh"
    BY <1>5 DEF Typed, RefInv
  <2> QED
    BY <1>5, <2>1
<1>6. ASSUME NEW w \in Worker, w \in AtWork(q)' PROVE w \in AtWork(q)
  <2>1. job'[w] # NoJob /\ Repo[ref'[job'[w]]] = q
    BY <1>6 DEF AtWork
  <2>2. pc'[w] = pc[w] /\ job'[w] = job[w]
    BY <2>1
  <2>3. job[w] \in Job /\ status[job[w]] # "fresh"
    BY <2>1, <2>2 DEF Typed, RefInv
  <2>4. ref'[job[w]] = ref[job[w]]
    BY <2>1, <2>2, <2>3
  <2> QED
    BY <2>1, <2>2, <2>4 DEF AtWork
<1>7. \A w \in AtWork(q)' : w \in AtWork(q)
  BY <1>6 DEF AtWork
<1>8. \A w \in AtWork(q)' : /\ job'[w] = job[w] /\ ref'[job[w]] = ref[job[w]]
                            /\ pc'[w] = pc[w] /\ status'[job[w]] = status[job[w]]
  BY <1>5, <1>7 DEF AtWork
<1> QED
  BY <1>1, <1>2, <1>3, <1>4, <1>7, <1>8 DEF SameFor, Active

\* It is enough to look at the project a step is of.
LEMMA StepKeeps ==
    ASSUME OrderInv, NEW p \in Project, StepOf(p), p \in calm' => Orderly(p)'
    PROVE  CalmInv'
<1>1. ASSUME NEW q \in Project \ {p}, q \in calm' PROVE Orderly(q)'
  BY <1>1, Elsewhere, Frame DEF StepOf, OrderInv, CalmInv
<1>2. calm' \subseteq Project
  BY DEF StepOf, OrderInv, Typed, TypeOK
<1> QED
  BY <1>1, <1>2 DEF CalmInv

\* A request that comes to stand for the head: it is the only one under way, or
\* the project is calm no longer.
LEMMA BeginKeeps ==
    ASSUME Typed, CalmInv, NEW p \in Project, NEW r \in Request, Begin(r, p), p \in calm',
           InFlight(p)' = InFlight(p) \cup {r},
           stage'[r] = "posted", wanted'[r] = head'[p],
           UNCHANGED <<rows, graph, pc, job, shown>>
    PROVE  Orderly(p)'
<1>1. InFlight(p) \subseteq {r} /\ (Idle(p) \/ p \in calm)
  BY DEF Begin
<1>2. InFlight(p)' = {r}
  BY <1>1
<1>3. Carriers(p)' = {r}
  BY <1>2 DEF Carriers
<1>4. OneCarrier(p)' /\ CarriesHead(p)' /\ DueBefore(p)'
  BY <1>3 DEF OneCarrier, CarriesHead, DueBefore
<1>5. /\ Queued(p)' = Queued(p) /\ AtWork(p)' = AtWork(p)
      /\ \A w \in Worker : CommitOf(w)' = CommitOf(w) /\ pc'[w] = pc[w] /\ job'[w] = job[w]
      /\ \A j : (Active(j))' <=> Active(j)
      /\ \A c : Reflects(p, c)' <=> Reflects(p, c)
  BY DEF Queued, AtWork, Active, CommitOf, Reflects, rows
<1>6. OneWorker(p) /\ HeldActive(p) /\ AckReflects(p)
  <2>1. CASE Idle(p)
    BY <2>1 DEF Idle, OneWorker, HeldActive, AckReflects
  <2>2. CASE p \in calm
    BY <2>2 DEF CalmInv, Orderly
  <2> QED
    BY <1>1, <2>1, <2>2
<1>7. OneWorker(p)' /\ HeldActive(p)' /\ AckReflects(p)'
  BY <1>5, <1>6 DEF OneWorker, HeldActive, AckReflects, AtWork
<1>8. OlderFirst(p)' /\ Follows(p)'
  BY <1>2, <1>3 DEF OlderFirst, Follows
<1> QED
  BY <1>4, <1>7, <1>8 DEF Orderly

LEMMA CalmPush == ASSUME OrderInv, NEW c \in Commit, Push(c) PROVE CalmInv'
<1> USE DEF OrderInv
<1>1. PICK r \in Request : /\ stage[r] = "idle"
                           /\ stage' = [stage EXCEPT ![r] = "posted"]
                           /\ target' = [target EXCEPT ![r] = Repo[c]]
                           /\ wanted' = [wanted EXCEPT ![r] = c]
                           /\ Begin(r, Repo[c])
  BY DEF Push
<1>2. PICK p \in Project : p = Repo[c]
  BY IngestAssumption
<1>3. /\ head' = [head EXCEPT ![p] = c]
      /\ UNCHANGED <<connected, moment, rows, graph, pc, job, shown>>
  BY <1>2 DEF Push, stored, loop
<1>4. /\ stage'[r] = "posted" /\ target'[r] = p /\ wanted'[r] = c /\ head'[p] = c
      /\ target[r] = NoProject
      /\ \A q \in Request \ {r} : /\ stage'[q] = stage[q] /\ target'[q] = target[q]
                                  /\ wanted'[q] = wanted[q]
      /\ \A q \in Project \ {p} : head'[q] = head[q]
  BY <1>1, <1>2, <1>3 DEF Typed, TypeOK, RefInv
<1>5. calm' \subseteq calm \cup {p}
  BY <1>1, <1>2 DEF Begin
<1>6. StepOf(p)
  BY <1>3, <1>4, <1>5 DEF StepOf, rows
<1>7. InFlight(p)' = InFlight(p) \cup {r}
  BY <1>4 DEF InFlight
<1>8. p \in calm' => Orderly(p)'
  BY <1>1, <1>2, <1>3, <1>4, <1>7, BeginKeeps
<1> QED
  BY <1>6, <1>8, StepKeeps

LEMMA CalmResolveHead == ASSUME OrderInv, NEW r \in Request, ResolveHead(r) PROVE CalmInv'
<1> USE DEF OrderInv
<1>1. PICK p \in Project : p = target[r]
  BY DEF ResolveHead, Typed, RefInv
<1>2. /\ stage' = [stage EXCEPT ![r] = "posted"]
      /\ wanted' = [wanted EXCEPT ![r] = head[p]]
      /\ Begin(r, p)
      /\ UNCHANGED <<head, connected, target, moment, rows, graph, pc, job, shown>>
  BY <1>1 DEF ResolveHead, github, stored, loop
<1>3. /\ stage'[r] = "posted" /\ wanted'[r] = head'[p]
      /\ \A q \in Request \ {r} : stage'[q] = stage[q] /\ wanted'[q] = wanted[q]
  BY <1>2 DEF Typed, TypeOK
<1>4. calm' \subseteq calm \cup {p}
  BY <1>2 DEF Begin
<1>5. StepOf(p)
  BY <1>1, <1>2, <1>3, <1>4 DEF StepOf, rows
<1>6. InFlight(p)' = InFlight(p) \cup {r}
  BY <1>1, <1>2 DEF InFlight
<1>7. p \in calm' => Orderly(p)'
  BY <1>2, <1>3, <1>6, BeginKeeps
<1> QED
  BY <1>5, <1>7, StepKeeps

\* A first scan has yet to ask for the head.
LEMMA CalmFirstScan == ASSUME OrderInv, NEW p \in Project, FirstScan(p) PROVE CalmInv'
<1> USE DEF OrderInv
<1>1. PICK r \in Request : /\ stage[r] = "idle"
                           /\ stage' = [stage EXCEPT ![r] = "resolving"]
                           /\ target' = [target EXCEPT ![r] = p]
  BY DEF FirstScan
<1>2. /\ connected' = connected \cup {p}
      /\ UNCHANGED <<head, wanted, moment, rows, graph, pc, job, shown, calm>>
  BY DEF FirstScan, stored, loop
<1>3. /\ stage'[r] = "resolving" /\ target'[r] = p /\ target[r] = NoProject
      /\ \A q \in Request \ {r} : stage'[q] = stage[q] /\ target'[q] = target[q]
  BY <1>1 DEF Typed, TypeOK, RefInv
<1>4. StepOf(p)
  BY <1>2, <1>3 DEF StepOf, rows
<1>5. ASSUME p \in calm PROVE Orderly(p)'
  <2>1. Orderly(p)
    BY <1>5 DEF CalmInv
  <2>2. InFlight(p)' = InFlight(p) \cup {r}
    BY <1>3 DEF InFlight
  <2>3. Carriers(p)' = Carriers(p) /\ \A q \in Carriers(p) : stage'[q] = stage[q]
    BY <1>3, IngestAssumption DEF Carriers, InFlight
  <2>4. /\ Queued(p)' = Queued(p) /\ AtWork(p)' = AtWork(p)
        /\ \A w : CommitOf(w)' = CommitOf(w)
        /\ \A j : (Active(j))' <=> Active(j)
        /\ \A c : Reflects(p, c)' <=> Reflects(p, c)
    BY <1>2 DEF Queued, AtWork, Active, CommitOf, Reflects, rows
  <2>5. OneCarrier(p)' /\ CarriesHead(p)' /\ DueBefore(p)'
    BY <1>2, <2>1, <2>3, <2>4 DEF Orderly, OneCarrier, CarriesHead, DueBefore, rows
  <2>6. OneWorker(p)' /\ HeldActive(p)' /\ AckReflects(p)'
    BY <1>2, <2>1, <2>4 DEF Orderly, OneWorker, HeldActive, AckReflects
  <2>7. OlderFirst(p)' /\ Follows(p)'
    BY <1>2, <2>1, <2>2, <2>3, <2>4 DEF Orderly, OlderFirst, Follows, rows
  <2> QED
    BY <2>5, <2>6, <2>7 DEF Orderly
<1> QED
  BY <1>2, <1>4, <1>5, StepKeeps

\* A request ends, or goes on, and nothing else happens.
LEMMA EndFacts ==
    ASSUME Typed, NEW r \in Request, End(r)
    PROVE  /\ stage'[r] = "idle" /\ target'[r] = NoProject
           /\ \A q \in Request \ {r} :
                 /\ stage'[q] = stage[q] /\ target'[q] = target[q]
                 /\ wanted'[q] = wanted[q] /\ moment'[q] = moment[q]
           /\ \A p \in Project : InFlight(p)' = InFlight(p) \ {r}
<1>1. /\ stage'[r] = "idle" /\ target'[r] = NoProject
      /\ \A q \in Request \ {r} :
            /\ stage'[q] = stage[q] /\ target'[q] = target[q]
            /\ wanted'[q] = wanted[q] /\ moment'[q] = moment[q]
  BY DEF End, Typed, TypeOK
<1> QED
  BY <1>1, IngestAssumption DEF InFlight

\* A request that ends without a row, of a project with nothing to show.
LEMMA CalmIgnore == ASSUME OrderInv, NEW r \in Request, Ignore(r) PROVE CalmInv'
<1> USE DEF OrderInv
<1>1. PICK p \in Project : p = target[r]
  BY DEF Ignore, Typed, RefInv
<1>2. /\ End(r)
      /\ UNCHANGED <<head, connected, rows, graph, pc, job, shown, calm>>
  BY DEF Ignore, github, stored, loop
<1>3. StepOf(p)
  BY <1>1, <1>2, EndFacts DEF StepOf, rows
<1>4. ASSUME p \in calm PROVE Orderly(p)'
  <2>1. Orderly(p)
    BY <1>4 DEF CalmInv
  <2>2. \/ stage[r] = "resolving" /\ head[p] = NoCommit
        \/ stage[r] = "posted" /\ p \notin connected
    BY <1>1 DEF Ignore
  <2>3. InFlight(p)' = InFlight(p) \ {r}
    BY <1>2, EndFacts
  <2>4. /\ Carriers(p)' = Carriers(p) \ {r}
        /\ \A q \in Carriers(p)' : /\ stage'[q] = stage[q] /\ wanted'[q] = wanted[q]
                                   /\ moment'[q] = moment[q]
    BY <1>2, <2>3, EndFacts DEF Carriers, InFlight
  <2>5. /\ Queued(p)' = Queued(p) /\ AtWork(p)' = AtWork(p)
        /\ \A w : CommitOf(w)' = CommitOf(w)
        /\ \A j : (Active(j))' <=> Active(j)
        /\ \A c : Reflects(p, c)' <=> Reflects(p, c)
    BY <1>2 DEF Queued, AtWork, Active, CommitOf, Reflects, rows
  <2>6. OneCarrier(p)' /\ CarriesHead(p)' /\ DueBefore(p)'
    BY <1>2, <2>1, <2>4, <2>5 DEF Orderly, OneCarrier, CarriesHead, DueBefore, rows
  <2>7. OneWorker(p)' /\ HeldActive(p)' /\ AckReflects(p)'
    BY <1>2, <2>1, <2>5 DEF Orderly, OneWorker, HeldActive, AckReflects
  <2>8. OlderFirst(p)'
    <3>1. CASE stage[r] = "resolving"
      <4>1. Carriers(p)' = Carriers(p)
        BY <2>4, <3>1 DEF Carriers
      <4> QED
        BY <1>2, <2>1, <2>5, <4>1 DEF Orderly, OlderFirst, rows
    <3>2. CASE p \notin connected
      <4>1. Queued(p) = {}
        BY <3>2 DEF Queued, Active, RowInv
      <4> QED
        BY <2>5, <4>1 DEF OlderFirst
    <3> QED
      BY <2>2, <3>1, <3>2
  <2>9. Follows(p)'
    <3>1. stage[r] = "resolving" \/ p \notin connected
      BY <2>2
    <3>2. ASSUME p \in connected, head[p] # NoCommit PROVE FALSE
      BY <2>2, <3>2
    <3> QED
      BY <1>2, <3>2 DEF Follows
  <2> QED
    BY <2>6, <2>7, <2>8, <2>9 DEF Orderly
<1> QED
  BY <1>2, <1>3, <1>4, StepKeeps

\* What is due was due before the time a request takes.
LEMMA CalmTakeTime == ASSUME OrderInv, NEW r \in Request, TakeTime(r) PROVE CalmInv'
<1> USE DEF OrderInv
<1>1. PICK p \in Project : p = target[r]
  BY DEF TakeTime, Typed, RefInv
<1>2. /\ stage[r] = "posted" /\ stage' = [stage EXCEPT ![r] = "finding"]
      /\ moment' = [moment EXCEPT ![r] = clock + 1]
      /\ UNCHANGED <<head, connected, target, wanted, rows, graph, pc, job, shown, calm>>
  BY DEF TakeTime, github, stored, loop
<1>3. /\ stage'[r] = "finding" /\ moment'[r] = clock + 1
      /\ \A q \in Request \ {r} : stage'[q] = stage[q] /\ moment'[q] = moment[q]
  BY <1>2 DEF Typed, TypeOK
<1>4. StepOf(p)
  BY <1>1, <1>2, <1>3 DEF StepOf, rows
<1>5. ASSUME p \in calm PROVE Orderly(p)'
  <2>1. Orderly(p)
    BY <1>5 DEF CalmInv
  <2>2. InFlight(p)' = InFlight(p)
    BY <1>2 DEF InFlight
  <2>3. Carriers(p)' = Carriers(p) /\ r \in Carriers(p)
    BY <1>1, <1>2, <1>3, <2>2 DEF Carriers, InFlight
  <2>4. /\ Queued(p)' = Queued(p) /\ AtWork(p)' = AtWork(p)
        /\ \A w : CommitOf(w)' = CommitOf(w)
        /\ \A j : (Active(j))' <=> Active(j)
        /\ \A c : Reflects(p, c)' <=> Reflects(p, c)
    BY <1>2 DEF Queued, AtWork, Active, CommitOf, Reflects, rows
  <2>5. OneCarrier(p)' /\ CarriesHead(p)'
    BY <1>2, <2>1, <2>3 DEF Orderly, OneCarrier, CarriesHead
  <2>6. DueBefore(p)'
    <3>1. \A q \in Carriers(p) : q = r
      BY <2>1, <2>3 DEF Orderly, OneCarrier
    <3>2. \A i \in Queued(p) : due[i] < clock + 1
      BY DEF Queued, RowInv, Typed, TypeOK
    <3> QED
      BY <1>2, <1>3, <2>3, <2>4, <3>1, <3>2 DEF DueBefore, rows
  <2>7. OneWorker(p)' /\ HeldActive(p)' /\ AckReflects(p)'
    BY <1>2, <2>1, <2>4 DEF Orderly, OneWorker, HeldActive, AckReflects
  <2>8. OlderFirst(p)' /\ Follows(p)'
    BY <2>2, <2>3 DEF OlderFirst, Follows, Carriers
  <2> QED
    BY <2>5, <2>6, <2>7, <2>8 DEF Orderly
<1> QED
  BY <1>2, <1>4, <1>5, StepKeeps

\* Coalesced without a job of another commit: the head's own job is to come.
LEMMA CalmCoalesce == ASSUME OrderInv, NEW r \in Request, Coalesce(r) PROVE CalmInv'
<1> USE DEF OrderInv
<1>1. PICK p \in Project : p = target[r]
  BY DEF Coalesce, Typed, RefInv
<1>2. /\ End(r) /\ stage[r] \in {"finding", "refinding"} /\ Same(r) # {}
      /\ UNCHANGED <<head, connected, rows, graph, pc, job, shown>>
  BY DEF Coalesce, github, stored, loop
<1>3. IF Queued(p) \subseteq Same(r) THEN calm' = calm ELSE calm' = calm \ {p}
  BY <1>1 DEF Coalesce, Disturb
<1>4. StepOf(p)
  BY <1>1, <1>2, <1>3, EndFacts DEF StepOf, rows
<1>5. ASSUME p \in calm' PROVE Orderly(p)'
  <2>1. Orderly(p) /\ Queued(p) \subseteq Same(r)
    BY <1>3, <1>5 DEF CalmInv
  <2>2. InFlight(p)' = InFlight(p) \ {r}
    BY <1>2, EndFacts
  <2>3. r \in Carriers(p) /\ Carriers(p)' = {}
    <3>1. r \in Carriers(p)
      BY <1>1, <1>2 DEF Carriers, InFlight
    <3>2. \A q \in Carriers(p) : q = r
      BY <2>1, <3>1 DEF Orderly, OneCarrier
    <3>3. \A q \in InFlight(p) \ {r} : stage'[q] = stage[q]
      BY <1>2, EndFacts DEF InFlight
    <3> QED
      BY <2>2, <3>1, <3>2, <3>3 DEF Carriers
  <2>4. /\ Queued(p)' = Queued(p) /\ AtWork(p)' = AtWork(p)
        /\ \A w : CommitOf(w)' = CommitOf(w)
        /\ \A j : (Active(j))' <=> Active(j)
        /\ \A c : Reflects(p, c)' <=> Reflects(p, c)
    BY <1>2 DEF Queued, AtWork, Active, CommitOf, Reflects, rows
  <2>5. OneCarrier(p)' /\ CarriesHead(p)' /\ DueBefore(p)'
    BY <2>3 DEF OneCarrier, CarriesHead, DueBefore
  <2>6. OneWorker(p)' /\ HeldActive(p)' /\ AckReflects(p)'
    BY <1>2, <2>1, <2>4 DEF Orderly, OneWorker, HeldActive, AckReflects
  <2>7. wanted[r] = head[p] /\ Repo[wanted[r]] = p
    BY <1>1, <1>2, <2>1, <2>3 DEF Orderly, CarriesHead, Typed, RefInv
  <2>8. \A i \in Same(r) : i \in Queued(p) /\ ref[i] = head[p]
    BY <2>7 DEF Same, Queued
  <2>9. OlderFirst(p)'
    BY <1>2, <2>1, <2>4, <2>8 DEF OlderFirst, rows
  <2>10. Follows(p)'
    BY <1>2, <2>4, <2>8 DEF Follows, rows
  <2> QED
    BY <2>5, <2>6, <2>9, <2>10 DEF Orderly
<1> QED
  BY <1>4, <1>5, StepKeeps

\* The head's row is due after every row that was not claimed yet.
LEMMA CalmInsert == ASSUME OrderInv, NEW r \in Request, Insert(r) PROVE CalmInv'
<1> USE DEF OrderInv
<1>1. PICK p \in Project : p = target[r]
  BY DEF Insert, Typed, RefInv
<1>2. PICK j \in Job : /\ status[j] = "fresh"
                       /\ status' = [status EXCEPT ![j] = "ready"]
                       /\ ref' = [ref EXCEPT ![j] = wanted[r]]
                       /\ due' = [due EXCEPT ![j] = moment[r]]
  BY DEF Insert
<1>3. /\ End(r) /\ stage[r] = "inserting" /\ Same(r) = {}
      /\ UNCHANGED <<head, connected, attempts, graph, pc, job, shown, calm>>
  BY DEF Insert, github, stored, loop
<1>4. /\ status'[j] = "ready" /\ ref'[j] = wanted[r] /\ due'[j] = moment[r]
      /\ attempts[j] = 0
      /\ \A i \in Job \ {j} : /\ status'[i] = status[i] /\ ref'[i] = ref[i]
                              /\ due'[i] = due[i]
  BY <1>2 DEF Typed, TypeOK, RowInv
<1>5. Repo[wanted[r]] = p
  BY <1>1, <1>3 DEF Typed, RefInv
<1>6. StepOf(p)
  BY <1>1, <1>2, <1>3, <1>4, <1>5, EndFacts DEF StepOf
<1>7. ASSUME p \in calm PROVE Orderly(p)'
  <2>1. Orderly(p)
    BY <1>7 DEF CalmInv
  <2>2. InFlight(p)' = InFlight(p) \ {r}
    BY <1>3, EndFacts
  <2>3. r \in Carriers(p) /\ Carriers(p)' = {}
    <3>1. r \in Carriers(p)
      BY <1>1, <1>3 DEF Carriers, InFlight
    <3>2. \A q \in Carriers(p) : q = r
      BY <2>1, <3>1 DEF Orderly, OneCarrier
    <3>3. \A q \in InFlight(p) \ {r} : stage'[q] = stage[q]
      BY <1>3, EndFacts DEF InFlight
    <3> QED
      BY <2>2, <3>1, <3>2, <3>3 DEF Carriers
  <2>4. OneCarrier(p)' /\ CarriesHead(p)' /\ DueBefore(p)'
    BY <2>3 DEF OneCarrier, CarriesHead, DueBefore
  <2>5. \A w \in Worker : job[w] # NoJob => job[w] \in Job \ {j}
    BY <1>2 DEF Typed, RefInv
  <2>6. /\ AtWork(p)' = AtWork(p)
        /\ \A w \in AtWork(p) : /\ CommitOf(w)' = CommitOf(w)
                                /\ (Active(job[w]))' <=> Active(job[w])
        /\ \A c : Reflects(p, c)' <=> Reflects(p, c)
    BY <1>3, <1>4, <2>5 DEF AtWork, Active, CommitOf, Reflects
  <2>7. OneWorker(p)' /\ HeldActive(p)' /\ AckReflects(p)'
    BY <1>3, <2>1, <2>6 DEF Orderly, OneWorker, HeldActive, AckReflects, Active
  <2>8. wanted[r] = head[p]
    BY <2>1, <2>3 DEF Orderly, CarriesHead
  <2>9. Queued(p)' = Queued(p) \cup {j} /\ j \notin Queued(p)
    BY <1>2, <1>4, <1>5 DEF Queued, Active
  <2>10. \A i \in Queued(p) : ref[i] # head[p]
    BY <1>3, <2>8 DEF Same, Queued
  <2>11. \A i \in Queued(p) : attempts[i] = 0 => due[i] < moment[r]
    BY <1>3, <2>1, <2>3 DEF Orderly, DueBefore
  <2>12. OlderFirst(p)'
    <3> SUFFICES ASSUME NEW i \in Queued(p)', NEW k \in Queued(p)', ref'[i] # head[p],
                        attempts[i] = 0, ref'[k] = head[p]
                 PROVE  attempts[k] = 0 /\ due'[i] < due'[k]
      BY <1>3 DEF OlderFirst
    <3>1. k = j /\ i \in Queued(p) /\ i # j
      BY <1>4, <2>8, <2>9, <2>10 DEF Queued
    <3> QED
      BY <1>4, <2>11, <3>1 DEF Queued
  <2>13. Follows(p)'
    BY <1>3, <1>4, <2>8, <2>9 DEF Follows
  <2> QED
    BY <2>4, <2>7, <2>12, <2>13 DEF Orderly
<1> QED
  BY <1>3, <1>6, <1>7, StepKeeps

\* A request goes on to insert, or fails.
LEMMA CalmGoesOn ==
    ASSUME OrderInv, NEW r \in Request,
           NoneActive(r) \/ InsertTaken(r) \/ RefindNone(r) \/ RequestFails(r)
    PROVE  CalmInv'
<1> USE DEF OrderInv
<1>1. PICK p \in Project : p = target[r]
  BY DEF NoneActive, InsertTaken, RefindNone, RequestFails, Typed, RefInv
<1>2. CASE NoneActive(r) \/ InsertTaken(r)
  <2>1. PICK s \in {"inserting", "refinding"} : stage' = [stage EXCEPT ![r] = s]
    BY <1>2 DEF NoneActive, InsertTaken
  <2>2. /\ stage[r] \in {"finding", "inserting"}
        /\ UNCHANGED <<head, connected, target, wanted, moment, rows, graph, pc, job,
                       shown, calm>>
    BY <1>2 DEF NoneActive, InsertTaken, github, stored, loop
  <2>3. /\ stage'[r] \in {"inserting", "refinding"}
        /\ \A q \in Request \ {r} : stage'[q] = stage[q]
    BY <2>1 DEF Typed, TypeOK
  <2>4. StepOf(p)
    BY <1>1, <2>2, <2>3 DEF StepOf, rows
  <2>5. SameFor(p)
    <3>1. /\ InFlight(p)' = InFlight(p) /\ Queued(p)' = Queued(p) /\ AtWork(p)' = AtWork(p)
          /\ \A j : (Active(j))' <=> Active(j)
      BY <2>2 DEF InFlight, Queued, AtWork, Active, rows
    <3>2. \A q \in InFlight(p) : \/ stage'[q] = stage[q]
             \/ {stage[q], stage'[q]} \subseteq {"finding", "inserting", "refinding"}
      BY <2>2, <2>3 DEF InFlight
    <3> QED
      BY <2>2, <3>1, <3>2 DEF SameFor, Active, rows
  <2> QED
    BY <2>2, <2>4, <2>5, Frame, StepKeeps DEF CalmInv
<1>3. CASE RefindNone(r) \/ RequestFails(r)
  <2>1. /\ End(r) /\ calm' = calm \ {p}
        /\ UNCHANGED <<head, connected, rows, graph, pc, job, shown>>
    BY <1>1, <1>3 DEF RefindNone, RequestFails, Disturb, github, stored, loop
  <2>2. StepOf(p)
    BY <1>1, <2>1, EndFacts DEF StepOf, rows
  <2> QED
    BY <2>1, <2>2, StepKeeps
<1> QED
  BY <1>2, <1>3

\* A row whose backoff is over was claimed before; one whose lease is over keeps
\* its place.
LEMMA CalmClocks ==
    ASSUME OrderInv, NEW j \in Job, BackoffEnds(j) \/ LeaseEnds(j) PROVE CalmInv'
<1> USE DEF OrderInv
<1>1. PICK p \in Project : p = Repo[ref[j]]
  BY IngestAssumption DEF BackoffEnds, LeaseEnds, Typed, RefInv
<1>2. /\ Active(j) /\ attempts[j] > 0
      /\ status' = [status EXCEPT ![j] = "ready"]
      /\ UNCHANGED <<head, connected, stage, target, wanted, moment, ref, attempts, graph,
                     pc, job, shown, calm>>
  BY DEF BackoffEnds, LeaseEnds, Active, RowInv, github, asked, stored, loop
<1>3. \A i \in Job \ {j} : due'[i] = due[i] /\ status'[i] = status[i]
  BY <1>2 DEF BackoffEnds, LeaseEnds, Typed, TypeOK
<1>4. \A i \in Job : (Active(i))' <=> Active(i)
  BY <1>2, <1>3 DEF Active, Typed, TypeOK
<1>5. StepOf(p)
  BY <1>1, <1>2, <1>3, IngestAssumption DEF StepOf
<1>6. ASSUME p \in calm PROVE Orderly(p)'
  <2>1. Orderly(p)
    BY <1>6 DEF CalmInv
  <2>2. /\ InFlight(p)' = InFlight(p) /\ Queued(p)' = Queued(p) /\ AtWork(p)' = AtWork(p)
        /\ Carriers(p)' = Carriers(p)
    BY <1>2, <1>4 DEF InFlight, Queued, AtWork, Carriers
  <2>3. /\ \A w : CommitOf(w)' = CommitOf(w)
        /\ \A c : Reflects(p, c)' <=> Reflects(p, c)
    BY <1>2 DEF CommitOf, Reflects
  <2>4. \A i \in Queued(p) : attempts[i] = 0 => due'[i] = due[i]
    BY <1>2, <1>3 DEF Queued
  <2>5. OneCarrier(p)' /\ CarriesHead(p)' /\ DueBefore(p)'
    BY <1>2, <2>1, <2>2, <2>4 DEF Orderly, OneCarrier, CarriesHead, DueBefore
  <2>6. \A w \in AtWork(p) : job[w] \in Job
    BY DEF AtWork, Typed, RefInv
  <2>7. OneWorker(p)' /\ HeldActive(p)' /\ AckReflects(p)'
    BY <1>2, <1>4, <2>1, <2>2, <2>3, <2>6
       DEF Orderly, OneWorker, HeldActive, AckReflects, Active
  <2>8. OlderFirst(p)'
    BY <1>2, <2>1, <2>2, <2>4 DEF Orderly, OlderFirst
  <2>9. Follows(p)'
    BY <1>2, <2>1, <2>2, <2>3 DEF Orderly, Follows, NoOlder
  <2> QED
    BY <2>5, <2>7, <2>8, <2>9 DEF Orderly
<1> QED
  BY <1>2, <1>5, <1>6, StepKeeps

\* The row claimed is the one due longest, and no worker has another of the
\* project: a commit older than the head comes first, or not at all.
LEMMA CalmClaim == ASSUME OrderInv, NEW w \in Worker, Claim(w) PROVE CalmInv'
<1> USE DEF OrderInv
<1>1. PICK j \in Job : /\ status[j] = "ready" /\ DueFirst(j)
                       /\ status' = [status EXCEPT ![j] = "processing"]
                       /\ attempts' = [attempts EXCEPT ![j] = attempts[j] + 1]
                       /\ job' = [job EXCEPT ![w] = j]
                       /\ IF Overtaking(j) THEN Disturb(Repo[ref[j]]) ELSE UNCHANGED calm
  BY DEF Claim
<1>2. PICK p \in Project : p = Repo[ref[j]]
  BY <1>1, IngestAssumption DEF Typed, RefInv
<1>3. /\ pc[w] = "idle" /\ pc' = [pc EXCEPT ![w] = "reading"]
      /\ UNCHANGED <<head, connected, stage, target, wanted, moment, ref, due, graph, shown>>
  BY DEF Claim, Step, github, asked, stored
<1>4. /\ job[w] = NoJob /\ job'[w] = j /\ pc'[w] = "reading"
      /\ status'[j] = "processing" /\ attempts'[j] = attempts[j] + 1
      /\ \A i \in Job \ {j} : status'[i] = status[i] /\ attempts'[i] = attempts[i]
      /\ \A v \in Worker \ {w} : pc'[v] = pc[v] /\ job'[v] = job[v]
  BY <1>1, <1>3 DEF Typed, TypeOK, RefInv
<1>5. StepOf(p)
  <2>1. calm' \subseteq calm \cup {p}
    BY <1>1 DEF Disturb
  <2> QED
    BY <1>2, <1>3, <1>4, <2>1 DEF StepOf
<1>6. ASSUME p \in calm' PROVE Orderly(p)'
  <2>1. Orderly(p) /\ ~Overtaking(j)
    BY <1>1, <1>2, <1>6 DEF CalmInv, Disturb
  <2>2. AtWork(p) = {} /\ (attempts[j] > 0 => ref[j] = head[p])
    BY <1>2, <2>1 DEF Overtaking
  <2>3. AtWork(p)' = {w}
    <3>1. \A v \in Worker \ {w} : v \notin AtWork(p)'
      BY <1>3, <1>4, <2>2 DEF AtWork
    <3>2. w \in AtWork(p)'
      BY <1>2, <1>3, <1>4, IngestAssumption DEF AtWork
    <3> QED
      BY <3>1, <3>2 DEF AtWork
  <2>4. \A i \in Job : (Active(i))' <=> Active(i)
    BY <1>1, <1>4 DEF Active
  <2>5. /\ InFlight(p)' = InFlight(p) /\ Queued(p)' = Queued(p) /\ Carriers(p)' = Carriers(p)
        /\ \A c : Reflects(p, c)' <=> Reflects(p, c)
    BY <1>3, <2>4 DEF InFlight, Queued, Carriers, Reflects
  <2>6. \A i \in Job : attempts'[i] = 0 => attempts[i] = 0 /\ i # j
    BY <1>4 DEF Typed, TypeOK
  <2>7. OneCarrier(p)' /\ CarriesHead(p)' /\ DueBefore(p)'
    BY <1>3, <2>1, <2>5, <2>6 DEF Orderly, OneCarrier, CarriesHead, DueBefore, Queued
  <2>8. OneWorker(p)' /\ HeldActive(p)' /\ AckReflects(p)'
    BY <1>4, <2>3 DEF OneWorker, HeldActive, AckReflects, Active
  <2>9. OlderFirst(p)'
    <3> SUFFICES ASSUME Carriers(p) = {}, NEW i \in Queued(p), NEW k \in Queued(p),
                        ref[i] # head[p], attempts'[i] = 0, ref[k] = head[p]
                 PROVE  attempts'[k] = 0 /\ due[i] < due[k]
      BY <1>3, <2>5 DEF OlderFirst
    <3>1. attempts[i] = 0 /\ i \in Job /\ k \in Job
      BY <2>6 DEF Queued
    <3>2. attempts[k] = 0 /\ due[i] < due[k]
      BY <2>1, <3>1 DEF Orderly, OlderFirst
    <3>3. status[i] = "ready"
      BY <3>1 DEF Queued, Active, RowInv
    <3>4. due[j] <= due[i]
      BY <1>1, <3>1, <3>3 DEF DueFirst
    <3>5. k # j
      BY <3>1, <3>2, <3>4 DEF Typed, TypeOK
    <3> QED
      BY <1>4, <3>1, <3>2, <3>5
  <2>10. Follows(p)'
    <3>1. ASSUME NoOlder(p) PROVE NoOlder(p)'
      <4>1. j \in Queued(p)
        BY <1>1, <1>2 DEF Queued, Active
      <4>2. ref[j] = head[p]
        BY <2>2, <3>1, <4>1 DEF NoOlder
      <4>3. (CommitOf(w))' = head[p]
        BY <1>3, <1>4, <4>2 DEF CommitOf
      <4>4. \A i \in Job : attempts[i] > 0 => attempts'[i] > 0
        BY <1>4 DEF Typed, TypeOK
      <4> QED
        BY <1>3, <2>3, <2>5, <3>1, <4>3, <4>4 DEF NoOlder, Queued
    <3> QED
      BY <1>3, <2>1, <2>5, <3>1 DEF Orderly, Follows
  <2> QED
    BY <2>7, <2>8, <2>9, <2>10 DEF Orderly
<1> QED
  BY <1>5, <1>6, StepKeeps

LEMMA CalmPoison == ASSUME OrderInv, NEW w \in Worker, PoisonRow(w) PROVE CalmInv'
<1> USE DEF OrderInv
<1>1. PICK j \in Job : /\ status[j] = "ready"
                       /\ status' = [status EXCEPT ![j] = "dead"]
                       /\ calm' = calm \ {Repo[ref[j]]}
  BY DEF PoisonRow, Disturb
<1>2. PICK p \in Project : p = Repo[ref[j]]
  BY <1>1, IngestAssumption DEF Typed, RefInv
<1>3. UNCHANGED <<head, connected, stage, target, wanted, moment, ref, due, attempts, graph,
                  pc, job, shown>>
  BY DEF PoisonRow, github, asked, stored, loop
<1>4. \A i \in Job \ {j} : status'[i] = status[i]
  BY <1>1 DEF Typed, TypeOK
<1>5. StepOf(p)
  BY <1>1, <1>2, <1>3, <1>4 DEF StepOf
<1> QED
  BY <1>1, <1>2, <1>5, StepKeeps

-----------------------------------------------------------------------------
(* The worker of a calm project.                                           *)

LEMMA HeldFacts ==
    ASSUME OrderInv, NEW w \in Worker, pc[w] # "idle"
    PROVE  /\ job[w] \in Job /\ CommitOf(w) \in Commit /\ ProjectOf(w) \in Project
           /\ CommitOf(w) = ref[job[w]] /\ ProjectOf(w) = Repo[ref[job[w]]]
           /\ w \in AtWork(ProjectOf(w)) /\ attempts[job[w]] > 0
           /\ ProjectOf(w) \in calm =>
                 AtWork(ProjectOf(w)) = {w} /\ Active(job[w]) /\ job[w] \in Queued(ProjectOf(w))
<1>1. job[w] \in Job /\ CommitOf(w) \in Commit /\ ProjectOf(w) \in Project
  BY AtCommit DEF OrderInv
<1>2. job[w] # NoJob /\ attempts[job[w]] > 0
  BY <1>1, IngestAssumption DEF OrderInv, RowInv
<1>3. w \in AtWork(ProjectOf(w))
  BY <1>2 DEF AtWork, ProjectOf, CommitOf
<1>4. ProjectOf(w) \in calm => AtWork(ProjectOf(w)) = {w} /\ Active(job[w])
  BY <1>3 DEF OrderInv, CalmInv, Orderly, OneWorker, HeldActive
<1> QED
  BY <1>1, <1>2, <1>3, <1>4 DEF Queued, ProjectOf, CommitOf

\* The worker goes on, short of the ack, or lets its row go, which stays active.
Works(w) ==
    /\ UNCHANGED <<head, connected, stage, target, wanted, moment, ref, due, attempts,
                   graph, shown>>
    /\ calm' = calm \/ calm' = calm \ {ProjectOf(w)}
    /\ \A i \in Job :
          \/ status'[i] = status[i]
          \/ i = job[w] /\ (ProjectOf(w) \in calm' => ((Active(i))' <=> Active(i)))
    /\ \A v \in Worker \ {w} : pc'[v] = pc[v] /\ job'[v] = job[v]
    /\ job'[w] = job[w] \/ job'[w] = NoJob
    /\ pc'[w] # "acking"

LEMMA CalmWorks ==
    ASSUME OrderInv, NEW w \in Worker, pc[w] # "idle", Works(w) PROVE CalmInv'
<1> USE DEF Works
<1>1. PICK p \in Project : p = ProjectOf(w)
  BY HeldFacts
<1>2. job[w] \in Job /\ p = Repo[ref[job[w]]] /\ job[w] # NoJob
  BY <1>1, HeldFacts, IngestAssumption
<1>3. StepOf(p)
  BY <1>1, <1>2 DEF StepOf
<1>4. ASSUME p \in calm' PROVE Orderly(p)'
  <2>1. Orderly(p)
    BY <1>4 DEF OrderInv, CalmInv
  <2>2. \A i \in Job : (Active(i))' <=> Active(i)
    BY <1>1, <1>4 DEF Active
  <2>3. InFlight(p)' = InFlight(p) /\ Queued(p)' = Queued(p)
    BY <2>2 DEF InFlight, Queued
  <2>4. \A v \in AtWork(p)' : /\ v \in AtWork(p) /\ job'[v] = job[v]
                              /\ pc'[v] = pc[v] \/ pc'[v] # "acking"
    BY <1>2 DEF AtWork
  <2>5. \A v \in AtWork(p) : job[v] \in Job
    BY DEF AtWork, OrderInv, Typed, RefInv
  <2>6. \A v \in AtWork(p)' : (Active(job[v]))' <=> Active(job[v])
    BY <2>2, <2>4, <2>5 DEF Active
  <2>7. \A v \in AtWork(p)' : /\ ref'[job[v]] = ref[job[v]] /\ job'[v] = job[v]
                              /\ Active(job[v])' <=> Active(job[v])
                              /\ pc'[v] = pc[v] \/ pc'[v] # "acking"
    BY <2>4, <2>6
  <2>8. AtWork(p)' \subseteq AtWork(p)
    BY <2>4
  <2>9. SameFor(p)
    BY <2>3, <2>7, <2>8 DEF SameFor
  <2> QED
    BY <2>1, <2>9, Frame
<1> QED
  BY <1>3, <1>4, StepKeeps

LEMMA CalmMoves ==
    ASSUME OrderInv, NEW w \in Worker, Changed(w) \/ ReadCache(w) \/ ParseAndPut(w)
    PROVE  CalmInv'
<1>1. /\ pc[w] # "idle"
      /\ \E s \in {"caching", "parsing", "replacing"} : pc' = [pc EXCEPT ![w] = s]
      /\ UNCHANGED <<head, connected, stage, target, wanted, moment, rows, graph, shown,
                     job, calm>>
  BY DEF Changed, ReadCache, ParseAndPut, Step, At, github, asked, stored
<1>2. pc'[w] # "acking" /\ \A v \in Worker \ {w} : pc'[v] = pc[v]
  BY <1>1 DEF OrderInv, Typed, TypeOK
<1>3. Works(w)
  BY <1>1, <1>2 DEF Works, rows
<1> QED
  BY <1>1, <1>3, CalmWorks

\* Unchanged: the files stored are the commit's own.
LEMMA CalmUnchanged == ASSUME OrderInv, NEW w \in Worker, Unchanged(w) PROVE CalmInv'
<1>1. PICK p \in Project : p = ProjectOf(w)
  BY HeldFacts DEF Unchanged, At
<1>2. /\ pc[w] = "reading" /\ pc' = [pc EXCEPT ![w] = "acking"]
      /\ graph[p] = Tree[CommitOf(w)]
      /\ UNCHANGED <<head, connected, stage, target, wanted, moment, rows, graph, shown,
                     job, calm>>
  BY <1>1 DEF Unchanged, Step, At, SameFiles, TreeOf, github, asked, stored
<1>3. /\ job[w] \in Job /\ p = Repo[ref[job[w]]]
      /\ p \in calm => AtWork(p) = {w}
  BY <1>1, <1>2, HeldFacts
<1>4. \A v \in Worker \ {w} : pc'[v] = pc[v]
  BY <1>2
<1>5. StepOf(p)
  BY <1>2, <1>3, <1>4 DEF StepOf, rows
<1>6. ASSUME p \in calm PROVE Orderly(p)'
  <2>1. Orderly(p)
    BY <1>6 DEF OrderInv, CalmInv
  <2>2. /\ InFlight(p)' = InFlight(p) /\ Queued(p)' = Queued(p) /\ AtWork(p)' = AtWork(p)
        /\ Carriers(p)' = Carriers(p)
        /\ \A v : CommitOf(v)' = CommitOf(v)
        /\ \A c : Reflects(p, c)' <=> Reflects(p, c)
        /\ \A j : (Active(j))' <=> Active(j)
    BY <1>2 DEF InFlight, Queued, AtWork, Carriers, CommitOf, Reflects, Active, rows
  <2>3. OneCarrier(p)' /\ CarriesHead(p)' /\ DueBefore(p)'
    BY <1>2, <2>1, <2>2 DEF Orderly, OneCarrier, CarriesHead, DueBefore, rows
  <2>4. OneWorker(p)' /\ HeldActive(p)'
    BY <1>2, <2>1, <2>2 DEF Orderly, OneWorker, HeldActive
  <2>5. AckReflects(p)'
    BY <1>2, <1>3, <1>6, <2>2 DEF AckReflects, Reflects
  <2>6. OlderFirst(p)' /\ Follows(p)'
    BY <1>2, <2>1, <2>2 DEF Orderly, OlderFirst, Follows, NoOlder, rows
  <2> QED
    BY <2>3, <2>4, <2>5, <2>6 DEF Orderly
<1> QED
  BY <1>2, <1>5, <1>6, StepKeeps

\* The graph written is the one of the commit the only worker has.
LEMMA CalmReplace == ASSUME OrderInv, NEW w \in Worker, Replace(w) PROVE CalmInv'
<1>1. PICK p \in Project, c \in Commit : p = ProjectOf(w) /\ c = CommitOf(w)
  BY HeldFacts DEF Replace, At
<1>2. /\ pc[w] = "replacing" /\ pc' = [pc EXCEPT ![w] = "acking"]
      /\ \A q \in Project \ {p} : graph'[q] = graph[q] /\ shown'[q] = shown[q]
      /\ shown'[p] = c
      /\ UNCHANGED <<head, connected, stage, target, wanted, moment, rows, job, calm>>
  BY <1>1 DEF Replace, Step, At, github, asked, OrderInv, Typed, TypeOK
<1>3. /\ job[w] \in Job /\ p = Repo[ref[job[w]]] /\ w \in AtWork(p)
      /\ p \in calm => AtWork(p) = {w}
  BY <1>1, <1>2, HeldFacts
<1>4. \A v \in Worker \ {w} : pc'[v] = pc[v]
  BY <1>2
<1>5. StepOf(p)
  BY <1>2, <1>3, <1>4 DEF StepOf, rows
<1>6. ASSUME p \in calm PROVE Orderly(p)'
  <2>1. Orderly(p)
    BY <1>6 DEF OrderInv, CalmInv
  <2>2. /\ InFlight(p)' = InFlight(p) /\ Queued(p)' = Queued(p) /\ AtWork(p)' = AtWork(p)
        /\ Carriers(p)' = Carriers(p)
        /\ \A v : CommitOf(v)' = CommitOf(v)
        /\ \A j : (Active(j))' <=> Active(j)
    BY <1>2 DEF InFlight, Queued, AtWork, Carriers, CommitOf, Active, rows
  <2>3. OneCarrier(p)' /\ CarriesHead(p)' /\ DueBefore(p)'
    BY <1>2, <2>1, <2>2 DEF Orderly, OneCarrier, CarriesHead, DueBefore, rows
  <2>4. OneWorker(p)' /\ HeldActive(p)'
    BY <1>2, <2>1, <2>2 DEF Orderly, OneWorker, HeldActive
  <2>5. Reflects(p, c)'
    BY <1>2 DEF Reflects
  <2>6. AckReflects(p)'
    BY <1>1, <1>2, <1>3, <1>6, <2>2, <2>5 DEF AckReflects
  <2>7. OlderFirst(p)'
    BY <1>2, <2>1, <2>2 DEF Orderly, OlderFirst, rows
  <2>8. NoOlder(p) => NoOlder(p)' /\ c = head[p]
    BY <1>1, <1>2, <1>3, <2>2 DEF NoOlder, rows
  <2>9. Follows(p)'
    BY <1>2, <2>1, <2>2, <2>5, <2>8 DEF Orderly, Follows, rows
  <2> QED
    BY <2>3, <2>4, <2>6, <2>7, <2>9 DEF Orderly
<1> QED
  BY <1>2, <1>5, <1>6, StepKeeps

\* The row acknowledged was the head's, whose older commits were claimed before,
\* or was not, and the head's is still to come.
LEMMA CalmAck == ASSUME OrderInv, NEW w \in Worker, Ack(w) PROVE CalmInv'
<1> USE DEF OrderInv
<1>1. PICK p \in Project, c \in Commit : p = ProjectOf(w) /\ c = CommitOf(w)
  BY HeldFacts DEF Ack, At
<1>2. /\ pc[w] = "acking" /\ status' = [status EXCEPT ![job[w]] = "gone"]
      /\ pc' = [pc EXCEPT ![w] = "idle"] /\ job' = [job EXCEPT ![w] = NoJob]
      /\ UNCHANGED <<head, connected, stage, target, wanted, moment, ref, due, attempts,
                     graph, shown, calm>>
  BY DEF Ack, At, Release, Step, github, asked, stored
<1>3. PICK j \in Job : /\ j = job[w] /\ c = ref[j] /\ p = Repo[ref[j]] /\ attempts[j] > 0
                       /\ w \in AtWork(p)
                       /\ p \in calm => AtWork(p) = {w} /\ j \in Queued(p)
  BY <1>1, <1>2, HeldFacts
<1>4. /\ status'[j] = "gone" /\ pc'[w] = "idle" /\ job'[w] = NoJob
      /\ \A i \in Job \ {j} : status'[i] = status[i]
      /\ \A v \in Worker \ {w} : pc'[v] = pc[v] /\ job'[v] = job[v]
  BY <1>2, <1>3 DEF Typed, TypeOK
<1>5. StepOf(p)
  BY <1>2, <1>3, <1>4 DEF StepOf
<1>6. ASSUME p \in calm PROVE Orderly(p)'
  <2>1. Orderly(p)
    BY <1>6 DEF CalmInv
  <2>2. AtWork(p)' = {}
    BY <1>2, <1>3, <1>4, <1>6 DEF AtWork
  <2>3. Queued(p)' = Queued(p) \ {j}
    BY <1>2, <1>4 DEF Queued, Active
  <2>4. /\ InFlight(p)' = InFlight(p) /\ Carriers(p)' = Carriers(p)
        /\ \A d : Reflects(p, d)' <=> Reflects(p, d)
    BY <1>2 DEF InFlight, Carriers, Reflects
  <2>5. OneCarrier(p)' /\ CarriesHead(p)' /\ DueBefore(p)'
    BY <1>2, <2>1, <2>3, <2>4 DEF Orderly, OneCarrier, CarriesHead, DueBefore
  <2>6. OneWorker(p)' /\ HeldActive(p)' /\ AckReflects(p)'
    BY <2>2 DEF OneWorker, HeldActive, AckReflects
  <2>7. OlderFirst(p)'
    BY <1>2, <2>1, <2>3, <2>4 DEF Orderly, OlderFirst
  <2>8. Follows(p)'
    <3> SUFFICES ASSUME p \in connected, head[p] # NoCommit, InFlight(p) = {}
                 PROVE  \/ \E k \in Queued(p) \ {j} : ref[k] = head[p]
                        \/ Reflects(p, head[p]) /\ NoOlder(p)'
      BY <1>2, <2>3, <2>4 DEF Follows
    <3>0. (\A i \in Queued(p) \ {j} : ref[i] # head[p] => attempts[i] > 0) => NoOlder(p)'
      BY <1>2, <2>2, <2>3 DEF NoOlder
    <3>1. CASE \E k \in Queued(p) \ {j} : ref[k] = head[p]
      BY <3>1
    <3>2. CASE ref[j] = head[p]
      <4>1. Reflects(p, head[p])
        BY <1>1, <1>2, <1>3, <2>1, <3>2 DEF Orderly, AckReflects
      <4>2. Carriers(p) = {}
        BY DEF Carriers
      <4>3. ASSUME NEW i \in Queued(p), ref[i] # head[p], attempts[i] = 0 PROVE FALSE
        <5>1. OlderFirst(p) /\ j \in Queued(p)
          BY <1>3, <1>6, <2>1 DEF Orderly
        <5>2. attempts[j] = 0
          BY <3>2, <4>2, <4>3, <5>1 DEF OlderFirst
        <5> QED
          BY <1>3, <5>2
      <4>4. \A i \in Queued(p) : ref[i] # head[p] => attempts[i] > 0
        BY <4>3 DEF Queued, Typed, TypeOK
      <4> QED
        BY <3>0, <4>1, <4>4
    <3>3. CASE Reflects(p, head[p]) /\ NoOlder(p)
      BY <3>0, <3>3 DEF NoOlder
    <3> QED
      BY <2>1, <3>1, <3>2, <3>3 DEF Orderly, Follows
  <2> QED
    BY <2>5, <2>6, <2>7, <2>8 DEF Orderly
<1> QED
  BY <1>2, <1>5, <1>6, StepKeeps

\* A failed delivery leaves the row active, or buries it and disturbs the project.
LEMMA CalmFails ==
    ASSUME OrderInv, NEW w \in Worker, TooLarge(w) \/ HandlerFails(w) \/ Crash(w)
    PROVE  CalmInv'
<1>1. /\ pc[w] # "idle" /\ Release(w)
      /\ UNCHANGED <<head, connected, stage, target, wanted, moment, ref, due, attempts,
                     graph, shown>>
  BY DEF TooLarge, HandlerFails, Crash, Settle, At, github, asked, rows, stored
<1>2. /\ job'[w] = NoJob /\ pc'[w] = "idle"
      /\ \A v \in Worker \ {w} : pc'[v] = pc[v] /\ job'[v] = job[v]
  BY <1>1 DEF Release, Step, OrderInv, Typed, TypeOK
<1>3. PICK j \in Job : j = job[w] /\ (ProjectOf(w) \in calm => Active(j))
  BY <1>1, HeldFacts
<1>4. CASE Crash(w)
  <2>1. UNCHANGED <<status, calm>>
    BY <1>4 DEF Crash, rows
  <2>2. Works(w)
    BY <1>1, <1>2, <2>1 DEF Works
  <2> QED
    BY <1>1, <2>2, CalmWorks
<1>5. CASE TooLarge(w) \/ HandlerFails(w)
  <2>1. /\ status' = [status EXCEPT ![j] = Failed(w)]
        /\ IF Failed(w) = "dead" THEN calm' = calm \ {ProjectOf(w)} ELSE calm' = calm
    BY <1>3, <1>5 DEF TooLarge, HandlerFails, Settle, Disturb
  <2>2. /\ status'[j] = Failed(w)
        /\ \A i \in Job \ {j} : status'[i] = status[i]
    BY <2>1 DEF OrderInv, Typed, TypeOK
  <2>3. ASSUME ProjectOf(w) \in calm' PROVE (Active(j))' <=> Active(j)
    <3>1. Failed(w) # "dead" /\ Active(j)
      BY <1>3, <2>1, <2>3
    <3>2. Failed(w) \in {status[j], "waiting"}
      BY <1>3, <3>1, IngestAssumption DEF Failed, Active, OrderInv, Typed, TypeOK
    <3> QED
      BY <2>2, <3>1, <3>2 DEF Active
  <2>4. calm' = calm \/ calm' = calm \ {ProjectOf(w)}
    BY <2>1
  <2>5. \A i \in Job :
           \/ status'[i] = status[i]
           \/ i = job[w] /\ (ProjectOf(w) \in calm' => ((Active(i))' <=> Active(i)))
    BY <1>3, <2>2, <2>3
  <2>6. Works(w)
    BY <1>1, <1>2, <2>4, <2>5 DEF Works
  <2> QED
    BY <1>1, <2>6, CalmWorks
<1> QED
  BY <1>4, <1>5

LEMMA CalmNext == ASSUME OrderInv, [Next]_vars PROVE CalmInv'
<1>1. CASE UNCHANGED vars
  BY <1>1 DEF OrderInv, CalmInv, Orderly, OneCarrier, CarriesHead, DueBefore, OneWorker,
              HeldActive, AckReflects, OlderFirst, Follows, NoOlder, Carriers, InFlight,
              Queued, AtWork, Active, CommitOf, Reflects, vars, github, asked, rows,
              stored, loop
<1> QED
  BY <1>1, CalmPush, CalmFirstScan, CalmResolveHead, CalmIgnore, CalmTakeTime,
     CalmCoalesce, CalmInsert, CalmGoesOn, CalmClocks, CalmClaim, CalmPoison, CalmMoves,
     CalmUnchanged, CalmReplace, CalmAck, CalmFails DEF Next, Ask, Handle

LEMMA OrderAlways == Spec => []OrderInv
<1>1. Init => OrderInv
  BY TypedInit, RowInit, CalmInit DEF OrderInv
<1>2. OrderInv /\ [Next]_vars => OrderInv'
  BY TypedNext, RowNext, CalmNext DEF OrderInv
<1> QED
  BY <1>1, <1>2, PTL DEF Spec

\* Whatever failed, crashed, overlapped or came out of order before: once a push or
\* a first scan of a project that had settled was overtaken by nothing, and the
\* project has settled again, its graph is the one of the head of its branch.
THEOREM SettledShows == Spec => []SettledShowsHead
<1>1. OrderInv => SettledShowsHead
  <2> SUFFICES ASSUME OrderInv, NEW p \in connected \cap calm, Settled(p), head[p] \in Commit
               PROVE  Reflects(p, head[p])
    BY DEF SettledShowsHead
  <2>1. Follows(p) /\ head[p] # NoCommit
    BY IngestAssumption DEF OrderInv, CalmInv, Orderly
  <2> QED
    BY <2>1 DEF Follows, Settled, Idle
<1> QED
  BY <1>1, OrderAlways, PTL

=============================================================================
