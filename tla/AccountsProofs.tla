--------------------------- MODULE AccountsProofs ---------------------------
(***************************************************************************)
(* Theorems about Accounts, for any users, projects, requests in flight    *)
(* and bounds.                                                             *)
(***************************************************************************)
EXTENDS Accounts, FiniteSetTheorems, SequenceTheorems, WellFoundedInduction, TLAPS

SignPlaces    == {"checking", "finding", "creating", "joining", "rereading", "inserting"}
Operations    == {"list", "export", "deleteMe", "move"}
SessionPlaces == Operations \cup {"guarding"}
MovePlaces    == {"accessing", "gating", "targeting", "assigning"}

\* What a request knows of itself at each place.
Shape(r) ==
  /\ "pc" \in DOMAIN r
  /\ r.pc \in SignPlaces => {"user", "ws"} \subseteq DOMAIN r /\ r.user \in User
  /\ r.pc = "joining" => r.ws \in Workspace
  /\ r.pc \in SessionPlaces => {"late", "session"} \subseteq DOMAIN r
  /\ r.pc = "guarding" => r.op \in Operations
  /\ r.pc \in MovePlaces => {"user", "held", "source", "target"} \subseteq DOMAIN r

\* A request that came after the deletion has not passed the guard.
Guarded(r, gone) ==
  "late" \in DOMAIN r =>
    /\ r.pc = "guarding" /\ r.late => r.session.user \in gone
    /\ r.pc \notin {"idle", "guarding"} => ~r.late

\* A move holds the memberships its user has now, and those its checks found.
Earned(r, rows) ==
  r.pc \in MovePlaces =>
    /\ r.target # None
    /\ \A x \in Range(rows) : x.user = r.user => x \in r.held
    /\ r.pc \in {"targeting", "assigning"} =>
         \E x \in r.held : x.ws = r.source /\ x.user = r.user /\ x.role = "owner"
    /\ r.pc = "assigning" => \E x \in r.held : x.ws = r.target /\ x.user = r.user

Good(r, gone, rows) == Shape(r) /\ Guarded(r, gone) /\ Earned(r, rows)

\* The requests, and the tables they rely on: before the migration there are none.
Requests == DOMAIN req = Request /\ \A q \in Request : Good(req[q], deleted, member)

Tables ==
  /\ member \in Seq(Member)
  /\ None \notin organization
  /\ DOMAIN workspace = Project
  /\ ~Served => \A q \in Request : req[q] = Idle

IInv == Requests /\ Tables

-----------------------------------------------------------------------------
(* Sequences of rows. *)

LEMMA AppendRange ==
  ASSUME NEW S, NEW s \in Seq(S), NEW e \in S
  PROVE  Append(s, e) \in Seq(S) /\ Range(Append(s, e)) = Range(s) \cup {e}
<1>1. Append(s, e) \in Seq(S) /\ Len(Append(s, e)) = Len(s) + 1
  OBVIOUS
<1>2. \A i \in 1 .. Len(s) : Append(s, e)[i] = s[i]
  OBVIOUS
<1>3. Append(s, e)[Len(s) + 1] = e
  OBVIOUS
<1>4. DOMAIN s = 1 .. Len(s) /\ DOMAIN Append(s, e) = 1 .. (Len(s) + 1) /\ Len(s) \in Nat
  BY <1>1
<1>5. Range(Append(s, e)) \subseteq Range(s) \cup {e}
  BY <1>2, <1>3, <1>4 DEF Range
<1>6. Range(s) \cup {e} \subseteq Range(Append(s, e))
  BY <1>2, <1>3, <1>4 DEF Range
<1> QED
  BY <1>1, <1>5, <1>6

LEMMA ConcatRange ==
  ASSUME NEW S, NEW a \in Seq(S), NEW b \in Seq(S)
  PROVE  a \o b \in Seq(S) /\ Range(a \o b) \subseteq Range(a) \cup Range(b)
<1>1. a \o b \in Seq(S) /\ Len(a \o b) = Len(a) + Len(b)
  BY ConcatProperties
<1>2. \A k \in 1 .. Len(a) + Len(b) : (a \o b)[k] = IF k <= Len(a) THEN a[k] ELSE b[k - Len(a)]
  BY ConcatProperties
<1>3. \A k \in DOMAIN (a \o b) : (a \o b)[k] \in Range(a) \cup Range(b)
  <2> TAKE k \in DOMAIN (a \o b)
  <2>1. Len(a) \in Nat /\ Len(b) \in Nat /\ DOMAIN a = 1 .. Len(a) /\ DOMAIN b = 1 .. Len(b)
    OBVIOUS
  <2>2. k \in 1 .. Len(a) + Len(b)
    BY <1>1
  <2>3. CASE k <= Len(a)
    BY <1>2, <2>1, <2>2, <2>3 DEF Range
  <2>4. CASE ~(k <= Len(a))
    BY <1>2, <2>1, <2>2, <2>4 DEF Range
  <2> QED
    BY <2>3, <2>4
<1> QED
  BY <1>1, <1>3 DEF Range

LEMMA PartRange ==
  ASSUME NEW S, NEW s \in Seq(S), NEW m \in Nat \ {0}, NEW n \in Nat, n <= Len(s)
  PROVE  SubSeq(s, m, n) \in Seq(S) /\ Range(SubSeq(s, m, n)) \subseteq Range(s)
<1>1. \A i \in m .. n : s[i] \in S
  OBVIOUS
<1>2. /\ SubSeq(s, m, n) \in Seq(S)
      /\ Len(SubSeq(s, m, n)) = IF m <= n THEN n - m + 1 ELSE 0
      /\ \A i \in 1 .. n - m + 1 : SubSeq(s, m, n)[i] = s[m + i - 1]
  BY <1>1, SubSeqProperties
<1>3. \A k \in DOMAIN SubSeq(s, m, n) : SubSeq(s, m, n)[k] \in Range(s)
  BY <1>2 DEF Range
<1> QED
  BY <1>2, <1>3 DEF Range

LEMMA RemovedRange ==
  ASSUME NEW S, NEW s \in Seq(S), NEW i \in 1 .. Len(s)
  PROVE  RemoveAt(s, i) \in Seq(S) /\ Range(RemoveAt(s, i)) \subseteq Range(s)
<1>1. SubSeq(s, 1, i - 1) \in Seq(S) /\ Range(SubSeq(s, 1, i - 1)) \subseteq Range(s)
  BY PartRange
<1>2. SubSeq(s, i + 1, Len(s)) \in Seq(S) /\ Range(SubSeq(s, i + 1, Len(s))) \subseteq Range(s)
  BY PartRange
<1>3. /\ SubSeq(s, 1, i - 1) \o SubSeq(s, i + 1, Len(s)) \in Seq(S)
      /\ Range(SubSeq(s, 1, i - 1) \o SubSeq(s, i + 1, Len(s)))
           \subseteq Range(SubSeq(s, 1, i - 1)) \cup Range(SubSeq(s, i + 1, Len(s)))
  BY <1>1, <1>2, ConcatRange
<1> QED
  BY <1>1, <1>2, <1>3 DEF RemoveAt

LEMMA UpdatedRange ==
  ASSUME NEW S, NEW s \in Seq(S), NEW i \in DOMAIN s, NEW e \in S
  PROVE  /\ [s EXCEPT ![i] = e] \in Seq(S)
         /\ Range([s EXCEPT ![i] = e]) \subseteq Range(s) \cup {e}
BY DEF Range

\* A finite set laid out in some order.
LEMMA LaidOut ==
  ASSUME NEW S, IsFiniteSet(S)
  PROVE  SetToSeq(S) \in Seq(S)
<1>1. Cardinality(S) \in Nat /\ \E f \in [1 .. Cardinality(S) -> S] : IsInjective(f)
  BY FS_CardinalityType DEF ExistsBijection, Bijection, Injection
<1>2. SetToSeq(S) \in [1 .. Cardinality(S) -> S]
  BY <1>1 DEF SetToSeq
<1> QED
  BY <1>1, <1>2
-----------------------------------------------------------------------------
(* A step of one request, which changes no membership. *)

LEMMA OneRequest ==
  ASSUME NEW q \in Request, NEW r, Requests, req' = [req EXCEPT ![q] = r],
         member' = member, deleted \subseteq deleted', Good(r, deleted', member)
  PROVE  Requests'
<1>1. DOMAIN req' = Request /\ req'[q] = r /\ \A p \in Request \ {q} : req'[p] = req[p]
  BY DEF Requests
<1>2. \A p \in Request : Good(req[p], deleted, member) => Good(req[p], deleted', member)
  BY DEF Good, Guarded
<1> QED
  BY <1>1, <1>2 DEF Requests

LEMMA TablesStay ==
  ASSUME Tables, Served, member' = member, organization' = organization, workspace' = workspace
  PROVE  Tables'
BY DEF Tables, Served

\* A request goes on, or ends: what it must know at its next place it knows.
LEMMA GoesOn ==
  ASSUME NEW r, NEW gone, NEW rows, Good(r, gone, rows), NEW pc,
         r.pc # "idle", r.pc # "guarding",
         \/ r.pc \in SignPlaces /\ pc \in SignPlaces \ {"joining"}
         \/ pc \in {"listing", "exporting", "replying"}
         \/ /\ r.pc \in MovePlaces /\ pc = "gating"
  PROVE  Good([r EXCEPT !.pc = pc], gone, rows)
BY DEF Good, Shape, Guarded, Earned, SignPlaces, SessionPlaces, MovePlaces, Operations

LEMMA IdleIsGood == ASSUME NEW gone, NEW rows PROVE Good(Idle, gone, rows)
BY DEF Good, Shape, Guarded, Earned, Idle, SignPlaces, SessionPlaces, MovePlaces, Operations

LEMMA SignInSteps ==
  ASSUME Requests, NEW q \in Request,
         \/ \E u \in User : SignIn(q, u)
         \/ CheckDeleted(q) \/ FindWorkspace(q) \/ Reread(q) \/ Reject(q) \/ InsertSession(q)
  PROVE  Requests'
<1> DEFINE r == req[q]
<1>0. Good(r, deleted, member)
  BY DEF Requests
<1>i. Good(Idle, deleted, member)
  BY IdleIsGood
<1>1. ASSUME NEW u \in User, SignIn(q, u) PROVE Requests'
  <2> DEFINE new == [pc |-> "checking", user |-> u, ws |-> None]
  <2>1. Good(new, deleted, member)
    BY DEF Good, Shape, Guarded, Earned, SignPlaces, SessionPlaces, MovePlaces, Operations
  <2> QED
    BY <1>1, <2>1, OneRequest DEF SignIn, Step, Count, tables
<1>2. CASE CheckDeleted(q)
  <2>1. Good([r EXCEPT !.pc = "finding"], deleted, member)
    BY <1>0, <1>2, GoesOn DEF CheckDeleted, SignPlaces
  <2> QED
    BY <1>2, <1>i, <2>1, OneRequest DEF CheckDeleted, Step, To, Quiet, tables
<1>3. ASSUME NEW w, Reading(q, w), Quiet, r.pc \in {"finding", "rereading"} PROVE Requests'
  <2> DEFINE new == [r EXCEPT !.ws = w,
                              !.pc = IF w = None /\ @ = "finding" THEN "creating" ELSE "inserting"]
  <2>1. Good(new, deleted, member)
    BY <1>0, <1>3 DEF Good, Shape, Guarded, Earned, SignPlaces, SessionPlaces, MovePlaces, Operations
  <2> QED
    BY <1>3, <2>1, OneRequest DEF Reading, Step, Quiet, tables
<1>4. CASE Reject(q)
  <2> DEFINE new == [r EXCEPT !.ws = None,
                              !.pc = IF @ = "rereading" THEN "inserting" ELSE "rereading"]
  <2>1. Good(new, deleted, member)
    BY <1>0, <1>4 DEF Reject, Good, Shape, Guarded, Earned, SignPlaces, SessionPlaces, MovePlaces,
                      Operations
  <2> QED
    BY <1>4, <2>1, OneRequest DEF Reject, Step, Count, tables
<1>5. CASE InsertSession(q)
  BY <1>5, <1>i, OneRequest DEF InsertSession, Step
<1> QED
  BY <1>1, <1>2, <1>3, <1>4, <1>5 DEF FindWorkspace, Reread

LEMMA SessionSteps ==
  ASSUME Requests, NEW q \in Request,
         \/ \E s \in session, op \in Operations : Begin(q, s, op)
         \/ SessionGuard(q) \/ DataExport(q) \/ SoftDeleteUser(q) \/ List(q) \/ Reply(q)
  PROVE  Requests'
<1> DEFINE r == req[q]
<1>0. Good(r, deleted, member)
  BY DEF Requests
<1>i. Good(Idle, deleted, member) /\ Good(Idle, deleted', member)
  BY IdleIsGood
<1> USE DEF SignPlaces, SessionPlaces, MovePlaces, Operations
<1>1. ASSUME NEW s \in session, NEW op \in Operations, Begin(q, s, op) PROVE Requests'
  <2> DEFINE new == [pc |-> "guarding", op |-> op, session |-> s, late |-> s.user \in deleted]
  <2>1. Good(new, deleted, member)
    BY DEF Good, Shape, Guarded, Earned
  <2> QED
    BY <1>1, <2>1, OneRequest DEF Begin, Step, Count, tables
<1>2. CASE SessionGuard(q)
  <2>1. r.pc = "guarding" /\ {"pc", "late", "session"} \subseteq DOMAIN r /\ r.op \in Operations
    BY <1>0, <1>2 DEF SessionGuard, Good, Shape
  <2>2. CASE Admits(r.session.user)
    <3>1. ~r.late
      BY <1>0, <2>1, <2>2 DEF Good, Guarded, Admits
    <3>2. Good([r EXCEPT !.pc = r.op], deleted, member)
      BY <2>1, <3>1 DEF Good, Shape, Guarded, Earned
    <3> QED
      BY <1>2, <2>2, <3>2, OneRequest DEF SessionGuard, To, Step, Quiet, tables
  <2>3. CASE ~Admits(r.session.user)
    BY <1>2, <1>i, <2>3, OneRequest DEF SessionGuard, Step, Quiet, tables
  <2> QED
    BY <2>2, <2>3
<1>3. CASE DataExport(q)
  <2>1. Good([r EXCEPT !.pc = "exporting"], deleted, member)
    BY <1>0, <1>3, GoesOn DEF DataExport
  <2> QED
    BY <1>3, <1>i, <2>1, OneRequest DEF DataExport, To, Step, Quiet, tables
<1>4. CASE SoftDeleteUser(q)
  BY <1>4, <1>i, OneRequest DEF SoftDeleteUser, Step
<1>5. CASE List(q)
  <2> DEFINE new == [pc |-> "listing", late |-> r.late, session |-> r.session,
                     ws |-> resolveActiveWorkspaceId(r.session)]
  <2>1. Good(new, deleted, member)
    BY <1>0, <1>5 DEF List, Good, Shape, Guarded, Earned
  <2> QED
    BY <1>5, <2>1, OneRequest DEF List, Step, Quiet, tables
<1>6. CASE Reply(q)
  BY <1>6, <1>i, OneRequest DEF Reply, Step, Quiet, tables
<1> QED
  BY <1>1, <1>2, <1>3, <1>4, <1>5, <1>6

LEMMA MoveSteps ==
  ASSUME Requests, Tables, NEW q \in Request,
         \/ \E p \in Project, w \in organization : FindProject(q, p, w)
         \/ AccessGuard(q) \/ Gate(q) \/ Target(q) \/ AssignWorkspace(q)
  PROVE  Requests'
<1> DEFINE r == req[q]
<1>0. Good(r, deleted, member)
  BY DEF Requests
<1>i. Good(Idle, deleted, member)
  BY IdleIsGood
<1> USE DEF SignPlaces, SessionPlaces, MovePlaces, Operations
<1>1. ASSUME NEW p \in Project, NEW w \in organization, FindProject(q, p, w) PROVE Requests'
  <2> DEFINE u   == r.session.user
             new == [pc |-> "accessing", late |-> r.late, user |-> u,
                     project |-> p, source |-> workspace[p], target |-> w,
                     held |-> {x \in Range(member) : x.user = u}]
  <2>1. w # None
    BY DEF Tables
  <2>2. Shape(new) /\ Guarded(new, deleted)
    BY <1>0, <1>1 DEF FindProject, Good, Shape, Guarded
  <2>3. Earned(new, member)
    BY <2>1 DEF Earned
  <2> QED
    BY <1>1, <2>2, <2>3, OneRequest DEF FindProject, Step, Quiet, tables, Good
<1>2. CASE AccessGuard(q)
  <2>1. Good([r EXCEPT !.pc = "gating"], deleted, member)
    BY <1>0, <1>2, GoesOn DEF AccessGuard
  <2> QED
    BY <1>2, <1>i, <2>1, OneRequest DEF AccessGuard, To, Step, Quiet, tables
<1>3. CASE Gate(q)
  <2>1. CASE ~OwnsSource(r.user, r.source)
    BY <1>3, <1>i, <2>1, OneRequest DEF Gate, Step, Quiet, tables
  <2>2. CASE OwnsSource(r.user, r.source)
    <3>1. Good([r EXCEPT !.pc = "replying"], deleted, member)
      BY <1>0, <1>3, GoesOn DEF Gate
    <3>2. \E x \in r.held : x.ws = r.source /\ x.user = r.user /\ x.role = "owner"
      BY <1>0, <1>3, <2>2 DEF Gate, Good, Earned, OwnsSource, isWorkspaceOwner
    <3>3. Good([r EXCEPT !.pc = "targeting"], deleted, member)
      BY <1>0, <1>3, <3>2 DEF Gate, Good, Shape, Guarded, Earned
    <3> QED
      BY <1>3, <2>2, <3>1, <3>3, OneRequest DEF Gate, To, Step, Quiet, tables
  <2> QED
    BY <2>1, <2>2
<1>4. CASE Target(q)
  <2>1. CASE isMember(r.user, r.target)
    <3>1. \E x \in r.held : x.ws = r.target /\ x.user = r.user
      BY <1>0, <1>4, <2>1 DEF Target, Good, Earned, isMember
    <3>2. Good([r EXCEPT !.pc = "assigning"], deleted, member)
      BY <1>0, <1>4, <3>1 DEF Target, Good, Shape, Guarded, Earned
    <3> QED
      BY <1>4, <2>1, <3>2, OneRequest DEF Target, To, Step, Quiet, tables
  <2>2. CASE ~isMember(r.user, r.target)
    BY <1>4, <1>i, <2>2, OneRequest DEF Target, Step, Quiet, tables
  <2> QED
    BY <2>1, <2>2
<1>5. CASE AssignWorkspace(q)
  <2>1. Good([r EXCEPT !.pc = "replying"], deleted, member)
    BY <1>0, <1>5, GoesOn DEF AssignWorkspace
  <2> QED
    BY <1>5, <2>1, OneRequest DEF AssignWorkspace, To, Step
<1> QED
  BY <1>1, <1>2, <1>3, <1>4, <1>5

-----------------------------------------------------------------------------
(* The steps that change memberships and workspaces. *)

\* Noting the rows there are now keeps the moves in flight good.
LEMMA HoldingIsGood ==
  ASSUME NEW u, NEW r, NEW gone, Good(r, gone, member),
         NEW new, new = IF "held" \in DOMAIN r /\ r.user = u
                          THEN [r EXCEPT !.held = @ \cup Range(member')] ELSE r,
         \A x \in Range(member') : x.user # u => x \in Range(member)
  PROVE  Good(new, gone, member')
<1> USE DEF SignPlaces, SessionPlaces, MovePlaces, Operations
<1>1. CASE "held" \in DOMAIN r /\ r.user = u
  <2>1. new = [r EXCEPT !.held = r.held \cup Range(member')]
    BY <1>1
  <2>2. Shape(new) /\ Guarded(new, gone)
    BY <2>1 DEF Good, Shape, Guarded
  <2>3. Earned(new, member')
    BY <2>1 DEF Good, Shape, Earned
  <2> QED
    BY <2>2, <2>3 DEF Good
<1>2. CASE ~("held" \in DOMAIN r /\ r.user = u)
  <2>1. new = r
    BY <1>2
  <2>2. r.pc \in MovePlaces => r.user # u
    BY <1>2 DEF Good, Shape
  <2>3. Earned(r, member')
    BY <2>2 DEF Good, Earned
  <2> QED
    BY <2>1, <2>3 DEF Good
<1> QED
  BY <1>1, <1>2

LEMMA NewWorkspace ==
  ASSUME IInv, NEW q \in Request, Served, InsertOrganization(q)
  PROVE  IInv'
<1> DEFINE r == req[q]
           w == <<r.user, Cardinality(Personal(r.user)) + 1>>
<1>0. Good(r, deleted, member) /\ r.user \in User
  BY DEF IInv, Requests, InsertOrganization, Good, Shape, SignPlaces
<1>1. CASE SlugTaken(r.user)
  <2>1. Good([r EXCEPT !.pc = "rereading"], deleted, member)
    BY <1>0, GoesOn DEF InsertOrganization, SignPlaces
  <2>2. Requests'
    BY <1>1, <2>1, OneRequest DEF InsertOrganization, To, Step, IInv
  <2>3. Tables'
    BY <1>1, TablesStay DEF InsertOrganization, IInv
  <2> QED
    BY <2>2, <2>3 DEF IInv
<1>2. CASE ~SlugTaken(r.user)
  <2>1. w = <<r.user, 1>>
    BY <1>2, FS_EmptySet DEF SlugTaken
  <2>2. w # None /\ w \in Workspace
    BY <1>0, <2>1, AccountsAssumption DEF Workspace
  <2>3. Good([r EXCEPT !.pc = "joining", !.ws = w], deleted, member)
    BY <1>0, <2>2 DEF InsertOrganization, Good, Shape, Guarded, Earned, SignPlaces, SessionPlaces,
                      MovePlaces, Operations
  <2>4. Requests'
    BY <1>2, <2>3, OneRequest DEF InsertOrganization, Step, IInv
  <2>5. organization' = organization \cup {w} /\ UNCHANGED <<member, workspace>>
    BY <1>2 DEF InsertOrganization
  <2>6. Tables'
    BY <2>2, <2>5 DEF IInv, Tables, Served
  <2> QED
    BY <2>4, <2>6 DEF IInv
<1> QED
  BY <1>1, <1>2

LEMMA NewMember ==
  ASSUME IInv, NEW q \in Request, Served, InsertMember(q)
  PROVE  IInv'
<1> DEFINE r   == req[q]
           row == [user |-> r.user, ws |-> r.ws, role |-> "owner"]
           to  == [req EXCEPT ![q] = [r EXCEPT !.pc = "inserting"]]
<1>0. Good(r, deleted, member) /\ r.user \in User /\ r.ws \in Workspace
  BY DEF IInv, Requests, InsertMember, Good, Shape, SignPlaces
<1>1. row \in Member /\ member \in Seq(Member)
  BY <1>0 DEF Member, IInv, Tables
<1>2. member' \in Seq(Member) /\ Range(member') = Range(member) \cup {row}
  BY <1>1, AppendRange DEF InsertMember
<1>3. \A x \in Range(member') : x.user # r.user => x \in Range(member)
  BY <1>2
<1>4. \A p \in Request : Good(to[p], deleted, member)
  <2>1. Good([r EXCEPT !.pc = "inserting"], deleted, member)
    BY <1>0, GoesOn DEF InsertMember, SignPlaces
  <2> QED
    BY <2>1 DEF IInv, Requests
<1>5. req' = Holding(r.user, to) /\ deleted' = deleted
  BY DEF InsertMember
<1>6. \A p \in Request : Good(req'[p], deleted, member')
  <2> TAKE p \in Request
  <2>1. req'[p] = IF "held" \in DOMAIN to[p] /\ to[p].user = r.user
                    THEN [to[p] EXCEPT !.held = @ \cup Range(member')] ELSE to[p]
    BY <1>5 DEF Holding
  <2> QED
    BY <1>3, <1>4, <2>1, HoldingIsGood
<1>7. Requests'
  BY <1>5, <1>6 DEF Requests, Holding
<1>8. Tables'
  BY <1>2 DEF IInv, Tables, Served, InsertMember
<1> QED
  BY <1>7, <1>8 DEF IInv

LEMMA ChangedMember ==
  ASSUME IInv, NEW u \in User, NEW w \in Team, NEW role \in {"owner", "member", None},
         ChangeMember(u, w, role)
  PROVE  IInv'
<1> DEFINE at  == CHOOSE i \in DOMAIN member : member[i].user = u /\ member[i].ws = w
           row == [user |-> u, ws |-> w, role |-> role]
<1>1. member \in Seq(Member)
  BY DEF IInv, Tables
<1>2. role # None => row \in Member
  BY DEF Member, Workspace
<1>3. isMember(u, w) => at \in DOMAIN member /\ at \in 1 .. Len(member)
  BY <1>1 DEF isMember, Range
<1>4. member' \in Seq(Member) /\ Range(member') \subseteq Range(member) \cup {row}
  <2>1. CASE ~isMember(u, w) /\ role # None /\ member' = Append(member, row)
    <3>1. Append(member, row) \in Seq(Member) /\ Range(Append(member, row)) = Range(member) \cup {row}
      BY <1>1, <1>2, <2>1, AppendRange
    <3> QED
      BY <2>1, <3>1
  <2>2. CASE isMember(u, w) /\ role # None /\ member' = [member EXCEPT ![at] = row]
    <3>1. /\ [member EXCEPT ![at] = row] \in Seq(Member)
          /\ Range([member EXCEPT ![at] = row]) \subseteq Range(member) \cup {row}
      <4>1. at \in DOMAIN member /\ row \in Member
        BY <1>2, <1>3, <2>2
      <4> HIDE DEF at, row
      <4> QED
        BY <1>1, <4>1, UpdatedRange
    <3> QED
      BY <2>2, <3>1
  <2>3. CASE isMember(u, w) /\ role = None /\ member' = RemoveAt(member, at)
    BY <1>1, <1>3, <2>3, RemovedRange
  <2> QED
    BY <2>1, <2>2, <2>3 DEF ChangeMember
<1>5. \A x \in Range(member') : x.user # u => x \in Range(member)
  BY <1>4
<1>6. req' = Holding(u, req) /\ deleted' = deleted
  BY DEF ChangeMember
<1>7. \A p \in Request : Good(req'[p], deleted, member')
  <2> TAKE p \in Request
  <2>1. req'[p] = IF "held" \in DOMAIN req[p] /\ req[p].user = u
                    THEN [req[p] EXCEPT !.held = @ \cup Range(member')] ELSE req[p]
    BY <1>6 DEF Holding
  <2>2. Good(req[p], deleted, member)
    BY DEF IInv, Requests
  <2> QED
    BY <1>5, <2>1, <2>2, HoldingIsGood
<1>8. Requests'
  BY <1>6, <1>7 DEF Requests, Holding
<1>9. Tables'
  BY <1>4 DEF IInv, Tables, Served, ChangeMember
<1> QED
  BY <1>8, <1>9 DEF IInv

\* The migration: it lays out rows of members, and gives no project None.
LEMMA Migrated ==
  ASSUME IInv, Migrate
  PROVE  IInv'
<1> DEFINE made    == {u \in User : Synthesized(u)}
           home(u) == IF Personal(u) # {} THEN CHOOSE w \in Personal(u) : TRUE ELSE <<u, 1>>
           row(u)  == [user |-> u, ws |-> home(u), role |-> "owner"]
           new     == {row(u) : u \in made}
           rows    == member \o SetToSeq(new)
           For(u)  == IF FirstIn(u, rows) # None THEN FirstIn(u, rows)
                      ELSE IF Personal(u) # {} THEN home(u) ELSE Orphanage
<1>1. /\ member' = rows
      /\ workspace' = [p \in Project |-> For(Owner[p])]
      /\ organization' = organization \cup {home(u) : u \in made} \cup Range(workspace')
  BY DEF Migrate, Backfill
<1>2. ~Served
  BY DEF Migrate, Served
<1>3. \A u \in User : home(u) \in Workspace /\ home(u) # None
  <2> TAKE u \in User
  <2>1. Personal(u) \subseteq organization /\ Personal(u) \subseteq User \X Nat
    BY AccountsAssumption DEF Personal
  <2>2. CASE Personal(u) # {}
    BY <2>1, <2>2 DEF IInv, Tables, Workspace
  <2>3. CASE Personal(u) = {}
    BY <2>3, AccountsAssumption DEF Workspace
  <2> QED
    BY <2>2, <2>3
<1>4. IsFiniteSet(new)
  <2>1. IsFiniteSet(made)
    BY FS_Subset, AccountsAssumption
  <2> DEFINE f == [u \in made |-> row(u)]
  <2>2. f \in Surjection(made, new)
    BY DEF Surjection
  <2> QED
    BY <2>1, <2>2, FS_Surjection
<1>5. new \subseteq Member
  <2>1. ASSUME NEW u \in made PROVE row(u) \in Member
    <3>1. u \in User /\ home(u) \in Workspace
      BY <1>3
    <3> HIDE DEF home
    <3> QED
      BY <3>1 DEF Member
  <2> QED
    BY <2>1
<1>6. rows \in Seq(Member)
  <2>1. SetToSeq(new) \in Seq(new)
    BY <1>4, LaidOut
  <2>2. SetToSeq(new) \in Seq(Member)
    <3> HIDE DEF new
    <3> QED
      BY <1>5, <2>1
  <2>3. member \in Seq(Member)
    BY DEF IInv, Tables
  <2>4. \A t \in Seq(Member) : member \o t \in Seq(Member)
    BY <2>3, ConcatRange
  <2> HIDE DEF new
  <2> QED
    BY <2>2, <2>4
<1>7. \A p \in Project : workspace'[p] # None
  <2> TAKE p \in Project
  <2>1. workspace'[p] = For(Owner[p])
    BY <1>1
  <2>2. \A u : Personal(u) # {} => home(u) # None
    BY DEF Personal, IInv, Tables
  <2>3. For(Owner[p]) # None
    <3> HIDE DEF rows, home
    <3> QED
      BY <2>2, AccountsAssumption
  <2> QED
    BY <2>1, <2>3
<1>8. None \notin organization'
  <2>1. None \notin Range(workspace')
    BY <1>1, <1>7 DEF Range
  <2>2. None \notin {home(u) : u \in made}
    BY <1>3
  <2> QED
    BY <1>1, <2>1, <2>2 DEF IInv, Tables
<1>9. Tables'
  <2>1. DOMAIN workspace' = Project /\ Served'
    BY <1>1, <1>7 DEF Served
  <2> QED
    BY <1>1, <1>6, <1>8, <2>1 DEF Tables
<1>10. Requests'
  <2>1. req' = req /\ \A q \in Request : req[q] = Idle
    BY <1>2 DEF Migrate, IInv, Tables
  <2>2. \A q \in Request : Good(req'[q], deleted', member')
    BY <2>1, IdleIsGood
  <2> QED
    BY <2>1, <2>2 DEF Requests, IInv
<1> QED
  BY <1>9, <1>10 DEF IInv

-----------------------------------------------------------------------------
LEMMA InitInv == Init => IInv
<1> SUFFICES ASSUME Init PROVE IInv
  OBVIOUS
<1>1. \A q \in Request : req[q] = Idle /\ DOMAIN req = Request
  BY DEF Init
<1>2. DOMAIN req = Request /\ DOMAIN workspace = Project
  BY DEF Init
<1>3. member \in Seq(Member) /\ None \notin organization
  BY AccountsAssumption DEF Init
<1> QED
  BY <1>1, <1>2, <1>3, IdleIsGood DEF IInv, Requests, Tables

LEMMA StepInv == IInv /\ [Next]_vars => IInv'
<1> SUFFICES ASSUME IInv, [Next]_vars PROVE IInv'
  OBVIOUS
<1> USE DEF IInv
<1>1. CASE Migrate
  BY <1>1, Migrated
<1>2. ASSUME Served, NEW q \in Request, NEW u \in User, SignIn(q, u) PROVE IInv'
  BY <1>2, SignInSteps, TablesStay DEF SignIn, tables
<1>3. ASSUME Served, NEW q \in Request, NEW s \in session, NEW op \in Operations, Begin(q, s, op)
      PROVE  IInv'
  BY <1>3, SessionSteps, TablesStay DEF Begin, tables
<1>4. ASSUME Served, NEW q \in Request, Handle(q) PROVE IInv'
  <2>1. CASE CheckDeleted(q) \/ FindWorkspace(q) \/ Reread(q) \/ Reject(q) \/ InsertSession(q)
    BY <1>4, <2>1, SignInSteps, TablesStay
       DEF CheckDeleted, FindWorkspace, Reread, Reject, InsertSession, Quiet, tables
  <2>2. CASE InsertOrganization(q)
    BY <1>4, <2>2, NewWorkspace
  <2>3. CASE InsertMember(q)
    BY <1>4, <2>3, NewMember
  <2>4. CASE SessionGuard(q) \/ DataExport(q) \/ SoftDeleteUser(q) \/ List(q) \/ Reply(q)
    BY <1>4, <2>4, SessionSteps, TablesStay
       DEF SessionGuard, DataExport, SoftDeleteUser, List, Reply, Quiet, tables
  <2>5. ASSUME \/ \E p \in Project, w \in organization : FindProject(q, p, w)
               \/ AccessGuard(q) \/ Gate(q) \/ Target(q)
        PROVE  IInv'
    <3>1. Requests'
      BY <2>5, MoveSteps
    <3>2. UNCHANGED tables
      BY <2>5 DEF FindProject, AccessGuard, Gate, Target, Quiet
    <3> QED
      BY <1>4, <3>1, <3>2, TablesStay DEF tables
  <2>6. CASE AssignWorkspace(q)
    <3>1. Requests'
      BY <2>6, MoveSteps
    <3>2. req[q].target # None
      BY <2>6 DEF AssignWorkspace, Requests, Good, Earned, MovePlaces
    <3>3. DOMAIN workspace' = Project /\ Served'
      BY <1>4, <2>6, <3>2 DEF AssignWorkspace, Served, Tables
    <3> QED
      BY <2>6, <3>1, <3>3 DEF AssignWorkspace, Tables
  <2> QED
    BY <1>4, <2>1, <2>2, <2>3, <2>4, <2>5, <2>6 DEF Handle
<1>5. ASSUME NEW u \in User, NEW w \in Team, NEW role \in {"owner", "member", None},
             ChangeMember(u, w, role)
      PROVE  IInv'
  BY <1>5, ChangedMember
<1>6. ASSUME NEW s \in session, SignOut(s) \/ \E w \in organization : SetActive(s, w)
      PROVE  IInv'
  BY <1>6 DEF SignOut, SetActive, Requests, Tables, Served
<1>7. CASE UNCHANGED vars
  BY <1>7 DEF vars, tables, Requests, Tables, Served
<1> QED
  BY <1>1, <1>2, <1>3, <1>4, <1>5, <1>6, <1>7 DEF Next, Operations

\* A session whose sign-in overtook the deletion of its user serves nothing:
\* every guarded request that came after it stops at the guard (session.guard.ts:64).
THEOREM DeletedStayOut == Spec => []DeletedIsNeverServed
<1>1. IInv => DeletedIsNeverServed
  BY DEF IInv, Requests, Good, Guarded, DeletedIsNeverServed
<1> QED
  BY <1>1, InitInv, StepInv, PTL DEF Spec

\* Whoever changes memberships meanwhile, a move that is written was asked for by
\* one who, while it ran, owned its source and belonged to its target
\* (project.controller.ts:110-130).
THEOREM MovesWereEarned == Spec => []MovesAreEarned
<1>1. IInv => MovesAreEarned
  BY DEF IInv, Requests, Good, Earned, MovePlaces, MovesAreEarned
<1> QED
  BY <1>1, InitInv, StepInv, PTL DEF Spec
-----------------------------------------------------------------------------
(* The earliest membership of a user. *)

\* Of some positions one is the least.
Less == {p \in Nat \X Nat : p[1] < p[2]}

LEMMA LeastNatural ==
  ASSUME NEW S \in SUBSET Nat, S # {}
  PROVE  \E m \in S : \A k \in S : m <= k
<1>1. IsWellFoundedOn(Less, Nat)
  <2>1. Less = OpToRel(<, Nat)
    BY DEF Less, OpToRel
  <2> QED
    BY <2>1, NatLessThanWellFounded
<1>2. PICK x \in S : \A y \in S : ~(<<y, x>> \in Less)
  BY <1>1, WFMin
<1>3. \A y \in S : <<y, x>>[1] = y /\ <<y, x>>[2] = x
  OBVIOUS
<1>4. \A y \in S : ~(y < x)
  BY <1>2, <1>3 DEF Less
<1> QED
  BY <1>4

LEMMA MinIsLeast ==
  ASSUME NEW S \in SUBSET Nat, NEW i \in S, \A k \in S : i <= k
  PROVE  Min(S) = i
<1>1. \A m \in S : (\A k \in S : m <= k) => m = i
  OBVIOUS
<1> QED
  BY <1>1 DEF Min

\* Row i is the first of user u.
Earliest(u, rows, i) ==
  /\ i \in DOMAIN rows /\ rows[i].user = u
  /\ \A j \in DOMAIN rows : rows[j].user = u => i <= j

LEMMA FirstIsEarliest ==
  ASSUME NEW rows \in Seq(Member), NEW u, NEW i, Earliest(u, rows, i)
  PROVE  FirstIn(u, rows) = rows[i].ws /\ FirstIn(u, rows) # None
<1> DEFINE at == {k \in DOMAIN rows : rows[k].user = u}
<1>1. at \subseteq Nat /\ i \in at /\ \A k \in at : i <= k
  BY DEF Earliest
<1>2. Min(at) = i
  <2> HIDE DEF at
  <2> QED
    BY <1>1, MinIsLeast
<1>3. rows[i] \in Member
  BY DEF Earliest
<1> QED
  BY <1>1, <1>2, <1>3, AccountsAssumption DEF FirstIn, Member

LEMMA EarliestOrNone ==
  ASSUME NEW rows \in Seq(Member), NEW u
  PROVE  \/ FirstIn(u, rows) = None /\ \A i \in DOMAIN rows : rows[i].user # u
         \/ \E i : Earliest(u, rows, i)
<1> DEFINE at == {k \in DOMAIN rows : rows[k].user = u}
<1>1. CASE at = {}
  BY <1>1 DEF FirstIn
<1>2. CASE at # {}
  <2>1. at \subseteq Nat
    OBVIOUS
  <2>2. \E i \in at : \A k \in at : i <= k
    <3> HIDE DEF at
    <3> QED
      BY <1>2, <2>1, LeastNatural
  <2> QED
    BY <2>2 DEF Earliest
<1> QED
  BY <1>1, <1>2

\* Two tables in which the rows of u are the same, in the same order, have the
\* same first of them: k moves the positions.
LEMMA FirstMoves ==
  ASSUME NEW rows \in Seq(Member), NEW new \in Seq(Member), NEW u,
         NEW k \in [DOMAIN rows -> Nat],
         \A i \in DOMAIN rows : rows[i].user = u => k[i] \in DOMAIN new /\ new[k[i]] = rows[i],
         \A j \in DOMAIN new : new[j].user = u => \E i \in DOMAIN rows : k[i] = j /\ rows[i].user = u,
         \A i, j \in DOMAIN rows : i <= j => k[i] <= k[j]
  PROVE  FirstIn(u, new) = FirstIn(u, rows)
<1>1. CASE FirstIn(u, rows) = None /\ \A i \in DOMAIN rows : rows[i].user # u
  <2>1. \A i : ~Earliest(u, new, i)
    BY <1>1 DEF Earliest
  <2> QED
    BY <1>1, <2>1, EarliestOrNone
<1>2. ASSUME NEW i, Earliest(u, rows, i) PROVE FirstIn(u, new) = FirstIn(u, rows)
  <2>1. i \in DOMAIN rows /\ rows[i].user = u /\ k[i] \in DOMAIN new /\ new[k[i]] = rows[i]
    BY <1>2 DEF Earliest
  <2>2. ASSUME NEW j \in DOMAIN new, new[j].user = u PROVE k[i] <= j
    <3>1. PICK h \in DOMAIN rows : k[h] = j /\ rows[h].user = u
      BY <2>2
    <3>2. i <= h
      BY <1>2, <3>1 DEF Earliest
    <3> QED
      BY <2>1, <3>1, <3>2
  <2>3. Earliest(u, new, k[i])
    BY <2>1, <2>2 DEF Earliest
  <2> QED
    BY <1>2, <2>1, <2>3, FirstIsEarliest
<1> QED
  BY <1>1, <1>2, EarliestOrNone

\* A new row is the earliest of its user only if it is the only one.
LEMMA FirstOfAppend ==
  ASSUME NEW rows \in Seq(Member), NEW e \in Member, NEW u
  PROVE  FirstIn(u, Append(rows, e))
           = IF e.user = u /\ FirstIn(u, rows) = None THEN e.ws ELSE FirstIn(u, rows)
<1> DEFINE new == Append(rows, e)
<1>1. /\ new \in Seq(Member) /\ Len(rows) \in Nat
      /\ DOMAIN rows = 1 .. Len(rows) /\ DOMAIN new = 1 .. (Len(rows) + 1)
      /\ \A i \in 1 .. Len(rows) : new[i] = rows[i]
      /\ new[Len(rows) + 1] = e
  OBVIOUS
<1> HIDE DEF new
<1>2. CASE FirstIn(u, rows) = None /\ \A i \in DOMAIN rows : rows[i].user # u
  <2>1. CASE e.user = u
    <3>1. Earliest(u, new, Len(rows) + 1)
      BY <1>1, <1>2, <2>1 DEF Earliest
    <3>2. FirstIn(u, new) = new[Len(rows) + 1].ws
      BY <1>1, <3>1, FirstIsEarliest
    <3>3. FirstIn(u, new) = e.ws
      BY <1>1, <3>2
    <3> QED
      BY <1>2, <2>1, <3>3 DEF new
  <2>2. CASE e.user # u
    <3>1. \A i : ~Earliest(u, new, i)
      BY <1>1, <1>2, <2>2 DEF Earliest
    <3> QED
      BY <1>1, <1>2, <2>2, <3>1, EarliestOrNone DEF new
  <2> QED
    BY <2>1, <2>2
<1>3. ASSUME NEW i, Earliest(u, rows, i)
      PROVE  FirstIn(u, new) = FirstIn(u, rows) /\ FirstIn(u, rows) # None
  <2>1. Earliest(u, new, i)
    BY <1>1, <1>3 DEF Earliest
  <2>2. new[i] = rows[i]
    BY <1>1, <1>3 DEF Earliest
  <2> QED
    BY <1>1, <1>3, <2>1, <2>2, FirstIsEarliest
<1> QED
  BY <1>2, <1>3, EarliestOrNone DEF new

\* The rows of the others keep their order when one of v changes or goes.
LEMMA FirstOfUpdate ==
  ASSUME NEW rows \in Seq(Member), NEW i \in DOMAIN rows, NEW e \in Member, NEW u,
         rows[i].user # u, e.user # u
  PROVE  FirstIn(u, [rows EXCEPT ![i] = e]) = FirstIn(u, rows)
<1> DEFINE new == [rows EXCEPT ![i] = e]
           k   == [j \in DOMAIN rows |-> j]
<1>1. /\ new \in Seq(Member) /\ DOMAIN new = DOMAIN rows
      /\ new[i] = e /\ \A j \in DOMAIN rows \ {i} : new[j] = rows[j]
  OBVIOUS
<1>2. k \in [DOMAIN rows -> Nat] /\ \A j \in DOMAIN rows : k[j] = j
  OBVIOUS
<1> HIDE DEF new, k
<1>3. \A j \in DOMAIN rows : rows[j].user = u => k[j] \in DOMAIN new /\ new[k[j]] = rows[j]
  BY <1>1, <1>2
<1>4. \A j \in DOMAIN new : new[j].user = u => \E h \in DOMAIN rows : k[h] = j /\ rows[h].user = u
  BY <1>1, <1>2
<1>5. \A h, j \in DOMAIN rows : h <= j => k[h] <= k[j]
  BY <1>2
<1>6. FirstIn(u, new) = FirstIn(u, rows)
  BY <1>1, <1>2, <1>3, <1>4, <1>5, FirstMoves
<1> QED
  BY <1>6 DEF new

LEMMA FirstOfRemove ==
  ASSUME NEW rows \in Seq(Member), NEW i \in DOMAIN rows, NEW u, rows[i].user # u
  PROVE  FirstIn(u, RemoveAt(rows, i)) = FirstIn(u, rows)
<1> DEFINE n   == Len(rows)
           new == RemoveAt(rows, i)
           k   == [j \in 1 .. n |-> IF j <= i THEN j ELSE j - 1]
<1>1. n \in Nat /\ DOMAIN rows = 1 .. n /\ i \in 1 .. n /\ \A j \in 1 .. n : rows[j] \in Member
  OBVIOUS
<1>2. /\ SubSeq(rows, 1, i - 1) \in Seq(Member) /\ Len(SubSeq(rows, 1, i - 1)) = i - 1
      /\ \A j \in 1 .. i - 1 : SubSeq(rows, 1, i - 1)[j] = rows[j]
  <2>1. i - 1 \in Nat /\ \A j \in 1 .. i - 1 : rows[j] \in Member
    BY <1>1
  <2> QED
    BY <1>1, <2>1, SubSeqProperties
<1>3. /\ SubSeq(rows, i + 1, n) \in Seq(Member) /\ Len(SubSeq(rows, i + 1, n)) = n - i
      /\ \A j \in 1 .. n - i : SubSeq(rows, i + 1, n)[j] = rows[i + j]
  <2>1. \A j \in i + 1 .. n : rows[j] \in Member
    BY <1>1
  <2>2. /\ SubSeq(rows, i + 1, n) \in Seq(Member)
        /\ Len(SubSeq(rows, i + 1, n)) = IF i + 1 <= n THEN n - (i + 1) + 1 ELSE 0
        /\ \A j \in 1 .. n - (i + 1) + 1 : SubSeq(rows, i + 1, n)[j] = rows[(i + 1) + j - 1]
    BY <1>1, <2>1, SubSeqProperties
  <2> QED
    BY <1>1, <2>2
<1>4. /\ new \in Seq(Member) /\ Len(new) = n - 1
      /\ \A j \in 1 .. n - 1 : new[j] = IF j < i THEN rows[j] ELSE rows[j + 1]
  <2> DEFINE a == SubSeq(rows, 1, i - 1)
             b == SubSeq(rows, i + 1, n)
  <2>1. new = a \o b
    BY DEF RemoveAt
  <2> HIDE DEF a, b, new
  <2>2. /\ a \o b \in Seq(Member) /\ Len(a \o b) = Len(a) + Len(b)
        /\ \A j \in 1 .. Len(a) + Len(b) :
             (a \o b)[j] = IF j <= Len(a) THEN a[j] ELSE b[j - Len(a)]
    BY <1>2, <1>3, ConcatProperties DEF a, b
  <2>3. Len(a) = i - 1 /\ Len(b) = n - i
    BY <1>2, <1>3 DEF a, b
  <2>4. ASSUME NEW j \in 1 .. n - 1
        PROVE  new[j] = IF j < i THEN rows[j] ELSE rows[j + 1]
    <3>1. CASE j < i
      BY <1>1, <1>2, <2>1, <2>2, <2>3, <3>1 DEF a
    <3>2. CASE ~(j < i)
      <4>1. j - (i - 1) \in 1 .. n - i /\ i + (j - (i - 1)) = j + 1
        BY <1>1, <3>2
      <4>2. new[j] = b[j - (i - 1)]
        BY <1>1, <2>1, <2>2, <2>3, <3>2
      <4> QED
        BY <1>3, <3>2, <4>1, <4>2 DEF b
    <3> QED
      BY <3>1, <3>2
  <2> QED
    BY <1>1, <2>1, <2>2, <2>3, <2>4
<1>5. DOMAIN new = 1 .. n - 1
  BY <1>4
<1>6. k \in [DOMAIN rows -> Nat] /\ \A j \in 1 .. n : k[j] = IF j <= i THEN j ELSE j - 1
  BY <1>1
<1> HIDE DEF new, k, n
<1>7. ASSUME NEW j \in DOMAIN rows, rows[j].user = u
      PROVE  k[j] \in DOMAIN new /\ new[k[j]] = rows[j]
  BY <1>1, <1>4, <1>5, <1>6, <1>7
<1>8. ASSUME NEW j \in DOMAIN new, new[j].user = u
      PROVE  \E h \in DOMAIN rows : k[h] = j /\ rows[h].user = u
  <2>1. CASE j < i
    BY <1>1, <1>4, <1>5, <1>6, <1>8, <2>1
  <2>2. CASE ~(j < i)
    <3>1. j + 1 \in DOMAIN rows /\ k[j + 1] = j /\ new[j] = rows[j + 1]
      BY <1>1, <1>4, <1>5, <1>6, <2>2
    <3> QED
      BY <1>8, <3>1
  <2> QED
    BY <2>1, <2>2
<1>9. \A h, j \in DOMAIN rows : h <= j => k[h] <= k[j]
  BY <1>1, <1>6
<1>10. FirstIn(u, new) = FirstIn(u, rows)
  BY <1>4, <1>6, <1>7, <1>8, <1>9, FirstMoves
<1> QED
  BY <1>10 DEF new

\* Every member of a set that is laid out behind the rows is among them.
LEMMA FirstOfLaidOut ==
  ASSUME NEW rows \in Seq(Member), NEW S \in SUBSET Member, IsFiniteSet(S),
         NEW e \in S
  PROVE  FirstIn(e.user, rows \o SetToSeq(S)) # None
<1> DEFINE b   == SetToSeq(S)
           new == rows \o b
<1>1. b \in Injection(1 .. Cardinality(S), S) /\ Cardinality(S) \in Nat
  <2>1. Cardinality(S) \in Nat /\ \E f \in [1 .. Cardinality(S) -> S] : IsInjective(f)
    BY FS_CardinalityType DEF ExistsBijection, Bijection, Injection
  <2> QED
    BY <2>1 DEF SetToSeq, Injection, IsInjective
<1>2. b \in Surjection(1 .. Cardinality(S), S)
  <2>1. Cardinality(1 .. Cardinality(S)) = Cardinality(S)
    BY <1>1, FS_Interval
  <2> QED
    BY <1>1, <2>1, FS_Injection
<1>3. PICK j \in 1 .. Cardinality(S) : b[j] = e
  BY <1>2 DEF Surjection
<1>4. b \in Seq(Member) /\ Len(b) = Cardinality(S)
  <2>1. b \in [1 .. Cardinality(S) -> S]
    BY <1>1 DEF Injection
  <2> HIDE DEF b
  <2> QED
    BY <1>1, <2>1
<1> HIDE DEF b
<1>5. new \in Seq(Member) /\ Len(new) = Len(rows) + Len(b) /\ new[Len(rows) + j] = b[j]
  <2>1. Len(rows) \in Nat
    OBVIOUS
  <2>2. /\ rows \o b \in Seq(Member) /\ Len(rows \o b) = Len(rows) + Len(b)
        /\ \A i \in 1 .. Len(rows) + Len(b) :
             (rows \o b)[i] = IF i <= Len(rows) THEN rows[i] ELSE b[i - Len(rows)]
    BY <1>4, ConcatProperties
  <2>3. Len(rows) + j \in 1 .. Len(rows) + Len(b) /\ ~(Len(rows) + j <= Len(rows))
        /\ (Len(rows) + j) - Len(rows) = j
    BY <1>1, <1>3, <1>4, <2>1
  <2> QED
    BY <2>2, <2>3
<1>6. Len(rows) + j \in DOMAIN new
  BY <1>1, <1>3, <1>4, <1>5
<1>7. new[Len(rows) + j].user = e.user
  BY <1>3, <1>5
<1> HIDE DEF new
<1>8. \E i : Earliest(e.user, new, i)
  BY <1>5, <1>6, <1>7, EarliestOrNone
<1> QED
  BY <1>5, <1>8, FirstIsEarliest DEF new, b
-----------------------------------------------------------------------------
(* Sessions and workspaces.  A user is settled while nobody changed its     *)
(* memberships or the workspace one of its sessions is in; what its         *)
(* sign-ins and the migration gave it is then one workspace, the earliest.  *)

\* Where a sign-in stands: the one that inserted the workspace adds the first
\* membership, and whoever met no membership will not insert another workspace.
Signs(r) ==
  r.pc \in SignPlaces =>
    /\ r.pc = "joining" => Personal(r.user) # {}
    /\ r.user \in settled =>
         /\ r.pc = "creating" => findFirstWorkspaceId(r.user) = None \/ Personal(r.user) # {}
         /\ r.pc = "joining" => findFirstWorkspaceId(r.user) = None
         /\ r.pc = "inserting" /\ r.ws # None => r.ws = findFirstWorkspaceId(r.user)

SignIns == \A q \in Request : Signs(req[q])

\* The slug is unique: two sign-ins of a user never both insert its workspace.
OneJoins ==
  \A p, q \in Request :
    req[p].pc = "joining" /\ req[q].pc = "joining" /\ req[p].user = req[q].user => p = q

\* The workspace a session carries, if any, is the one its user falls back to.
Sessions ==
  /\ \A s \in session : s.user \in User
  /\ \A s \in session : s.user \in settled /\ s.active # None
                          => s.active = findFirstWorkspaceId(s.user)

\* The migration put the projects of a user where its sessions will look.
Homes ==
  Served => \A p \in unmoved :
    Owner[p] \in settled =>
      findFirstWorkspaceId(Owner[p]) # None /\ workspace[p] = findFirstWorkspaceId(Owner[p])

Histories ==
  settled \subseteq User /\ unmoved \subseteq Project /\ (~Served => session = {})

Agree == SignIns /\ OneJoins /\ Sessions /\ Homes /\ Histories

\* One request moves on and nothing else that matters changes.
LEMMA OneSigns ==
  ASSUME IInv, Agree, NEW q \in Request, NEW r, req' = [req EXCEPT ![q] = r],
         Signs(r), r.pc = "joining" => req[q].pc = "joining" /\ r.user = req[q].user,
         Served,
         UNCHANGED <<organization, member, workspace, session, settled, unmoved>>
  PROVE  Agree'
<1>1. DOMAIN req = Request /\ req'[q] = r /\ \A p \in Request \ {q} : req'[p] = req[p]
  BY DEF IInv, Requests
<1>2. \A p \in Request : Signs(req'[p])
  BY <1>1 DEF Agree, SignIns
<1>3. SignIns'
  BY <1>2 DEF SignIns, Signs, Personal, findFirstWorkspaceId
<1>4. OneJoins'
  BY <1>1 DEF Agree, OneJoins
<1> QED
  BY <1>3, <1>4 DEF Agree, Sessions, Homes, Histories, Served, findFirstWorkspaceId

\* A request that is not a sign-in, or one that has learnt nothing yet.
LEMMA OthersSign ==
  ASSUME NEW r, r.pc \notin {"creating", "joining", "inserting"}
  PROVE  Signs(r)
BY DEF Signs

LEMMA SignInsAgree ==
  ASSUME IInv, Agree, Served, NEW q \in Request,
         \/ \E u \in User : SignIn(q, u)
         \/ CheckDeleted(q) \/ FindWorkspace(q) \/ Reread(q) \/ Reject(q)
  PROVE  Agree'
<1> DEFINE r == req[q]
           u == r.user
<1>0. {"pc"} \subseteq DOMAIN r /\ Good(r, deleted, member)
  BY DEF IInv, Requests, Good, Shape
<1>i. Signs(Idle)
  BY OthersSign DEF Idle
<1>1. ASSUME NEW v \in User, SignIn(q, v) PROVE Agree'
  <2> DEFINE new == [pc |-> "checking", user |-> v, ws |-> None]
  <2>1. Signs(new)
    BY OthersSign
  <2> QED
    BY <1>1, <2>1, OneSigns DEF SignIn, Step, Count, tables
<1>2. CASE CheckDeleted(q)
  <2>1. Signs([r EXCEPT !.pc = "finding"])
    BY <1>0, OthersSign
  <2> QED
    BY <1>0, <1>2, <1>i, <2>1, OneSigns DEF CheckDeleted, Step, To, Quiet, tables, Idle
<1>3. ASSUME Reading(q, findFirstWorkspaceId(u)), Quiet, r.pc \in {"finding", "rereading"}
      PROVE  Agree'
  <2> DEFINE w   == findFirstWorkspaceId(u)
             new == [r EXCEPT !.ws = w,
                              !.pc = IF w = None /\ @ = "finding" THEN "creating" ELSE "inserting"]
  <2>1. {"pc", "ws", "user"} \subseteq DOMAIN r
    BY <1>0, <1>3 DEF Good, Shape, SignPlaces
  <2>2. /\ new.user = u /\ new.ws = w
        /\ (new.pc = "creating" /\ w = None) \/ new.pc = "inserting"
    BY <1>3, <2>1
  <2>3. req' = [req EXCEPT ![q] = new]
    BY <1>3 DEF Reading, Step
  <2> HIDE DEF new
  <2>4. Signs(new)
    BY <2>2 DEF Signs
  <2> QED
    BY <1>3, <2>2, <2>3, <2>4, OneSigns DEF Quiet, tables
<1>4. CASE Reject(q)
  <2> DEFINE new == [r EXCEPT !.ws = None,
                              !.pc = IF @ = "rereading" THEN "inserting" ELSE "rereading"]
  <2>1. {"pc", "ws", "user"} \subseteq DOMAIN r
    BY <1>0, <1>4 DEF Reject, Good, Shape, SignPlaces
  <2>2. new.ws = None /\ new.pc \in {"inserting", "rereading"}
    BY <2>1
  <2>3. req' = [req EXCEPT ![q] = new]
    BY <1>4 DEF Reject, Step
  <2> HIDE DEF new
  <2>4. Signs(new)
    BY <2>2 DEF Signs
  <2> QED
    BY <1>4, <2>2, <2>3, <2>4, OneSigns DEF Reject, tables
<1> QED
  BY <1>1, <1>2, <1>3, <1>4 DEF FindWorkspace, Reread

\* The guarded requests, but for the deletion and the move that is written.
LEMMA GuardedAgree ==
  ASSUME IInv, Agree, Served, NEW q \in Request,
         \/ \E s \in session, op \in Operations : Begin(q, s, op)
         \/ SessionGuard(q) \/ DataExport(q) \/ List(q) \/ Reply(q)
         \/ \E p \in Project, w \in organization : FindProject(q, p, w)
         \/ AccessGuard(q) \/ Gate(q) \/ Target(q)
  PROVE  Agree'
<1> DEFINE r == req[q]
<1>0. "pc" \in DOMAIN r /\ (r.pc = "guarding" => r.op \in Operations)
  BY DEF IInv, Requests, Good, Shape
<1> HIDE DEF r
<1>1. UNCHANGED <<organization, member, workspace, session, settled, unmoved>>
  BY DEF Begin, SessionGuard, DataExport, List, Reply, FindProject, AccessGuard, Gate, Target,
         Quiet, tables
<1>2. \E new : /\ req' = [req EXCEPT ![q] = new]
               /\ new.pc \notin SignPlaces
  <2>1. \A pc : [r EXCEPT !.pc = pc].pc = pc
    BY <1>0
  <2>2. Idle.pc \notin SignPlaces
    BY DEF Idle, SignPlaces
  <2>3. ASSUME NEW s \in session, NEW op \in Operations, Begin(q, s, op)
        PROVE  \E new : req' = [req EXCEPT ![q] = new] /\ new.pc \notin SignPlaces
    <3> DEFINE new == [pc |-> "guarding", op |-> op, session |-> s, late |-> s.user \in deleted]
    <3>1. req' = [req EXCEPT ![q] = new] /\ new.pc \notin SignPlaces
      BY <2>3 DEF Begin, Step, SignPlaces
    <3> QED
      BY <3>1
  <2>4. CASE \E pc : To(q, pc) /\ pc \notin SignPlaces
    <3>1. PICK pc : To(q, pc) /\ pc \notin SignPlaces
      BY <2>4
    <3> DEFINE new == [r EXCEPT !.pc = pc]
    <3>2. req' = [req EXCEPT ![q] = new] /\ new.pc \notin SignPlaces
      BY <2>1, <3>1 DEF To, Step, r
    <3> QED
      BY <3>2
  <2>5. CASE Step(q, Idle)
    BY <2>2, <2>5 DEF Step
  <2>6. CASE List(q)
    <3> DEFINE new == [pc |-> "listing", late |-> req[q].late, session |-> req[q].session,
                       ws |-> resolveActiveWorkspaceId(req[q].session)]
    <3>1. req' = [req EXCEPT ![q] = new] /\ new.pc \notin SignPlaces
      BY <2>6 DEF List, Step, SignPlaces
    <3> QED
      BY <3>1
  <2>7. CASE \E p \in Project, w \in organization : FindProject(q, p, w)
    BY <2>7 DEF FindProject, Step, SignPlaces
  <2>8. SessionGuard(q) => Step(q, Idle) \/ \E pc : To(q, pc) /\ pc \notin SignPlaces
    BY <1>0 DEF SessionGuard, SignPlaces, Operations, r
  <2>9. DataExport(q) \/ Reply(q) \/ AccessGuard(q) \/ Gate(q) \/ Target(q)
          => Step(q, Idle) \/ \E pc : To(q, pc) /\ pc \notin SignPlaces
    BY DEF DataExport, Reply, AccessGuard, Gate, Target, SignPlaces
  <2> QED
    BY <2>3, <2>4, <2>5, <2>6, <2>7, <2>8, <2>9
<1>3. PICK new : req' = [req EXCEPT ![q] = new] /\ new.pc \notin SignPlaces
  BY <1>2
<1>4. Signs(new) /\ new.pc # "joining"
  BY <1>3 DEF Signs, SignPlaces
<1> QED
  BY <1>1, <1>3, <1>4, OneSigns

\* The slug that is taken sends the sign-in back to read; the one that is free is
\* now taken, and no other sign-in of the user is joining its workspace.
LEMMA NewWorkspaceAgrees ==
  ASSUME IInv, Agree, Served, NEW q \in Request, InsertOrganization(q)
  PROVE  Agree'
<1> DEFINE r == req[q]
           u == r.user
           w == <<u, Cardinality(Personal(u)) + 1>>
<1>0. /\ {"pc", "ws", "user"} \subseteq DOMAIN r /\ u \in User /\ r.pc = "creating"
      /\ DOMAIN req = Request
  BY DEF IInv, Requests, Good, Shape, InsertOrganization, SignPlaces
<1>1. CASE SlugTaken(u)
  <2>1. Signs([r EXCEPT !.pc = "rereading"])
    BY <1>0, OthersSign
  <2> QED
    BY <1>0, <1>1, <2>1, OneSigns DEF InsertOrganization, To, Step
<1>2. CASE ~SlugTaken(u)
  <2> DEFINE new == [r EXCEPT !.pc = "joining", !.ws = w]
  <2>1. Personal(u) = {} /\ w = <<u, 1>>
    BY <1>2, FS_EmptySet DEF SlugTaken
  <2>2. /\ organization' = organization \cup {w} /\ req' = [req EXCEPT ![q] = new]
        /\ UNCHANGED <<member, workspace, session, settled, unmoved>>
    BY <1>2 DEF InsertOrganization, Step
  <2>3. new.pc = "joining" /\ new.user = u /\ new.ws = w
    BY <1>0
  <2>4. w \in Personal(u)' /\ \A v : Personal(v) \subseteq Personal(v)'
    BY <2>1, <2>2, AccountsAssumption DEF Personal
  <2>5. /\ req'[q] = new /\ \A p \in Request \ {q} : req'[p] = req[p]
    BY <1>0, <2>2
  <2> HIDE DEF new, w
  <2>6. u \in settled => findFirstWorkspaceId(u) = None
    BY <1>0, <2>1 DEF Agree, SignIns, Signs, SignPlaces
  <2>7. \A v : findFirstWorkspaceId(v)' = findFirstWorkspaceId(v)
    BY <2>2 DEF findFirstWorkspaceId
  <2>8. SignIns'
    <3>1. Signs(req[q])'
      BY <2>2, <2>3, <2>4, <2>5, <2>6, <2>7 DEF Signs
    <3>2. ASSUME NEW p \in Request \ {q} PROVE Signs(req[p])'
      <4>1. Signs(req[p])
        BY DEF Agree, SignIns
      <4> QED
        BY <2>2, <2>4, <2>5, <2>7, <4>1 DEF Signs
    <3> QED
      BY <3>1, <3>2 DEF SignIns
  <2>9. OneJoins'
    <3>1. \A p \in Request : ~(req[p].pc = "joining" /\ req[p].user = u)
      BY <2>1 DEF Agree, SignIns, Signs, SignPlaces
    <3> QED
      BY <2>3, <2>5, <3>1 DEF Agree, OneJoins
  <2> QED
    BY <2>2, <2>7, <2>8, <2>9 DEF Agree, Sessions, Homes, Histories, Served
<1> QED
  BY <1>1, <1>2

\* Noting memberships in the moves leaves the sign-ins as they are.
LEMMA HoldingKeeps ==
  ASSUME NEW u, NEW requests, NEW q \in Request,
         "pc" \in DOMAIN requests[q],
         requests[q].pc \in SignPlaces => {"user", "ws"} \subseteq DOMAIN requests[q]
  PROVE  /\ Holding(u, requests)[q].pc = requests[q].pc
         /\ requests[q].pc \in SignPlaces =>
              /\ Holding(u, requests)[q].user = requests[q].user
              /\ Holding(u, requests)[q].ws = requests[q].ws
<1> DEFINE r == requests[q]
<1>1. Holding(u, requests)[q] = IF "held" \in DOMAIN r /\ r.user = u
                                  THEN [r EXCEPT !.held = @ \cup Range(member')] ELSE r
  BY DEF Holding
<1>2. ASSUME NEW f \in DOMAIN r \ {"held"}, NEW h PROVE [r EXCEPT !.held = h][f] = r[f]
  OBVIOUS
<1> QED
  BY <1>1, <1>2

\* The first membership of a user who had none: until then its sessions had no
\* workspace to carry, and from then on all of them resolve to this one.
LEMMA NewMemberAgrees ==
  ASSUME IInv, Agree, Served, NEW q \in Request, InsertMember(q)
  PROVE  Agree'
<1> DEFINE r   == req[q]
           u   == r.user
           row == [user |-> u, ws |-> r.ws, role |-> "owner"]
           F(v) == findFirstWorkspaceId(v)
<1>0. /\ r.pc = "joining" /\ u \in User /\ r.ws \in Workspace
      /\ \A p \in Request :
           /\ "pc" \in DOMAIN req[p]
           /\ req[p].pc \in SignPlaces => {"user", "ws"} \subseteq DOMAIN req[p]
  BY DEF IInv, Requests, InsertMember, Good, Shape, SignPlaces
<1>1. /\ member' = Append(member, row)
      /\ UNCHANGED <<organization, workspace, session, settled, unmoved>>
  BY DEF InsertMember
<1>2. \A v : F(v)' = IF u = v /\ F(v) = None THEN r.ws ELSE F(v)
  <2>1. row \in Member /\ member \in Seq(Member)
    BY <1>0 DEF Member, IInv, Tables
  <2>2. row.user = u /\ row.ws = r.ws
    OBVIOUS
  <2> HIDE DEF row
  <2>3. \A v : FirstIn(v, Append(member, row))
                = IF row.user = v /\ FirstIn(v, member) = None THEN row.ws ELSE FirstIn(v, member)
    BY <2>1, FirstOfAppend
  <2> QED
    BY <1>1, <2>2, <2>3 DEF findFirstWorkspaceId
<1>3. r.ws # None
  BY <1>0, AccountsAssumption
<1>4. /\ \A p \in Request : req'[p].pc \in SignPlaces =>
           req'[p].user = req[p].user /\ req'[p].ws = req[p].ws
      /\ req'[q].pc = "inserting" /\ \A p \in Request \ {q} : req'[p].pc = req[p].pc
  <2> DEFINE to == [req EXCEPT ![q].pc = "inserting"]
  <2>1. DOMAIN req = Request /\ "pc" \in DOMAIN r
    BY <1>0 DEF IInv, Requests
  <2>2. to[q] = [r EXCEPT !.pc = "inserting"] /\ \A p \in Request \ {q} : to[p] = req[p]
    BY <2>1
  <2>3. /\ to[q].pc = "inserting" /\ to[q].user = r.user /\ to[q].ws = r.ws
        /\ {"pc", "user", "ws"} \subseteq DOMAIN to[q]
    BY <1>0, <2>1, <2>2 DEF SignPlaces
  <2>4. req' = Holding(u, to)
    BY DEF InsertMember
  <2> HIDE DEF to
  <2>5. ASSUME NEW p \in Request
        PROVE  /\ req'[p].pc = to[p].pc
               /\ to[p].pc \in SignPlaces => req'[p].user = to[p].user /\ req'[p].ws = to[p].ws
    BY <1>0, <2>2, <2>3, <2>4, HoldingKeeps
  <2> QED
    BY <2>2, <2>3, <2>5
<1>5. \A v \in settled : v = u => F(v) = None /\ F(v)' = r.ws
  <2>1. u \in settled => F(u) = None
    BY <1>0 DEF Agree, SignIns, Signs, SignPlaces
  <2> HIDE DEF F, r
  <2> QED
    BY <1>2, <2>1
<1>6. \A v \in settled : v # u => F(v)' = F(v)
  BY <1>2
<1>7. \A v : Personal(v)' = Personal(v)
  BY <1>1 DEF Personal
<1>8. Personal(u) # {}
  BY <1>0 DEF Agree, SignIns, Signs, SignPlaces
<1> HIDE DEF r, F
<1>9. SignIns'
  <2> SUFFICES ASSUME NEW p \in Request, req'[p].pc \in SignPlaces PROVE Signs(req[p])'
    BY DEF SignIns, Signs
  <2>1. Signs(req[p])
    BY DEF Agree, SignIns
  <2>2. CASE p = q
    BY <1>1, <1>4, <1>5, <2>2 DEF Signs, F, r
  <2>3. CASE p # q /\ req[p].user # u
    <3>1. req'[p].pc = req[p].pc /\ req'[p].user = req[p].user /\ req'[p].ws = req[p].ws
      BY <1>4, <2>3
    <3> QED
      BY <1>1, <1>6, <1>7, <2>1, <2>3, <3>1 DEF Signs, F
  <2>4. CASE p # q /\ req[p].user = u
    <3>1. req'[p].pc = req[p].pc /\ req'[p].user = u /\ req'[p].ws = req[p].ws
      BY <1>4, <2>4
    <3>2. req[p].pc # "joining"
      BY <1>0, <2>4 DEF Agree, OneJoins, r
    <3> QED
      BY <1>1, <1>5, <1>7, <1>8, <2>1, <2>4, <3>1, <3>2 DEF Signs, F
  <2> QED
    BY <2>2, <2>3, <2>4
<1>10. OneJoins'
  BY <1>4 DEF Agree, OneJoins, SignPlaces
<1>11. Sessions' /\ Homes'
  BY <1>1, <1>5, <1>6 DEF Agree, Sessions, Homes, Served, F
<1>12. Histories'
  BY <1>1 DEF Agree, Histories, Served
<1> QED
  BY <1>9, <1>10, <1>11, <1>12 DEF Agree

\* The steps that write sessions or a workspace of a project.
LEMMA RowsAgree ==
  ASSUME IInv, Agree, Served, NEW q \in Request,
         InsertSession(q) \/ SoftDeleteUser(q) \/ AssignWorkspace(q)
  PROVE  Agree'
<1> DEFINE r == req[q]
<1>0. /\ "pc" \in DOMAIN r /\ DOMAIN req = Request
      /\ r.pc = "inserting" => r.user \in User
  BY DEF IInv, Requests, Good, Shape, SignPlaces
<1>1. /\ UNCHANGED <<organization, member, settled>>
      /\ unmoved' \subseteq unmoved /\ \A p \in unmoved' : workspace'[p] = workspace[p]
      /\ DOMAIN workspace' = DOMAIN workspace
  <2>1. CASE InsertSession(q) \/ SoftDeleteUser(q)
    BY <2>1 DEF InsertSession, SoftDeleteUser
  <2>2. CASE AssignWorkspace(q)
    BY <2>2 DEF AssignWorkspace, IInv, Tables, Agree, Histories
  <2> QED
    BY <2>1, <2>2
<1>2. Served'
  <2>1. CASE InsertSession(q) \/ SoftDeleteUser(q)
    BY <2>1 DEF InsertSession, SoftDeleteUser, Served
  <2>2. CASE AssignWorkspace(q)
    <3>1. r.target # None
      BY <2>2 DEF AssignWorkspace, IInv, Requests, Good, Earned, MovePlaces
    <3> QED
      BY <2>2, <3>1 DEF AssignWorkspace, Served, IInv, Tables
  <2> QED
    BY <2>1, <2>2
<1>3. PICK new : req' = [req EXCEPT ![q] = new] /\ new.pc \notin SignPlaces
  BY <1>0 DEF InsertSession, SoftDeleteUser, AssignWorkspace, Step, To, Idle, SignPlaces
<1>4. SignIns' /\ OneJoins'
  <2>1. req'[q] = new /\ \A p \in Request \ {q} : req'[p] = req[p]
    BY <1>0, <1>3
  <2>2. \A p \in Request : Signs(req'[p])
    BY <1>3, <2>1 DEF Agree, SignIns, Signs
  <2> QED
    BY <1>1, <1>3, <2>1, <2>2
       DEF Agree, SignIns, Signs, OneJoins, Personal, findFirstWorkspaceId, SignPlaces
<1>5. Sessions'
  <2>1. ASSUME NEW s \in session', s \notin session
        PROVE  /\ s.user \in User
               /\ s.user \in settled /\ s.active # None => s.active = findFirstWorkspaceId(s.user)
    <3>1. s = [id |-> q, user |-> r.user, active |-> r.ws] /\ r.pc = "inserting"
      BY <2>1 DEF InsertSession, SoftDeleteUser, AssignWorkspace
    <3> QED
      BY <1>0, <3>1 DEF Agree, SignIns, Signs, SignPlaces
  <2> QED
    BY <1>1, <2>1 DEF Agree, Sessions, findFirstWorkspaceId
<1>6. Homes'
  BY <1>1 DEF Agree, Homes, findFirstWorkspaceId
<1> QED
  BY <1>1, <1>2, <1>4, <1>5, <1>6 DEF Agree, Histories

\* Whoever changes a membership or a choice is settled no more; of the others the
\* earliest membership stays.
LEMMA ChangesAgree ==
  ASSUME IInv, Agree, NEW u \in User, NEW w \in Team, NEW role \in {"owner", "member", None},
         ChangeMember(u, w, role)
  PROVE  Agree'
<1> DEFINE at  == CHOOSE i \in DOMAIN member : member[i].user = u /\ member[i].ws = w
           row == [user |-> u, ws |-> w, role |-> role]
           F(v) == findFirstWorkspaceId(v)
<1>1. member \in Seq(Member)
  BY DEF IInv, Tables
<1>2. row.user = u /\ (role # None => row \in Member)
  BY DEF Member, Workspace
<1>3. isMember(u, w) => at \in DOMAIN member /\ member[at].user = u
  BY <1>1 DEF isMember, Range
<1>4. ASSUME NEW v, v # u PROVE F(v)' = F(v)
  <2>1. CASE ~isMember(u, w) /\ role # None /\ member' = Append(member, row)
    <3> HIDE DEF row
    <3> QED
      BY <1>1, <1>2, <1>4, <2>1, FirstOfAppend DEF findFirstWorkspaceId
  <2>2. CASE isMember(u, w) /\ role # None /\ member' = [member EXCEPT ![at] = row]
    <3> HIDE DEF row, at
    <3>1. FirstIn(v, [member EXCEPT ![at] = row]) = FirstIn(v, member)
      BY <1>1, <1>2, <1>3, <1>4, <2>2, FirstOfUpdate
    <3> QED
      BY <2>2, <3>1 DEF findFirstWorkspaceId
  <2>3. CASE isMember(u, w) /\ role = None /\ member' = RemoveAt(member, at)
    <3> HIDE DEF row, at
    <3>1. FirstIn(v, RemoveAt(member, at)) = FirstIn(v, member)
      BY <1>1, <1>3, <1>4, <2>3, FirstOfRemove
    <3> QED
      BY <2>3, <3>1 DEF findFirstWorkspaceId
  <2> QED
    BY <2>1, <2>2, <2>3 DEF ChangeMember
<1>5. /\ settled' = settled \ {u}
      /\ UNCHANGED <<organization, workspace, session, unmoved>> /\ Served
  BY DEF ChangeMember
<1>6. \A v : Personal(v)' = Personal(v)
  BY <1>5 DEF Personal
<1>7. \A p \in Request :
        /\ req'[p].pc = req[p].pc
        /\ req[p].pc \in SignPlaces => req'[p].user = req[p].user /\ req'[p].ws = req[p].ws
  <2>1. req' = Holding(u, req)
    BY DEF ChangeMember
  <2>2. \A p \in Request :
          /\ "pc" \in DOMAIN req[p]
          /\ req[p].pc \in SignPlaces => {"user", "ws"} \subseteq DOMAIN req[p]
    BY DEF IInv, Requests, Good, Shape
  <2> QED
    BY <2>1, <2>2, HoldingKeeps
<1> HIDE DEF F
<1>8. SignIns'
  BY <1>4, <1>5, <1>6, <1>7 DEF Agree, SignIns, Signs, F
<1>9. OneJoins'
  BY <1>7 DEF Agree, OneJoins, SignPlaces
<1>10. Sessions' /\ Homes' /\ Histories'
  BY <1>4, <1>5 DEF Agree, Sessions, Homes, Histories, Served, F
<1> QED
  BY <1>8, <1>9, <1>10 DEF Agree

LEMMA ChoicesAgree ==
  ASSUME IInv, Agree, NEW s \in session, SignOut(s) \/ \E w \in organization : SetActive(s, w)
  PROVE  Agree'
<1>1. /\ settled' \subseteq settled
      /\ UNCHANGED <<organization, member, workspace, req, unmoved>>
      /\ Served
  BY DEF SignOut, SetActive, Agree, Histories
<1>2. ASSUME NEW t \in session', t \notin session PROVE t.user \in User /\ t.user \notin settled'
  <2>1. PICK w : /\ t = [s EXCEPT !.active = w] /\ settled' = settled \ {s.user}
    BY <1>2 DEF SignOut, SetActive
  <2>2. t.user = s.user
    BY <2>1
  <2> QED
    BY <2>1, <2>2 DEF Agree, Sessions
<1>3. SignIns' /\ OneJoins'
  BY <1>1 DEF Agree, SignIns, Signs, OneJoins, Personal, findFirstWorkspaceId
<1>4. Sessions'
  BY <1>1, <1>2 DEF Agree, Sessions, findFirstWorkspaceId
<1>5. Homes' /\ Histories'
  BY <1>1 DEF Agree, Homes, Histories, Served, findFirstWorkspaceId
<1> QED
  BY <1>3, <1>4, <1>5 DEF Agree

\* The migration: whoever owns a project has a membership then, and its earliest
\* is where its projects go.
LEMMA MigrationAgrees ==
  ASSUME IInv, Agree, Migrate
  PROVE  Agree'
<1> DEFINE made    == {u \in User : Synthesized(u)}
           home(u) == IF Personal(u) # {} THEN CHOOSE w \in Personal(u) : TRUE ELSE <<u, 1>>
           row(u)  == [user |-> u, ws |-> home(u), role |-> "owner"]
           new     == {row(u) : u \in made}
           rows    == member \o SetToSeq(new)
           For(u)  == IF FirstIn(u, rows) # None THEN FirstIn(u, rows)
                      ELSE IF Personal(u) # {} THEN home(u) ELSE Orphanage
<1>1. /\ member' = rows
      /\ workspace' = [p \in Project |-> For(Owner[p])]
      /\ UNCHANGED <<session, req, settled, unmoved>> /\ ~Served
  BY DEF Migrate, Backfill, Served
<1>2. session = {} /\ \A q \in Request : req[q] = Idle
  BY <1>1 DEF Agree, Histories, IInv, Tables
<1>3. Served' /\ member' \in Seq(Member)
  <2>1. \A p \in Project : workspace'[p] # None
    <3> TAKE p \in Project
    <3>1. workspace'[p] = For(Owner[p])
      BY <1>1
    <3>2. \A u : Personal(u) # {} => home(u) # None
      BY DEF Personal, IInv, Tables
    <3> HIDE DEF home, rows
    <3> QED
      BY <3>1, <3>2, AccountsAssumption
  <2> QED
    BY <2>1, Migrated DEF Served, IInv, Tables
<1>4. new \in SUBSET Member /\ IsFiniteSet(new)
  <2>1. IsFiniteSet(made)
    BY FS_Subset, AccountsAssumption
  <2> DEFINE f == [u \in made |-> row(u)]
  <2>2. f \in Surjection(made, new)
    BY DEF Surjection
  <2>3. IsFiniteSet(new)
    BY <2>1, <2>2, FS_Surjection
  <2>4. ASSUME NEW u \in made PROVE row(u) \in Member
    <3>1. Personal(u) \subseteq {u} \X Nat /\ u \in User
      BY AccountsAssumption DEF Personal
    <3>2. home(u) \in Workspace
      BY <3>1 DEF Workspace
    <3> HIDE DEF home
    <3> QED
      BY <3>1, <3>2 DEF Member
  <2> QED
    BY <2>3, <2>4
<1>5. ASSUME NEW p \in Project, Owner[p] \in settled
      PROVE  FirstIn(Owner[p], rows) # None
  <2> DEFINE u == Owner[p]
  <2>1. u \in User /\ member \in Seq(Member)
    BY <1>5 DEF Agree, Histories, IInv, Tables
  <2>2. CASE FirstIn(u, member) = None
    <3>1. row(u) \in new /\ row(u).user = u
      BY <2>1, <2>2 DEF Synthesized
    <3> HIDE DEF new, row
    <3> QED
      BY <1>4, <2>1, <3>1, FirstOfLaidOut
  <2>3. CASE FirstIn(u, member) # None
    <3>1. PICK i : Earliest(u, member, i)
      BY <2>1, <2>3, EarliestOrNone
    <3>2. SetToSeq(new) \in Seq(Member)
      <4>1. SetToSeq(new) \in Seq(new)
        BY <1>4, LaidOut
      <4> HIDE DEF new
      <4> QED
        BY <1>4, <4>1
    <3> HIDE DEF new
    <3>3. rows \in Seq(Member) /\ i \in DOMAIN rows /\ rows[i] = member[i]
      BY <2>1, <3>1, <3>2, ConcatProperties DEF Earliest
    <3>4. rows[i].user = u
      BY <3>1, <3>3 DEF Earliest
    <3> HIDE DEF rows
    <3> QED
      BY <3>3, <3>4, EarliestOrNone, FirstIsEarliest
  <2> QED
    BY <2>2, <2>3
<1>6. Homes'
  <2> SUFFICES ASSUME NEW p \in unmoved, Owner[p] \in settled
               PROVE  /\ FirstIn(Owner[p], rows) # None
                      /\ workspace'[p] = FirstIn(Owner[p], rows)
    BY <1>1 DEF Homes, findFirstWorkspaceId
  <2>1. p \in Project /\ Owner[p] \in User
    BY DEF Agree, Histories
  <2>2. FirstIn(Owner[p], rows) # None
    BY <1>5, <2>1
  <2>3. workspace'[p] = For(Owner[p])
    BY <1>1, <2>1
  <2> HIDE DEF rows
  <2> QED
    BY <2>1, <2>2, <2>3
<1>7. SignIns' /\ OneJoins' /\ Sessions' /\ Histories'
  BY <1>1, <1>2, <1>3 DEF SignIns, Signs, OneJoins, Sessions, Agree, Histories, Idle, SignPlaces
<1> QED
  BY <1>6, <1>7 DEF Agree

LEMMA InitAgrees == Init => Agree
BY DEF Init, Agree, SignIns, Signs, OneJoins, Sessions, Homes, Histories, Served, Idle, SignPlaces

LEMMA StepAgrees == IInv /\ Agree /\ [Next]_vars => Agree'
<1> SUFFICES ASSUME IInv, Agree, [Next]_vars PROVE Agree'
  OBVIOUS
<1>1. CASE UNCHANGED vars
  BY <1>1 DEF vars, tables, Agree, SignIns, Signs, OneJoins, Sessions, Homes, Histories, Served,
              Personal, findFirstWorkspaceId
<1>2. ASSUME Served, NEW q \in Request, Handle(q) PROVE Agree'
  BY <1>2, SignInsAgree, GuardedAgree, NewWorkspaceAgrees, NewMemberAgrees, RowsAgree DEF Handle
<1> QED
  BY <1>1, <1>2, SignInsAgree, GuardedAgree, ChangesAgree, ChoicesAgree, MigrationAgrees
     DEF Next, Operations

LEMMA AgreeAlways == Spec => [](IInv /\ Agree)
BY InitInv, StepInv, InitAgrees, StepAgrees, PTL DEF Spec

\* The sessions of a user list one workspace, however many sign-ins race and
\* whichever of their statements fail (workspace-provisioning.ts:45).
THEOREM SessionsAgree == Spec => []RacingSessionsAgree
<1>1. Agree => RacingSessionsAgree
  BY DEF Agree, Sessions, RacingSessionsAgree, resolveActiveWorkspaceId
<1> QED
  BY <1>1, AgreeAlways, PTL

\* Whatever tables the migration found, the projects it moved are where their
\* owner's sessions look (0010_project_workspace.sql).
THEOREM BackfillMeets == Spec => []BackfillMeetsSessions
<1>1. Agree => BackfillMeetsSessions
  <2> SUFFICES ASSUME Agree, NEW s \in session, NEW p \in unmoved,
                      Owner[p] = s.user, s.user \in settled
               PROVE  workspace[p] = resolveActiveWorkspaceId(s)
    BY DEF BackfillMeetsSessions
  <2>1. Served
    BY DEF Agree, Histories
  <2> QED
    BY <2>1 DEF Agree, Homes, Sessions, resolveActiveWorkspaceId
<1> QED
  BY <1>1, AgreeAlways, PTL
=============================================================================
