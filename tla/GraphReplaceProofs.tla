------------------------- MODULE GraphReplaceProofs -------------------------
(***************************************************************************)
(* Theorems about GraphReplace, for every set of writers, documents and    *)
(* keys, every content, and any number of transactions.                    *)
(***************************************************************************)
EXTENDS GraphReplace, TLAPS

\* The statements of Script that delete and insert the rows of table t.
DeleteAt(t) == IF t = "edge" THEN 1 ELSE IF t = "node" THEN 2 ELSE 3
InsertAt(t) == IF t = "node" THEN 4 ELSE IF t = "edge" THEN 5 ELSE 6

LEMMA DeletingTable ==
    ASSUME TypeOK, NEW w \in Writer, Deletes(w)
    PROVE  /\ Of(w) \in Table
           /\ step[w] = DeleteAt(Of(w))
           /\ \A t \in Table : t # Of(w) => step[w] # DeleteAt(t)
           /\ \A t \in Table : step[w] < InsertAt(t)
<1>1. step[w] \in 1 .. 3
  BY DEF Deletes, FirstInsert
<1> QED
  BY <1>1 DEF Of, Script, Table, DeleteAt, InsertAt

LEMMA InsertingTable ==
    ASSUME TypeOK, NEW w \in Writer, Inserts(w)
    PROVE  /\ Of(w) \in Table
           /\ step[w] = InsertAt(Of(w))
           /\ \A t \in Table : t # Of(w) => step[w] # InsertAt(t)
           /\ \A t \in Table : step[w] > DeleteAt(t)
<1>1. step[w] \in 4 .. 6
  BY DEF Inserts, FirstInsert, AtCommit
<1> QED
  BY <1>1 DEF Of, Script, Table, DeleteAt, InsertAt

\* What a document puts in a row is a value of the type.
LEMMA ContentIsVal ==
    \A d \in Doc : \A t \in Table : \A k \in DOMAIN Content[d][t] :
        Content[d][t][k] \in Val
  BY DEF Val

LEMMA KeysOfContent ==
    \A d \in Doc : \A t \in Table : \A k \in DOMAIN Content[d][t] : k \in Key
  BY ReplaceAssumption

-----------------------------------------------------------------------------
(* The inductive invariant.  Rows belong to one writer at a time; every    *)
(* transaction knows those it overlaps; a changed row is as old as its     *)
(* writer, or as the committed row it replaces in place; the statements    *)
(* passed have had their effect; and a row that a finished DELETE left, or *)
(* that a running one does not see, was inserted by an overlapping         *)
(* transaction.                                                            *)

TxOK(w) ==
    IF step[w] = 0
    THEN own[w] = Untouched /\ snap[w] = NoSnap
    ELSE /\ doc[w] \in Doc
         /\ tx[w] \in 1 .. xid
         /\ snap[w].open => Deletes(w)
         /\ \A v \in Writer : v # w /\ step[v] # 0 => tx[v] \in overlap[w]

TxInv == \A w \in Writer : TxOK(w)

Exclusive ==
    \A v, w \in Writer : \A t \in Table : \A k \in Key :
        v # w => own[v][t][k] = Kept \/ own[w][t][k] = Kept

TableBirths ==
    \A t \in Table : \A k \in Key :
        table[t][k] # NoRow => table[t][k].born \in 1 .. xid

OwnBirths ==
    \A w \in Writer : \A t \in Table : \A k \in Key :
        own[w][t][k] \notin {Kept, NoRow} =>
            \/ own[w][t][k].born = tx[w]
            \/ /\ table[t][k] # NoRow
               /\ own[w][t][k].born = table[t][k].born

ScriptInv ==
    \A w \in Writer : \A t \in Table : \A k \in Key :
        /\ step[w] <= DeleteAt(t) => own[w][t][k] = Kept
        /\ step[w] <= InsertAt(t) => own[w][t][k] \in {Kept, NoRow}
        /\ step[w] > InsertAt(t) =>
              IF k \in DOMAIN Content[doc[w]][t]
              THEN /\ own[w][t][k] \notin {Kept, NoRow}
                   /\ own[w][t][k].val = Content[doc[w]][t][k]
              ELSE own[w][t][k] \in {Kept, NoRow}

DeletedInv ==
    \A w \in Writer : \A t \in Table : \A k \in Key :
        step[w] > DeleteAt(t) /\ own[w][t][k] = Kept /\ table[t][k] # NoRow
            => table[t][k].born \in overlap[w]

SnapInv ==
    \A w \in Writer : \A t \in Table : \A k \in Key :
        step[w] = DeleteAt(t) /\ snap[w].open /\ table[t][k] # NoRow
            => \/ <<k, table[t][k].born>> \in snap[w].rows
               \/ table[t][k].born \in overlap[w]

EmptyInv == latest = NoDoc => \A t \in Table : \A k \in Key : table[t][k] = NoRow

IInv ==
    /\ TypeOK /\ TxInv /\ Exclusive /\ TableBirths /\ OwnBirths
    /\ ScriptInv /\ DeletedInv /\ SnapInv /\ EmptyInv
    /\ LatestIsPresent /\ StrangersAreRivals

LEMMA InvInit == Init => IInv
<1> SUFFICES ASSUME Init PROVE IInv
  OBVIOUS
<1>1. TypeOK
  BY ReplaceAssumption DEF Init, TypeOK, Untouched, NoSnap, AtCommit
<1>2. TxInv /\ Exclusive /\ OwnBirths /\ TableBirths
  BY DEF Init, TxInv, TxOK, Exclusive, OwnBirths, TableBirths, Untouched
<1>3. ScriptInv /\ DeletedInv /\ SnapInv
  BY DEF Init, ScriptInv, DeletedInv, SnapInv, Untouched, NoSnap, Table, DeleteAt, InsertAt
<1>4. EmptyInv /\ LatestIsPresent /\ StrangersAreRivals
  BY DEF Init, EmptyInv, LatestIsPresent, StrangersAreRivals
<1> QED
  BY <1>1, <1>2, <1>3, <1>4 DEF IInv

-----------------------------------------------------------------------------
(* Opening a transaction. *)

LEMMA InvBegin ==
    ASSUME IInv, NEW w \in Writer, NEW d \in Doc, NEW first \in {1, FirstInsert},
           NEW before \in SUBSET Nat,
           Begin(w, d, first), Meet(w, before),
           \A v \in Running : tx[v] \in before,
           first = FirstInsert => before = 1 .. xid
    PROVE  IInv'
<1> USE ReplaceAssumption DEF Begin, Meet, Running, FirstInsert
<1>1. TypeOK'
  BY DEF IInv, TypeOK, AtCommit
<1>2. step[w] = 0 /\ own[w] = Untouched /\ snap[w] = NoSnap
  BY DEF IInv, TxInv, TxOK
<1>3. \A v \in Writer :
        /\ step'[v] = IF v = w THEN first ELSE step[v]
        /\ tx'[v] = IF v = w THEN xid + 1 ELSE tx[v]
        /\ doc'[v] = IF v = w THEN d ELSE doc[v]
        /\ overlap'[v] = IF v = w THEN before
                         ELSE IF step[v] # 0 THEN overlap[v] \cup {xid + 1} ELSE overlap[v]
  BY DEF IInv, TypeOK
<1>4. TxInv'
  <2> SUFFICES ASSUME NEW v \in Writer PROVE TxOK(v)'
    BY DEF TxInv
  <2>1. TxOK(v)
    BY DEF IInv, TxInv
  <2> QED
    BY <1>2, <1>3, <2>1 DEF TxOK, IInv, TypeOK, Deletes, NoSnap
<1>5. Exclusive'
  BY DEF IInv, Exclusive
<1>6. TableBirths'
  BY DEF IInv, TableBirths, TypeOK
<1>7. OwnBirths'
  BY <1>2, <1>3 DEF IInv, OwnBirths, Untouched
<1>8. ScriptInv'
  <2> SUFFICES ASSUME NEW v \in Writer, NEW t \in Table, NEW k \in Key
               PROVE  /\ step'[v] <= DeleteAt(t) => own[v][t][k] = Kept
                      /\ step'[v] <= InsertAt(t) => own[v][t][k] \in {Kept, NoRow}
                      /\ step'[v] > InsertAt(t) =>
                            IF k \in DOMAIN Content[doc'[v]][t]
                            THEN /\ own[v][t][k] \notin {Kept, NoRow}
                                 /\ own[v][t][k].val = Content[doc'[v]][t][k]
                            ELSE own[v][t][k] \in {Kept, NoRow}
    BY DEF ScriptInv
  <2>1. CASE v = w
    BY <2>1, <1>2, <1>3 DEF Untouched, InsertAt
  <2>2. CASE v # w
    BY <2>2, <1>3 DEF IInv, ScriptInv
  <2> QED
    BY <2>1, <2>2
<1>9. DeletedInv'
  <2> SUFFICES ASSUME NEW v \in Writer, NEW t \in Table, NEW k \in Key,
                      step'[v] > DeleteAt(t), own[v][t][k] = Kept, table[t][k] # NoRow
               PROVE  table[t][k].born \in overlap'[v]
    BY DEF DeletedInv
  <2>1. CASE v = w
    <3>1. DeleteAt(t) >= 1
      BY DEF DeleteAt
    <3>2. first = FirstInsert
      BY <2>1, <1>3, <3>1 DEF DeleteAt
    <3>3. table[t][k].born \in 1 .. xid
      BY DEF IInv, TableBirths
    <3> QED
      BY <2>1, <1>3, <3>2, <3>3
  <2>2. CASE v # w
    BY <2>2, <1>3 DEF IInv, DeletedInv
  <2> QED
    BY <2>1, <2>2
<1>10. SnapInv'
  BY <1>2, <1>3 DEF IInv, SnapInv, NoSnap
<1>11. EmptyInv' /\ LatestIsPresent' /\ StrangersAreRivals'
  BY DEF IInv, EmptyInv, LatestIsPresent, StrangersAreRivals
<1> QED
  BY <1>1, <1>4, <1>5, <1>6, <1>7, <1>8, <1>9, <1>10, <1>11 DEF IInv

LEMMA InvReplace ==
    ASSUME IInv, NEW w \in Writer, NEW d \in Doc, ReplaceProjectGraph(w, d)
    PROVE  IInv'
<1> DEFINE before == {tx[v] : v \in Running}
<1>1. before \in SUBSET Nat
  BY DEF IInv, TypeOK, Running
<1>2. Begin(w, d, 1) /\ Meet(w, before)
  BY DEF ReplaceProjectGraph
<1>3. \A v \in Running : tx[v] \in before
  OBVIOUS
<1> QED
  BY <1>1, <1>2, <1>3, InvBegin DEF FirstInsert

LEMMA InvPersist ==
    ASSUME IInv, NEW w \in Writer, NEW d \in Doc, PersistGraph(w, d)
    PROVE  IInv'
<1>1. 1 .. xid \in SUBSET Nat
  BY DEF IInv, TypeOK
<1>2. Begin(w, d, FirstInsert) /\ Meet(w, 1 .. xid)
  BY DEF PersistGraph
<1>3. \A v \in Running : tx[v] \in 1 .. xid
  BY DEF IInv, TxInv, TxOK, Running
<1> QED
  BY <1>1, <1>2, <1>3, InvBegin

-----------------------------------------------------------------------------
(* The statements of a transaction. *)

LEMMA InvBeginDelete ==
    ASSUME IInv, NEW w \in Writer, BeginDelete(w)
    PROVE  IInv'
<1> USE DEF BeginDelete, store, history
<1> DEFINE seen == {<<k, table[Of(w)][k].born>> :
                      k \in {i \in Key : table[Of(w)][i] # NoRow}}
<1>1. /\ Of(w) \in Table
      /\ \A t \in Table : t # Of(w) => step[w] # DeleteAt(t)
  BY DeletingTable DEF IInv
<1>2. seen \in SUBSET (Key \X Nat)
  <2> SUFFICES ASSUME NEW k \in Key, table[Of(w)][k] # NoRow
               PROVE  table[Of(w)][k].born \in Nat
    OBVIOUS
  <2> QED
    BY <1>1 DEF IInv, TypeOK, Row
<1>3. snap' = [snap EXCEPT ![w] = [open |-> TRUE, rows |-> seen]]
  OBVIOUS
<1>4. \A v \in Writer :
        snap'[v] = IF v = w THEN [open |-> TRUE, rows |-> seen] ELSE snap[v]
  BY <1>3 DEF IInv, TypeOK
<1>5. TypeOK'
  BY <1>2, <1>3 DEF IInv, TypeOK
<1>6. TxInv'
  <2> HIDE DEF seen
  <2> SUFFICES ASSUME NEW v \in Writer PROVE TxOK(v)'
    BY DEF TxInv
  <2>1. TxOK(v)
    BY DEF IInv, TxInv
  <2> QED
    BY <1>4, <2>1 DEF TxOK, Deletes, FirstInsert
<1>7. SnapInv'
  <2> SUFFICES ASSUME NEW v \in Writer, NEW t \in Table, NEW k \in Key,
                      step[v] = DeleteAt(t), snap'[v].open, table[t][k] # NoRow
               PROVE  \/ <<k, table[t][k].born>> \in snap'[v].rows
                      \/ table[t][k].born \in overlap[v]
    BY DEF SnapInv
  <2>1. CASE v = w
    <3>1. <<k, table[t][k].born>> \in seen
      BY <2>1, <1>1
    <3> QED
      BY <2>1, <3>1, <1>4
  <2>2. CASE v # w
    BY <2>2, <1>4 DEF IInv, SnapInv
  <2> QED
    BY <2>1, <2>2
<1>8. /\ Exclusive' /\ TableBirths' /\ OwnBirths' /\ ScriptInv' /\ DeletedInv'
      /\ EmptyInv' /\ LatestIsPresent' /\ StrangersAreRivals'
  BY DEF IInv, Exclusive, TableBirths, OwnBirths, ScriptInv, DeletedInv,
         EmptyInv, LatestIsPresent, StrangersAreRivals
<1> QED
  BY <1>5, <1>6, <1>7, <1>8 DEF IInv

LEMMA InvFinishDelete ==
    ASSUME IInv, NEW w \in Writer, FinishDelete(w)
    PROVE  IInv'
<1> USE DEF FinishDelete, Advance, store, history
<1>1. /\ Of(w) \in Table
      /\ step[w] = DeleteAt(Of(w))
      /\ \A t \in Table : t # Of(w) => step[w] # DeleteAt(t)
      /\ \A t \in Table : step[w] < InsertAt(t)
  BY DeletingTable DEF IInv
<1>2. step[w] \in 1 .. 3
  BY DEF Deletes, FirstInsert, IInv, TypeOK
<1> DEFINE gone(k) == /\ table[Of(w)][k] # NoRow
                      /\ <<k, table[Of(w)][k].born>> \in snap[w].rows
<1>3. \A v \in Writer : \A t \in Table : \A k \in Key :
        own'[v][t][k] = IF v = w /\ t = Of(w)
                        THEN IF gone(k) THEN NoRow ELSE Kept
                        ELSE own[v][t][k]
  BY <1>1 DEF IInv, TypeOK
<1>4. \A v \in Writer :
        /\ step'[v] = IF v = w THEN step[w] + 1 ELSE step[v]
        /\ snap'[v] = IF v = w THEN NoSnap ELSE snap[v]
  BY DEF IInv, TypeOK
<1>5. TypeOK'
  BY <1>1, <1>2 DEF IInv, TypeOK, NoSnap, AtCommit
<1>6. TxInv'
  <2> SUFFICES ASSUME NEW v \in Writer PROVE TxOK(v)'
    BY DEF TxInv
  <2>1. TxOK(v) /\ TxOK(w)
    BY DEF IInv, TxInv
  <2>2. step'[v] = 0 => v # w /\ step[v] = 0
    BY <1>2, <1>4
  <2>3. v # w => own'[v] = own[v]
    BY DEF IInv, TypeOK
  <2> QED
    BY <1>2, <1>4, <2>1, <2>2, <2>3 DEF TxOK, NoSnap, Deletes
<1>7. Exclusive'
  <2> SUFFICES ASSUME NEW v \in Writer, NEW k \in Key, v # w,
                      own'[w][Of(w)][k] # Kept
               PROVE  own[v][Of(w)][k] = Kept
    BY <1>3 DEF IInv, Exclusive
  <2>1. gone(k)
    BY <1>1, <1>3
  <2>2. ~Locked(w, Of(w), k)
    BY <2>1
  <2>3. CASE step[v] = 0
    BY <2>3, <1>1 DEF IInv, TxInv, TxOK, Untouched
  <2>4. CASE step[v] # 0
    BY <2>2, <2>4 DEF Locked, Running
  <2> QED
    BY <2>3, <2>4
<1>8. OwnBirths'
  BY <1>3 DEF IInv, OwnBirths
<1>9. ScriptInv'
  <2> SUFFICES ASSUME NEW v \in Writer, NEW t \in Table, NEW k \in Key
               PROVE  /\ step'[v] <= DeleteAt(t) => own'[v][t][k] = Kept
                      /\ step'[v] <= InsertAt(t) => own'[v][t][k] \in {Kept, NoRow}
                      /\ step'[v] > InsertAt(t) =>
                            IF k \in DOMAIN Content[doc[v]][t]
                            THEN /\ own'[v][t][k] \notin {Kept, NoRow}
                                 /\ own'[v][t][k].val = Content[doc[v]][t][k]
                            ELSE own'[v][t][k] \in {Kept, NoRow}
    BY DEF ScriptInv
  <2>1. CASE v # w
    BY <2>1, <1>3, <1>4 DEF IInv, ScriptInv
  <2>2. CASE v = w
    <3>1. DeleteAt(t) \in Nat /\ InsertAt(t) \in Nat
      BY DEF DeleteAt, InsertAt
    <3>2. step'[w] = step[w] + 1 /\ step'[w] <= InsertAt(t)
      BY <1>1, <1>2, <1>4, <3>1
    <3>3. own[w][t][k] \in {Kept, NoRow}
      BY <1>1, <1>2, <3>1 DEF IInv, ScriptInv
    <3>4. step'[w] <= DeleteAt(t) => t # Of(w) /\ step[w] <= DeleteAt(t)
      BY <1>1, <1>2, <3>1, <3>2
    <3> QED
      BY <2>2, <1>2, <1>3, <3>1, <3>2, <3>3, <3>4 DEF IInv, ScriptInv
  <2> QED
    BY <2>1, <2>2
<1>10. DeletedInv'
  <2> SUFFICES ASSUME NEW v \in Writer, NEW t \in Table, NEW k \in Key,
                      step'[v] > DeleteAt(t), own'[v][t][k] = Kept, table[t][k] # NoRow
               PROVE  table[t][k].born \in overlap[v]
    BY DEF DeletedInv
  <2>1. CASE v = w /\ t = Of(w)
    <3>1. own'[w][t][k] = IF gone(k) THEN NoRow ELSE Kept
      BY <2>1, <1>3
    <3>2. ~gone(k)
      BY <2>1, <3>1, ReplaceAssumption
    <3>3. <<k, table[t][k].born>> \notin snap[w].rows
      BY <2>1, <3>2
    <3>4. step[w] = DeleteAt(t) /\ snap[w].open
      BY <2>1, <1>1
    <3> QED
      BY <2>1, <3>3, <3>4 DEF IInv, SnapInv
  <2>2. CASE v = w /\ t # Of(w)
    <3>1. DeleteAt(t) \in Nat
      BY DEF DeleteAt
    <3>2. step[w] > DeleteAt(t)
      BY <2>2, <1>1, <1>2, <1>4, <3>1
    <3> QED
      BY <2>2, <1>3, <3>2 DEF IInv, DeletedInv
  <2>3. CASE v # w
    BY <2>3, <1>3, <1>4 DEF IInv, DeletedInv
  <2> QED
    BY <2>1, <2>2, <2>3
<1>11. SnapInv'
  BY <1>4 DEF IInv, SnapInv, NoSnap
<1>12. TableBirths' /\ EmptyInv' /\ LatestIsPresent' /\ StrangersAreRivals'
  BY DEF IInv, TableBirths, EmptyInv, LatestIsPresent, StrangersAreRivals
<1> QED
  BY <1>5, <1>6, <1>7, <1>8, <1>9, <1>10, <1>11, <1>12 DEF IInv

LEMMA InvInsert ==
    ASSUME IInv, NEW w \in Writer, Insert(w)
    PROVE  IInv'
<1> USE DEF Insert, Advance, store, history
<1>1. /\ Of(w) \in Table
      /\ step[w] = InsertAt(Of(w))
      /\ \A t \in Table : t # Of(w) => step[w] # InsertAt(t)
      /\ \A t \in Table : step[w] > DeleteAt(t)
  BY InsertingTable DEF IInv
<1>2. step[w] \in 4 .. 6 /\ ~Deletes(w) /\ doc[w] \in Doc
  <2>1. step[w] \in 4 .. 6 /\ ~Deletes(w)
    BY DEF Inserts, Deletes, FirstInsert, AtCommit, IInv, TypeOK
  <2> QED
    BY <2>1 DEF IInv, TxInv, TxOK
<1> DEFINE rows == Content[doc[w]][Of(w)]
           taken(k) == own[w][Of(w)][k] = Kept /\ table[Of(w)][k] # NoRow
<1>3. \A v \in Writer : \A t \in Table : \A k \in Key :
        own'[v][t][k] = IF v = w /\ t = Of(w) /\ k \in DOMAIN rows
                        THEN Inserted(w, t, k)
                        ELSE own[v][t][k]
  BY <1>1 DEF IInv, TypeOK
<1>4. \A v \in Writer : step'[v] = IF v = w THEN step[w] + 1 ELSE step[v]
  BY DEF IInv, TypeOK
<1>5. \A k \in DOMAIN rows : k \in Key
  BY <1>1, <1>2, ReplaceAssumption
<1>6. \A k \in DOMAIN rows :
        /\ Inserted(w, Of(w), k) \in Row
        /\ Inserted(w, Of(w), k).val = rows[k]
        /\ Inserted(w, Of(w), k).born =
              IF taken(k) THEN table[Of(w)][k].born ELSE tx[w]
  <2> SUFFICES ASSUME NEW k \in DOMAIN rows
               PROVE  /\ rows[k] \in Val
                      /\ (IF taken(k) THEN table[Of(w)][k].born ELSE tx[w]) \in Nat
    BY DEF Inserted, Row
  <2>1. rows[k] \in Val
    BY <1>1, <1>2, ContentIsVal
  <2>2. CASE taken(k)
    BY <2>1, <2>2, <1>1, <1>5 DEF IInv, TypeOK, Row
  <2>3. CASE ~taken(k)
    BY <2>1, <2>3 DEF IInv, TypeOK
  <2> QED
    BY <2>2, <2>3
<1>7. \A k \in DOMAIN rows : Inserted(w, Of(w), k) \notin {Kept, NoRow}
  BY <1>6, ReplaceAssumption
<1>8. TypeOK'
  <2>1. own' \in [Writer -> [Table -> [Key -> Row \cup {NoRow, Kept}]]]
    <3>1. [k \in Key |-> IF k \in DOMAIN rows THEN Inserted(w, Of(w), k)
                         ELSE own[w][Of(w)][k]] \in [Key -> Row \cup {NoRow, Kept}]
      BY <1>1, <1>6 DEF IInv, TypeOK
    <3> QED
      BY <3>1, <1>1 DEF IInv, TypeOK
  <2>2. step' \in [Writer -> 0 .. AtCommit]
    BY <1>2 DEF IInv, TypeOK, AtCommit
  <2> QED
    BY <2>1, <2>2 DEF IInv, TypeOK
<1>9. TxInv'
  <2> SUFFICES ASSUME NEW v \in Writer PROVE TxOK(v)'
    BY DEF TxInv
  <2>1. TxOK(v) /\ TxOK(w)
    BY DEF IInv, TxInv
  <2>2. \A u \in Writer : step'[u] = 0 <=> step[u] = 0
    BY <1>2, <1>4
  <2>3. v # w => own'[v] = own[v]
    BY DEF IInv, TypeOK
  <2> QED
    BY <1>2, <1>4, <2>1, <2>2, <2>3 DEF TxOK, Deletes
<1>10. Exclusive'
  <2> SUFFICES ASSUME NEW v \in Writer, NEW k \in DOMAIN rows, v # w
               PROVE  own[v][Of(w)][k] = Kept
    BY <1>3 DEF IInv, Exclusive
  <2>1. ~Locked(w, Of(w), k)
    OBVIOUS
  <2>2. CASE step[v] = 0
    BY <2>2, <1>1, <1>5 DEF IInv, TxInv, TxOK, Untouched
  <2>3. CASE step[v] # 0
    BY <2>1, <2>3 DEF Locked, Running
  <2> QED
    BY <2>2, <2>3
<1>11. OwnBirths'
  <2> SUFFICES ASSUME NEW v \in Writer, NEW t \in Table, NEW k \in Key,
                      own'[v][t][k] \notin {Kept, NoRow}
               PROVE  \/ own'[v][t][k].born = tx[v]
                      \/ /\ table[t][k] # NoRow
                         /\ own'[v][t][k].born = table[t][k].born
    BY DEF OwnBirths
  <2>1. CASE v = w /\ t = Of(w) /\ k \in DOMAIN rows
    BY <2>1, <1>3, <1>6
  <2>2. CASE ~(v = w /\ t = Of(w) /\ k \in DOMAIN rows)
    <3>1. own'[v][t][k] = own[v][t][k]
      BY <2>2, <1>3
    <3> QED
      BY <3>1 DEF IInv, OwnBirths
  <2> QED
    BY <2>1, <2>2
<1>12. ScriptInv'
  <2> SUFFICES ASSUME NEW v \in Writer, NEW t \in Table, NEW k \in Key
               PROVE  /\ step'[v] <= DeleteAt(t) => own'[v][t][k] = Kept
                      /\ step'[v] <= InsertAt(t) => own'[v][t][k] \in {Kept, NoRow}
                      /\ step'[v] > InsertAt(t) =>
                            IF k \in DOMAIN Content[doc[v]][t]
                            THEN /\ own'[v][t][k] \notin {Kept, NoRow}
                                 /\ own'[v][t][k].val = Content[doc[v]][t][k]
                            ELSE own'[v][t][k] \in {Kept, NoRow}
    BY DEF ScriptInv
  <2>1. DeleteAt(t) \in Nat /\ InsertAt(t) \in Nat
    BY DEF DeleteAt, InsertAt
  <2>2. CASE v # w
    BY <2>2, <1>3, <1>4 DEF IInv, ScriptInv
  <2>3. CASE v = w /\ t = Of(w)
    <3>1. step'[w] > DeleteAt(t) /\ step'[w] > InsertAt(t)
      BY <2>1, <2>3, <1>1, <1>2, <1>4
    <3>2. own[w][t][k] \in {Kept, NoRow}
      BY <2>1, <2>3, <1>1, <1>2 DEF IInv, ScriptInv
    <3>3. CASE k \in DOMAIN rows
      BY <2>1, <2>3, <3>1, <3>3, <1>2, <1>3, <1>4, <1>6, <1>7
    <3>4. CASE k \notin DOMAIN rows
      BY <2>1, <2>3, <3>1, <3>2, <3>4, <1>2, <1>3, <1>4
    <3> QED
      BY <3>3, <3>4
  <2>4. CASE v = w /\ t # Of(w)
    <3>1. own'[w][t][k] = own[w][t][k]
      BY <2>4, <1>3
    <3>2. step'[w] > DeleteAt(t) /\ (step'[w] > InsertAt(t) <=> step[w] > InsertAt(t))
      BY <2>1, <2>4, <1>1, <1>2, <1>4
    <3> QED
      BY <2>1, <2>4, <3>1, <3>2, <1>2, <1>4 DEF IInv, ScriptInv
  <2> QED
    BY <2>2, <2>3, <2>4
<1>13. DeletedInv'
  <2> SUFFICES ASSUME NEW v \in Writer, NEW t \in Table, NEW k \in Key,
                      step'[v] > DeleteAt(t), own'[v][t][k] = Kept, table[t][k] # NoRow
               PROVE  table[t][k].born \in overlap[v]
    BY DEF DeletedInv
  <2>1. step[v] > DeleteAt(t)
    BY <1>1, <1>4
  <2>2. own[v][t][k] = Kept
    BY <1>3, <1>7
  <2> QED
    BY <2>1, <2>2 DEF IInv, DeletedInv
<1>14. SnapInv'
  <2> SUFFICES ASSUME NEW v \in Writer, snap[v].open PROVE v # w
    BY <1>4 DEF IInv, SnapInv
  <2> QED
    BY <1>2 DEF IInv, TxInv, TxOK
<1>15. TableBirths' /\ EmptyInv' /\ LatestIsPresent' /\ StrangersAreRivals'
  BY DEF IInv, TableBirths, EmptyInv, LatestIsPresent, StrangersAreRivals
<1> QED
  BY <1>8, <1>9, <1>10, <1>11, <1>12, <1>13, <1>14, <1>15 DEF IInv

-----------------------------------------------------------------------------
(* The end of a transaction. *)

\* What Close does, writer by writer.
LEMMA Closed ==
    ASSUME IInv, NEW w \in Writer, Close(w)
    PROVE  \A v \in Writer :
              /\ step'[v] = IF v = w THEN 0 ELSE step[v]
              /\ tx'[v] = IF v = w THEN 0 ELSE tx[v]
              /\ doc'[v] = IF v = w THEN NoDoc ELSE doc[v]
              /\ snap'[v] = IF v = w THEN NoSnap ELSE snap[v]
              /\ own'[v] = IF v = w THEN Untouched ELSE own[v]
              /\ overlap'[v] = IF v = w THEN {} ELSE overlap[v]
  BY DEF Close, IInv, TypeOK

LEMMA ClosedTypes ==
    ASSUME IInv, NEW w \in Writer, Close(w)
    PROVE  /\ step' \in [Writer -> 0 .. AtCommit]
           /\ tx' \in [Writer -> Nat]
           /\ doc' \in [Writer -> Doc \cup {NoDoc}]
           /\ snap' \in [Writer -> [open : BOOLEAN, rows : SUBSET (Key \X Nat)]]
           /\ own' \in [Writer -> [Table -> [Key -> Row \cup {NoRow, Kept}]]]
           /\ overlap' \in [Writer -> SUBSET Nat]
<1>1. Untouched \in [Table -> [Key -> Row \cup {NoRow, Kept}]]
  BY DEF Untouched
<1>2. NoSnap \in [open : BOOLEAN, rows : SUBSET (Key \X Nat)]
  BY DEF NoSnap
<1> QED
  BY <1>1, <1>2 DEF Close, IInv, TypeOK, AtCommit

\* The conjuncts that do not look at the tables.
LEMMA ClosedInv ==
    ASSUME IInv, NEW w \in Writer, Close(w), UNCHANGED xid
    PROVE  TxInv' /\ Exclusive' /\ ScriptInv'
<1>1. TxInv'
  <2> SUFFICES ASSUME NEW v \in Writer PROVE TxOK(v)'
    BY DEF TxInv
  <2>1. TxOK(v)
    BY DEF IInv, TxInv
  <2> QED
    BY <2>1, Closed DEF TxOK, NoSnap, Deletes
<1>2. Exclusive'
  BY Closed DEF IInv, Exclusive, Untouched
<1>3. ScriptInv'
  <2> SUFFICES ASSUME NEW v \in Writer, NEW t \in Table, NEW k \in Key
               PROVE  /\ step'[v] <= DeleteAt(t) => own'[v][t][k] = Kept
                      /\ step'[v] <= InsertAt(t) => own'[v][t][k] \in {Kept, NoRow}
                      /\ step'[v] > InsertAt(t) =>
                            IF k \in DOMAIN Content[doc'[v]][t]
                            THEN /\ own'[v][t][k] \notin {Kept, NoRow}
                                 /\ own'[v][t][k].val = Content[doc'[v]][t][k]
                            ELSE own'[v][t][k] \in {Kept, NoRow}
    BY DEF ScriptInv
  <2>1. CASE v = w
    BY <2>1, Closed DEF Untouched, InsertAt
  <2>2. CASE v # w
    BY <2>2, Closed DEF IInv, ScriptInv
  <2> QED
    BY <2>1, <2>2
<1> QED
  BY <1>1, <1>2, <1>3

LEMMA InvRollback ==
    ASSUME IInv, NEW w \in Writer, Rollback(w)
    PROVE  IInv'
<1> USE DEF Rollback, store
<1>1. TypeOK'
  BY ClosedTypes DEF IInv, TypeOK
<1>2. TxInv' /\ Exclusive' /\ ScriptInv'
  BY ClosedInv
<1>3. OwnBirths'
  BY Closed DEF IInv, OwnBirths, Untouched
<1>4. DeletedInv'
  <2>1. \A t \in Table : ~(0 > DeleteAt(t))
    BY DEF DeleteAt
  <2> QED
    BY <2>1, Closed DEF IInv, DeletedInv
<1>5. SnapInv'
  BY Closed DEF IInv, SnapInv, NoSnap
<1>6. TableBirths' /\ EmptyInv' /\ LatestIsPresent' /\ StrangersAreRivals'
  BY DEF IInv, TableBirths, EmptyInv, LatestIsPresent, StrangersAreRivals
<1> QED
  BY <1>1, <1>2, <1>3, <1>4, <1>5, <1>6 DEF IInv

LEMMA InvCommit ==
    ASSUME IInv, NEW w \in Writer, Commit(w)
    PROVE  IInv'
<1> USE DEF Commit
<1>1. /\ doc[w] \in Doc /\ tx[w] \in 1 .. xid
      /\ \A t \in Table : step[w] > DeleteAt(t) /\ step[w] > InsertAt(t)
  <2>1. step[w] = 7
    BY DEF AtCommit
  <2> QED
    BY <2>1 DEF IInv, TxInv, TxOK, DeleteAt, InsertAt
<1>2. \A t \in Table : \A k \in Key :
        /\ own[w][t][k] = Kept => table'[t][k] = table[t][k]
        /\ own[w][t][k] # Kept => table'[t][k] = own[w][t][k]
  OBVIOUS
\* A new row of the table is as old as the one it replaces, or as w.
<1>3. \A t \in Table : \A k \in Key :
        table'[t][k] # NoRow =>
           \/ table'[t][k].born = tx[w]
           \/ table[t][k] # NoRow /\ table'[t][k].born = table[t][k].born
  BY <1>2 DEF IInv, OwnBirths
<1>4. TypeOK'
  <2>1. table' \in [Table -> [Key -> Row \cup {NoRow}]]
    BY DEF IInv, TypeOK
  <2>2. latest' \in Doc /\ rivals' \in SUBSET Nat
    BY <1>1 DEF IInv, TypeOK
  <2> QED
    BY <2>1, <2>2, ClosedTypes DEF IInv, TypeOK
<1>5. TxInv' /\ Exclusive' /\ ScriptInv'
  BY ClosedInv
<1>6. TableBirths'
  <2> SUFFICES ASSUME NEW t \in Table, NEW k \in Key, table'[t][k] # NoRow
               PROVE  table'[t][k].born \in 1 .. xid
    BY DEF TableBirths
  <2> QED
    BY <1>1, <1>3 DEF IInv, TableBirths
\* Nobody else's row moved under it.
<1>7. \A v \in Writer : \A t \in Table : \A k \in Key :
        v # w /\ own[v][t][k] # Kept => table'[t][k] = table[t][k]
  BY <1>2 DEF IInv, Exclusive
<1>8. OwnBirths'
  <2> SUFFICES ASSUME NEW v \in Writer, NEW t \in Table, NEW k \in Key,
                      own'[v][t][k] \notin {Kept, NoRow}
               PROVE  \/ own'[v][t][k].born = tx'[v]
                      \/ /\ table'[t][k] # NoRow
                         /\ own'[v][t][k].born = table'[t][k].born
    BY DEF OwnBirths
  <2>1. v # w /\ own'[v] = own[v] /\ tx'[v] = tx[v]
    BY Closed DEF Untouched
  <2> QED
    BY <2>1, <1>7 DEF IInv, OwnBirths
\* The others overlap w, hence a row they did not see may be one of w's.
<1>9. \A v \in Writer : v # w /\ step[v] # 0 => tx[w] \in overlap[v]
  BY DEF IInv, TxInv, TxOK, AtCommit
<1>10. DeletedInv'
  <2> SUFFICES ASSUME NEW v \in Writer, NEW t \in Table, NEW k \in Key,
                      step'[v] > DeleteAt(t), own'[v][t][k] = Kept,
                      table'[t][k] # NoRow
               PROVE  table'[t][k].born \in overlap'[v]
    BY DEF DeletedInv
  <2>1. /\ v # w /\ step[v] > DeleteAt(t) /\ step[v] # 0
        /\ own[v][t][k] = Kept /\ overlap'[v] = overlap[v]
    BY Closed DEF DeleteAt
  <2>2. CASE table'[t][k].born = tx[w]
    BY <2>1, <2>2, <1>9
  <2>3. CASE table[t][k] # NoRow /\ table'[t][k].born = table[t][k].born
    BY <2>1, <2>3 DEF IInv, DeletedInv
  <2> QED
    BY <2>2, <2>3, <1>3
<1>11. SnapInv'
  <2> SUFFICES ASSUME NEW v \in Writer, NEW t \in Table, NEW k \in Key,
                      step'[v] = DeleteAt(t), snap'[v].open, table'[t][k] # NoRow
               PROVE  \/ <<k, table'[t][k].born>> \in snap'[v].rows
                      \/ table'[t][k].born \in overlap'[v]
    BY DEF SnapInv
  <2>1. /\ v # w /\ step[v] = DeleteAt(t) /\ step[v] # 0
        /\ snap'[v] = snap[v] /\ overlap'[v] = overlap[v]
    BY Closed DEF DeleteAt, NoSnap
  <2>2. CASE table'[t][k].born = tx[w]
    BY <2>1, <2>2, <1>9
  <2>3. CASE table[t][k] # NoRow /\ table'[t][k].born = table[t][k].born
    BY <2>1, <2>3 DEF IInv, SnapInv
  <2> QED
    BY <2>2, <2>3, <1>3
<1>12. EmptyInv'
  BY <1>1, ReplaceAssumption DEF EmptyInv
<1>13. LatestIsPresent'
  <2>0. latest' = doc[w]
    OBVIOUS
  <2> SUFFICES ASSUME NEW t \in Table, NEW k \in DOMAIN Content[doc[w]][t]
               PROVE  table'[t][k] # NoRow /\ table'[t][k].val = Content[doc[w]][t][k]
    <3> HIDE DEF Commit
    <3> QED
      BY <2>0 DEF LatestIsPresent
  <2>1. k \in Key
    BY <1>1, KeysOfContent
  <2>2. own[w][t][k] \notin {Kept, NoRow} /\ own[w][t][k].val = Content[doc[w]][t][k]
    <3>1. ScriptInv
      BY DEF IInv
    <3>2. step[w] > InsertAt(t)
      BY <1>1
    <3> QED
      BY <2>1, <3>1, <3>2 DEF ScriptInv
  <2> QED
    BY <2>1, <2>2, <1>2
<1>14. StrangersAreRivals'
  <2> SUFFICES ASSUME NEW t \in Table, NEW k \in Key \ DOMAIN Content[doc[w]][t],
                      table'[t][k] # NoRow
               PROVE  table'[t][k].born \in overlap[w]
    BY DEF StrangersAreRivals
  <2>1. own[w][t][k] \in {Kept, NoRow}
    BY <1>1 DEF IInv, ScriptInv
  <2>2. own[w][t][k] = Kept /\ table[t][k] # NoRow /\ table'[t][k] = table[t][k]
    BY <2>1, <1>2, ReplaceAssumption
  <2> QED
    BY <2>2, <1>1 DEF IInv, DeletedInv
<1> QED
  BY <1>4, <1>5, <1>6, <1>8, <1>10, <1>11, <1>12, <1>13, <1>14 DEF IInv

-----------------------------------------------------------------------------
LEMMA InvNext == IInv /\ [Next]_vars => IInv'
<1> SUFFICES ASSUME IInv, [Next]_vars PROVE IInv'
  OBVIOUS
<1>1. ASSUME NEW w \in Writer, NEW d \in Doc, ReplaceProjectGraph(w, d) PROVE IInv'
  BY <1>1, InvReplace
<1>2. ASSUME NEW w \in Writer, NEW d \in Doc, PersistGraph(w, d) PROVE IInv'
  BY <1>2, InvPersist
<1>3. ASSUME NEW w \in Writer, BeginDelete(w) PROVE IInv'
  BY <1>3, InvBeginDelete
<1>4. ASSUME NEW w \in Writer, FinishDelete(w) PROVE IInv'
  BY <1>4, InvFinishDelete
<1>5. ASSUME NEW w \in Writer, Insert(w) PROVE IInv'
  BY <1>5, InvInsert
<1>6. ASSUME NEW w \in Writer, Commit(w) PROVE IInv'
  BY <1>6, InvCommit
<1>7. ASSUME NEW w \in Writer, Rollback(w) PROVE IInv'
  BY <1>7, InvRollback
<1>8. CASE UNCHANGED vars
  BY <1>8 DEF vars, store, writing, history, IInv, TypeOK, TxInv, TxOK, Deletes,
              Exclusive, TableBirths, OwnBirths, ScriptInv, DeletedInv, SnapInv,
              EmptyInv, LatestIsPresent, StrangersAreRivals
<1> QED
  BY <1>1, <1>2, <1>3, <1>4, <1>5, <1>6, <1>7, <1>8 DEF Next

LEMMA Invariance == Spec => []IInv
  BY InvInit, InvNext, PTL DEF Spec

\* Type correctness of the stored graph and of the open transactions.
THEOREM TypeCorrect == Spec => []TypeOK
<1>1. IInv => TypeOK
  BY DEF IInv
<1> QED
  BY <1>1, Invariance, PTL

\* Whatever transactions overlap, the document committed last is there whole.
THEOREM LatestStays == Spec => []LatestIsPresent
<1>1. IInv => LatestIsPresent
  BY DEF IInv
<1> QED
  BY <1>1, Invariance, PTL

\* A replacement removes every row but those of the transactions it overlapped.
THEOREM OnlyRivalsSurvive == Spec => []StrangersAreRivals
<1>1. IInv => StrangersAreRivals
  BY DEF IInv
<1> QED
  BY <1>1, Invariance, PTL

\* A replacement that overlapped no other leaves exactly its document: what the
\* code promises of every replacement, and what SQLite's single writer gives it.
THEOREM AloneIsExact == Spec => [](rivals = {} => StoredGraphIsOneDocument)
<1>1. IInv => (rivals = {} => StoredGraphIsOneDocument)
  <2> SUFFICES ASSUME IInv, rivals = {} PROVE StoredGraphIsOneDocument
    OBVIOUS
  <2>1. CASE latest = NoDoc
    BY <2>1 DEF IInv, EmptyInv, StoredGraphIsOneDocument
  <2>2. CASE latest # NoDoc
    BY <2>2 DEF IInv, LatestIsPresent, StrangersAreRivals, Shows,
                StoredGraphIsOneDocument
  <2> QED
    BY <2>1, <2>2
<1> QED
  BY <1>1, Invariance, PTL
=============================================================================
