---------------------------- MODULE GraphReplace ----------------------------
(***************************************************************************)
(* The stored graph of one project: replaceProjectGraph and persistGraph   *)
(* of packages/db as the statements of one transaction each.  The rows are *)
(* those of the three project-scoped tables; Content gives the rows of a   *)
(* document.                                                               *)
(*                                                                         *)
(* Kysely opens its transactions at the backend's default isolation.  On   *)
(* Postgres that is READ COMMITTED, modelled as the server does it: a      *)
(* DELETE sees the rows committed when the statement starts, waits for     *)
(* other transactions' uncommitted changes to them, and then skips those   *)
(* deleted meanwhile; an INSERT waits for uncommitted changes to its keys, *)
(* and on a key that is then taken it updates the row in place.  SQLite    *)
(* lets one writer run at a time, which is the case of no rivals here.     *)
(***************************************************************************)
EXTENDS Integers

CONSTANTS
    Writer,          \* worker processes and the populate CLI
    Doc,             \* graph documents
    NoDoc,           \* no document committed yet
    Key,             \* primary keys: node id, edge_key, ref_key
    Content,         \* Content[d][t]: key -> rest of the row; an edge's is its far end
    NoRow,           \* there is no committed row with this key
    Kept,            \* this transaction has not touched the key
    Populates,       \* TRUE: the populate CLI runs as well
    MaxTransactions  \* bound: transactions begun

Table == {"node", "edge", "reference"}

Val == UNION {UNION {{Content[d][t][k] : k \in DOMAIN Content[d][t]} :
                        t \in Table} : d \in Doc}
Row == [born : Nat, val : Val]

ASSUME ReplaceAssumption ==
    /\ \A d \in Doc, t \in Table : DOMAIN Content[d][t] \subseteq Key
    /\ NoDoc \notin Doc
    /\ NoRow \notin Row /\ Kept \notin Row /\ NoRow # Kept
    /\ Populates \in BOOLEAN
    /\ MaxTransactions \in Nat

VARIABLES
    table,   \* the committed rows, each with the transaction that inserted it
    xid,     \* transactions begun so far
    step,    \* per writer: the statement of Script it is at, 0 when idle
    tx, doc, \* per writer: its transaction and the document it writes
    snap,    \* per writer: the rows the running DELETE saw, by key and birth
    own,     \* per writer: its uncommitted changes
    \* history: the document of the last commit, the transactions it overlapped
    overlap, latest, rivals

store   == <<table, xid>>
writing == <<step, tx, doc, snap, own>>
history == <<overlap, latest, rivals>>
vars    == <<store, writing, history>>

\* The statements of the transaction, in the order the code issues them.
Script ==
    << "edge", "node", "reference",     \* DELETE FROM
       "node", "edge", "reference" >>   \* INSERT INTO

FirstInsert == 4
AtCommit    == 7

Untouched == [t \in Table |-> [k \in Key |-> Kept]]
NoSnap    == [open |-> FALSE, rows |-> {}]

TypeOK ==
    /\ table \in [Table -> [Key -> Row \cup {NoRow}]]
    /\ xid \in Nat
    /\ step \in [Writer -> 0 .. AtCommit]
    /\ tx \in [Writer -> Nat]
    /\ doc \in [Writer -> Doc \cup {NoDoc}]
    /\ snap \in [Writer -> [open : BOOLEAN, rows : SUBSET (Key \X Nat)]]
    /\ own \in [Writer -> [Table -> [Key -> Row \cup {NoRow, Kept}]]]
    /\ overlap \in [Writer -> SUBSET Nat]
    /\ latest \in Doc \cup {NoDoc}
    /\ rivals \in SUBSET Nat

Init ==
    /\ table = [t \in Table |-> [k \in Key |-> NoRow]]
    /\ xid = 0
    /\ step = [w \in Writer |-> 0]
    /\ tx = [w \in Writer |-> 0]
    /\ doc = [w \in Writer |-> NoDoc]
    /\ snap = [w \in Writer |-> NoSnap]
    /\ own = [w \in Writer |-> Untouched]
    /\ overlap = [w \in Writer |-> {}]
    /\ latest = NoDoc
    /\ rivals = {}

-----------------------------------------------------------------------------
Running == {w \in Writer : step[w] # 0}

\* The statement w is at.
Deletes(w) == step[w] \in 1 .. FirstInsert - 1
Inserts(w) == step[w] \in FirstInsert .. AtCommit - 1
Of(w)      == Script[step[w]]

\* Another open transaction holds a change to a row with this key.
Locked(w, t, k) == \E v \in Running \ {w} : own[v][t][k] # Kept

Advance(w) == step' = [step EXCEPT ![w] = @ + 1]

\* Open a transaction at its first statement.
Begin(w, d, first) ==
    /\ step[w] = 0
    /\ xid < MaxTransactions
    /\ xid' = xid + 1
    /\ step' = [step EXCEPT ![w] = first]
    /\ tx' = [tx EXCEPT ![w] = xid + 1]
    /\ doc' = [doc EXCEPT ![w] = d]
    /\ UNCHANGED <<table, snap, own, latest, rivals>>

\* The overlap of an opening transaction, and of those already open.
Meet(w, before) ==
    overlap' = [v \in Writer |->
        IF v = w THEN before
        ELSE IF v \in Running THEN overlap[v] \cup {xid + 1} ELSE overlap[v]]

ReplaceProjectGraph(w, d) ==
    Begin(w, d, 1) /\ Meet(w, {tx[v] : v \in Running})

\* persistGraph upserts without deleting: every earlier row may stay.
PersistGraph(w, d) ==
    Populates /\ Begin(w, d, FirstInsert) /\ Meet(w, 1 .. xid)

\* Mutant: the transaction leaves the edges of the old graph.
BeginDeleteSkipsEdges(w) ==
    /\ Deletes(w) /\ ~snap[w].open
    /\ snap' = [snap EXCEPT ![w] = [open |-> TRUE,
          rows |-> {<<k, table[Of(w)][k].born>> :
                      k \in {i \in Key : table[Of(w)][i] # NoRow /\ Of(w) # "edge"}}]]
    /\ UNCHANGED <<store, step, tx, doc, own, history>>

\* A DELETE starts: it will look at the rows committed now.
BeginDelete(w) ==
    /\ Deletes(w) /\ ~snap[w].open
    /\ snap' = [snap EXCEPT ![w] = [open |-> TRUE,
          rows |-> {<<k, table[Of(w)][k].born>> :
                      k \in {i \in Key : table[Of(w)][i] # NoRow}}]]
    /\ UNCHANGED <<store, step, tx, doc, own, history>>

\* Nobody else holds one of them any more: delete those that are still there.
FinishDelete(w) ==
    /\ Deletes(w) /\ snap[w].open
    /\ \A r \in snap[w].rows : ~Locked(w, Of(w), r[1])
    /\ own' = [own EXCEPT ![w][Of(w)] = [k \in Key |->
          IF /\ table[Of(w)][k] # NoRow
             /\ <<k, table[Of(w)][k].born>> \in snap[w].rows
          THEN NoRow ELSE Kept]]
    /\ snap' = [snap EXCEPT ![w] = NoSnap]
    /\ Advance(w)
    /\ UNCHANGED <<store, tx, doc, history>>

\* Mutant: ON CONFLICT DO NOTHING.
InsertedUnlessTaken(w, t, k) ==
    IF own[w][t][k] = Kept /\ table[t][k] # NoRow THEN Kept
    ELSE [born |-> tx[w], val |-> Content[doc[w]][t][k]]

\* INSERT ... ON CONFLICT DO UPDATE of one key: a taken row is updated in place.
Inserted(w, t, k) ==
    [born |-> IF own[w][t][k] = Kept /\ table[t][k] # NoRow
              THEN table[t][k].born ELSE tx[w],
     val  |-> Content[doc[w]][t][k]]

\* writeDocumentRows, writeUnresolvedReferenceRows: all rows of one table.
Insert(w) ==
    /\ Inserts(w)
    /\ \A k \in DOMAIN Content[doc[w]][Of(w)] : ~Locked(w, Of(w), k)
    /\ own' = [own EXCEPT ![w][Of(w)] = [k \in Key |->
          IF k \in DOMAIN Content[doc[w]][Of(w)]
          THEN Inserted(w, Of(w), k) ELSE own[w][Of(w)][k]]]
    /\ Advance(w)
    /\ UNCHANGED <<store, tx, doc, snap, history>>

\* The writer is idle again, with nothing uncommitted.
Close(w) ==
    /\ step' = [step EXCEPT ![w] = 0]
    /\ tx' = [tx EXCEPT ![w] = 0]
    /\ doc' = [doc EXCEPT ![w] = NoDoc]
    /\ snap' = [snap EXCEPT ![w] = NoSnap]
    /\ own' = [own EXCEPT ![w] = Untouched]
    /\ overlap' = [overlap EXCEPT ![w] = {}]

Commit(w) ==
    /\ step[w] = AtCommit
    /\ table' = [t \in Table |-> [k \in Key |->
          IF own[w][t][k] = Kept THEN table[t][k] ELSE own[w][t][k]]]
    /\ latest' = doc[w]
    /\ rivals' = overlap[w]
    /\ Close(w)
    /\ UNCHANGED xid

\* A statement fails, or the process dies: nothing of the transaction stays.
Rollback(w) ==
    /\ step[w] # 0
    /\ Close(w)
    /\ UNCHANGED <<store, latest, rivals>>

Next ==
    \/ \E w \in Writer, d \in Doc : ReplaceProjectGraph(w, d) \/ PersistGraph(w, d)
    \/ \E w \in Writer : \/ BeginDelete(w) \/ FinishDelete(w) \/ Insert(w)
                         \/ Commit(w) \/ Rollback(w)

Spec == Init /\ [][Next]_vars

-----------------------------------------------------------------------------
\* The committed rows are those of document d, no more and no fewer.
Shows(d) ==
    \A t \in Table, k \in Key :
        IF k \in DOMAIN Content[d][t]
        THEN table[t][k] # NoRow /\ table[t][k].val = Content[d][t][k]
        ELSE table[t][k] = NoRow

\* The stored graph is always one whole document, the last one committed: no
\* reader finds an empty window, half a replacement, or a row of an older graph.
StoredGraphIsOneDocument ==
    IF latest = NoDoc THEN \A t \in Table, k \in Key : table[t][k] = NoRow
    ELSE Shows(latest)

\* Whatever overlaps, the document committed last is in the tables whole.
LatestIsPresent ==
    latest # NoDoc =>
        \A t \in Table : \A k \in DOMAIN Content[latest][t] :
            table[t][k] # NoRow /\ table[t][k].val = Content[latest][t][k]

\* A row the last replacement does not have comes from a transaction that was
\* open while that replacement was: nothing older survives a replacement.
StrangersAreRivals ==
    latest # NoDoc =>
        \A t \in Table : \A k \in Key \ DOMAIN Content[latest][t] :
            table[t][k] # NoRow => table[t][k].born \in rivals
=============================================================================
