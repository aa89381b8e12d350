--------------------------- MODULE MCGraphReplace ---------------------------
(***************************************************************************)
(* Two documents over three keys.  From One to Two the file "a" changes,   *)
(* "b" is renamed to "c", and the edge from "a" follows the rename; the    *)
(* edge from "b" is in One only, the unresolved reference in Two only.     *)
(***************************************************************************)
EXTENDS GraphReplace, TLC

Documents == {"One", "Two"}
Keys      == {"a", "b", "c"}

One == [node      |-> "a" :> "n" @@ "b" :> "n",
        edge      |-> "a" :> "b" @@ "b" :> "lib",
        reference |-> <<>>]
Two == [node      |-> "a" :> "m" @@ "c" :> "n",
        edge      |-> "a" :> "c",
        reference |-> "c" :> "gap"]

Documented == "One" :> One @@ "Two" :> Two

WriterSymmetry == Permutations(Writer)
=============================================================================
