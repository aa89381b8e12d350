----------------------------- MODULE MCSymbolId -----------------------------
(***************************************************************************)
(* Small identities: names that need quoting or not, with the characters   *)
(* that delimit; coordinates with spaces anywhere but in front of a name.  *)
(***************************************************************************)
EXTENDS SymbolId

MCSimple == {"a", "0"}
MCChar == MCSimple \cup Delimiters
MCOrdinals == {<<"0">>}
TextsOf(chars, n) == UNION {[1 .. k -> chars] : k \in 1 .. n}
MCCallees == {<<"a">>, <<"a", ".", "bt">>, <<"bt", "sp">>}
DescriptorsOf(names) ==
    {d \in [name : names,
            suffix : {"namespace", "type", "term", "meta", "macro", "method", "type-parameter",
                      "parameter", "local"},
            dis : {<<>>, <<"0">>}] : d.dis = <<>> \/ d.suffix \in {"method", "local"}}
MCCoordinates ==
    {<<>>} \cup {c \in TextsOf({"a", "sp", "/"}, 2) \X TextsOf({"a", "sp", "/"}, 2) : Head(c[2]) # "sp"}
MCIdentities ==
    [pkg : {<<>>, <<<<"a", "sp">>, <<"/", "sp">>>>},
     path : {<<d>> : d \in DescriptorsOf(TextsOf({"a", "bt", "sp", "/", "("}, 2))}
              \cup {<<d, e>> : d, e \in DescriptorsOf({<<"a">>, <<"bt">>, <<"sp", "~">>})}]
      \cup [pkg : MCCoordinates, path : {<<d>> : d \in DescriptorsOf({<<"a">>, <<"sp">>})}]
OneIdentity == CHOOSE i \in MCIdentities : i.pkg = <<>>
=============================================================================
