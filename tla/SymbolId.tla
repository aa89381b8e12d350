------------------------------ MODULE SymbolId ------------------------------
(***************************************************************************)
(* The codec of identities (packages/core/src/identity): an identity is a  *)
(* package coordinate and a path of descriptors, its id a text.  The rest  *)
(* of the development takes the identity for the id, which is right if no  *)
(* two identities are written alike, and if parsing gives back what was    *)
(* written: the id of a call site is made by parsing the id of the symbol  *)
(* around it.                                                              *)
(*                                                                         *)
(* A text is a sequence of characters, Simple those that need no escape.   *)
(*   identity   [pkg: <<>> or <<manager, name>>, path: Seq(descriptor)]    *)
(*   descriptor [name, suffix, dis], dis the disambiguator, <<>> if none   *)
(* The backtick, which quotes, is written "bt", the space "sp".            *)
(***************************************************************************)
EXTENDS Naturals, Sequences, SequencesExt

CONSTANTS Char, Simple,                     \* the characters
          Identities, CalleeTexts, Ordinals  \* what ids are made of

VARIABLES identity,    \* of a symbol, or of a call site in it
          symbolId,    \* its id
          isCallSite

Signs == [namespace |-> "/", type |-> "#", term |-> ".", meta |-> ":", macro |-> "!"]
Delimiters == {"bt", "sp", "(", ")", "[", "]", "~"} \cup {Signs[x] : x \in DOMAIN Signs}
ASSUME CharAssumption == Delimiters \subseteq Char /\ Simple \subseteq Char \ Delimiters

(* The identities the schemas admit, of which a disambiguator is a number, *)
(* and no package name begins with a space.                                *)
Names == Seq(Char) \ {<<>>}
DescriptorSuffixes == DOMAIN Signs \cup {"method", "type-parameter", "parameter", "local"}
Descriptors ==
    {d \in [name : Names, suffix : DescriptorSuffixes, dis : Seq(Char \ {"bt", "sp", ")", "~"})] :
       d.dis # <<>> => d.suffix \in {"method", "local"}}
Fields == Seq(Char \ {"bt"}) \ {<<>>}
Coordinates == {<<>>} \cup {c \in Fields \X Fields : Head(c[2]) # "sp"}
SymbolIdentities == [pkg : Coordinates, path : Seq(Descriptors) \ {<<>>}]

ASSUME TextsAssumption == /\ Identities \subseteq SymbolIdentities
                          /\ CalleeTexts \subseteq Names /\ Ordinals \subseteq Names

Doubled(text, c) == FlattenSeq([i \in DOMAIN text |-> IF text[i] = c THEN <<c, c>> ELSE <<text[i]>>])

(* Mutant: wraps and does not double. *)
WrapName(name) == IF ToSet(name) \subseteq Simple THEN name ELSE <<"bt">> \o name \o <<"bt">>
EncodeName(name) ==
    IF ToSet(name) \subseteq Simple THEN name ELSE <<"bt">> \o Doubled(name, "bt") \o <<"bt">>

EncodeDescriptor(d) ==
    LET name == EncodeName(d.name)
    IN  CASE d.suffix = "method"         -> name \o <<"(">> \o d.dis \o <<")", ".">>
          [] d.suffix = "type-parameter" -> <<"[">> \o name \o <<"]">>
          [] d.suffix = "parameter"      -> <<"(">> \o name \o <<")">>
          [] d.suffix = "local"          -> name \o <<"~">> \o d.dis \o <<"~">>
          [] OTHER                       -> Append(name, Signs[d.suffix])

FormatSymbolId(symbol) ==
    FlattenSeq([i \in DOMAIN symbol.pkg |-> Append(Doubled(symbol.pkg[i], "sp"), "sp")])
      \o FlattenSeq([i \in DOMAIN symbol.path |-> EncodeDescriptor(symbol.path[i])])

-----------------------------------------------------------------------------
(* Parsing: each reader takes what is left of the text, and answers what   *)
(* it read and the rest.  Where the code throws, ok is FALSE.  A loop of   *)
(* the code is a function that makes one turn; it is stationary once the   *)
(* loop has ended, and takes no more turns than there are characters.      *)

Loop(turn, start, turns) ==
    LET after[k \in Nat] == IF k = 0 THEN start ELSE turn[after[k - 1]]
    IN  after[turns]

Drop(s, n) == SubSeq(s, n + 1, Len(s))
StartsWith(s, c) == s # <<>> /\ Head(s) = c
Read(text, rest) == [ok |-> TRUE, text |-> text, rest |-> rest]
Thrown == [ok |-> FALSE, text |-> <<>>, rest |-> <<>>]

Reading == [text : Seq(Char), rest : Seq(Char), closed : BOOLEAN]
Reader(text, rest) == [text |-> text, rest |-> rest, closed |-> FALSE]
Ended(text, rest) == [text |-> text, rest |-> rest, closed |-> TRUE]
Opened(s) == Reader(<<>>, s)
Took(r, c, n) == Reader(Append(r.text, c), Drop(r.rest, n))
Closed(r) == Ended(r.text, Tail(r.rest))
IfClosed(r) == IF r.closed THEN Read(r.text, r.rest) ELSE Thrown

(* After an opening backtick. *)
QuotedTurn ==
    [r \in Reading |->
       CASE r.closed \/ r.rest = <<>> -> r
         [] ~r.closed /\ StartsWith(r.rest, "bt") ->
              IF StartsWith(Tail(r.rest), "bt") THEN Took(r, "bt", 2) ELSE Closed(r)
         [] OTHER -> Took(r, Head(r.rest), 1)]
Quoted(s) == IfClosed(Loop(QuotedTurn, Opened(s), Len(s)))

PlainTurn ==
    [r \in Reading |->
       IF r.rest # <<>> /\ Head(r.rest) \in Simple THEN Took(r, Head(r.rest), 1) ELSE r]
Plain(s) == LET r == Loop(PlainTurn, Opened(s), Len(s)) IN Read(r.text, r.rest)

NotEmpty(read) == IF read.text = <<>> THEN Thrown ELSE read
ReadName(s) == NotEmpty(IF StartsWith(s, "bt") THEN Quoted(Tail(s)) ELSE Plain(s))

(* What is before the next c, which is not part of the rest. *)
UpToTurn(c) ==
    [r \in Reading |->
       CASE r.closed \/ r.rest = <<>> -> r
         [] ~r.closed /\ StartsWith(r.rest, c) -> Closed(r)
         [] OTHER -> Took(r, Head(r.rest), 1)]
UpTo(s, c) == IfClosed(Loop(UpToTurn(c), Opened(s), Len(s)))

Bracketed == [x \in {"(", "["} |-> IF x = "(" THEN [suffix |-> "parameter", close |-> ")"]
                                              ELSE [suffix |-> "type-parameter", close |-> "]"]]
Descriptor(ok, name, suffix, dis, rest) ==
    [ok |-> ok, rest |-> rest, of |-> [name |-> name, suffix |-> suffix, dis |-> dis]]

Bracket(form, name) ==
    Descriptor(name.ok /\ StartsWith(name.rest, form.close), name.text, form.suffix, <<>>,
               Drop(name.rest, 1))

Method(name, dis) ==
    Descriptor(name.ok /\ dis.ok /\ StartsWith(dis.rest, "."), name.text, "method", dis.text,
               Drop(dis.rest, 1))
Local(name, dis) == Descriptor(name.ok /\ dis.ok, name.text, "local", dis.text, dis.rest)

Signed(name) ==
    LET known == {x \in DOMAIN Signs : StartsWith(name.rest, Signs[x])}
    IN  IF known = {} THEN Descriptor(FALSE, <<>>, "", <<>>, <<>>)
        ELSE Descriptor(name.ok, name.text, CHOOSE x \in known : TRUE, <<>>, Tail(name.rest))

(* What follows the name says which descriptor it is. *)
Suffixed(name) ==
    CASE StartsWith(name.rest, "(") -> Method(name, UpTo(Tail(name.rest), ")"))
      [] StartsWith(name.rest, "~") -> Local(name, UpTo(Tail(name.rest), "~"))
      [] OTHER                      -> Signed(name)

ParseDescriptor(s) ==
    IF Head(s) \in DOMAIN Bracketed THEN Bracket(Bracketed[Head(s)], ReadName(Tail(s)))
    ELSE Suffixed(ReadName(s))

Parsed == [name : Seq(Char), suffix : DescriptorSuffixes, dis : Seq(Char)]
Parsing == [path : Seq(Parsed), rest : Seq(Char), ok : BOOLEAN]
PathReader(path, rest) == [path |-> path, rest |-> rest, ok |-> TRUE]
DescriptorTurn ==
    [p \in Parsing |->
       IF ~p.ok \/ p.rest = <<>> THEN p
       ELSE LET d == ParseDescriptor(p.rest)
            IN  IF d.ok THEN PathReader(Append(p.path, d.of), d.rest) ELSE [p EXCEPT !.ok = FALSE]]
ParseDescriptorPath(s) == Loop(DescriptorTurn, PathReader(<<>>, s), Len(s))

(* Single spaces separate, two are one of the text; none do either between *)
(* backticks.                                                              *)
Splitting == [segments : Seq(Seq(Char)), current : Seq(Char), rest : Seq(Char), quoted : BOOLEAN]
Splitter(segments, current, rest) ==
    [segments |-> segments, current |-> current, rest |-> rest, quoted |-> FALSE]
Quoting(segments, current, rest) ==
    [segments |-> segments, current |-> current, rest |-> rest, quoted |-> TRUE]

TurnQuoting(t, current) ==
    IF StartsWith(t.rest, "bt") THEN Splitter(t.segments, current, Tail(t.rest))
                                ELSE Quoting(t.segments, current, Tail(t.rest))
TurnSplitting(t, current) ==
    CASE StartsWith(t.rest, "bt") -> Quoting(t.segments, current, Tail(t.rest))
      [] StartsWith(t.rest, "sp") /\ StartsWith(Tail(t.rest), "sp") ->
           Splitter(t.segments, current, Drop(t.rest, 2))
      [] StartsWith(t.rest, "sp") /\ ~StartsWith(Tail(t.rest), "sp") ->
           Splitter(Append(t.segments, t.current), <<>>, Tail(t.rest))
      [] OTHER -> Splitter(t.segments, current, Tail(t.rest))
SplitTurn ==
    [t \in Splitting |->
       IF t.rest = <<>> THEN t
       ELSE LET current == Append(t.current, Head(t.rest))
            IN  IF t.quoted THEN TurnQuoting(t, current) ELSE TurnSplitting(t, current)]
SplitTopLevelSegments(s) ==
    LET t == Loop(SplitTurn, Splitter(<<>>, <<>>, s), Len(s)) IN Append(t.segments, t.current)

NoIdentity == [pkg |-> <<>>, path |-> <<>>]
ParseSymbolId(text) ==
    LET segments == SplitTopLevelSegments(text)
        parsed == ParseDescriptorPath(Last(segments))
        coordinate == Front(segments)
    IN  IF /\ Len(segments) \in {1, 3} /\ ToSet(coordinate) \subseteq Fields
           /\ parsed.ok /\ parsed.path # <<>>
        THEN [pkg |-> coordinate, path |-> parsed.path] ELSE NoIdentity

CallDescriptor(callee, ordinal) ==
    [name |-> callee \o <<"#">> \o ordinal, suffix |-> "meta", dis |-> <<>>]
ComposeCallSiteId(enclosing, callee, ordinal) ==
    FormatSymbolId([ParseSymbolId(enclosing) EXCEPT
        !.path = Append(@, CallDescriptor(callee, ordinal))])

-----------------------------------------------------------------------------
(* Minting: the identity of a symbol is written down as its id, and of the *)
(* symbol around a call only the id is at hand.                            *)

minting == <<identity, symbolId, isCallSite>>

CallSiteOf(symbol, callee, ordinal) ==
    [symbol EXCEPT !.path = Append(@, CallDescriptor(callee, ordinal))]

MintSymbol ==
    /\ identity \in Identities
    /\ symbolId = FormatSymbolId(identity)
    /\ isCallSite = FALSE

MintCallSite ==
    /\ ~isCallSite
    /\ \E callee \in CalleeTexts, ordinal \in Ordinals :
         /\ symbolId' = ComposeCallSiteId(symbolId, callee, ordinal)
         /\ identity' = CallSiteOf(identity, callee, ordinal)
    /\ isCallSite' = TRUE

Minting == MintSymbol /\ [][MintCallSite]_minting

(* An id can be read back: parsing it gives the identity it stands for,    *)
(* whatever characters the names are made of, so no two identities have    *)
(* one id; and a call site made by parsing the id of a symbol is a child   *)
(* of that symbol (symbol-id.ts:5-21, call-site-id.ts:13-16).              *)
CodecIsLossless == ParseSymbolId(symbolId) = identity
=============================================================================
