---------------------------- MODULE MCClientTools ----------------------------
(* Finite instances of ClientTools for TLC.                                *)
EXTENDS ClientTools, GlobPatterns

CONSTANTS c1, c2

MCNames == << <<"a">>, <<"a", "b">>, <<"b">> >>
MCPaths ==
  {<<>>} \cup {<<m>> : m \in ToSet(MCNames)}
         \cup {<< <<"a">>, <<"a">> >>, << <<"a">>, <<"b">> >>, << <<"a">>, <<"a">>, <<"b">> >>}
OneTree == [p \in MCPaths |-> IF p = <<>> THEN "dir" ELSE IF Len(p) = 1 THEN "file" ELSE "absent"]

\* Two calls in turn or side by side, one of them changing the file: none, an empty one,
\* overlapping and missing matches, lines longer than ReadMaxBytes, empty
\* lines, a last line with and without NL.
MCTexts ==
  {NoFile, <<>>, <<"a", "a", "a">>, <<"a", "b", "b", "b">>, <<"a", NL, NL, "b">>,
   <<"a", NL, "a", "b", NL, "a", NL>>}
MCReads  == [tool : {"read"}, host : {"machine"}, offset : 0 .. 4, limit : {0, 1, 2}]
MCWrites == [tool : {"write"}, host : {"machine", "a:b"}, text : {<<"b">>}]
MCEdits  == [tool : {"edit"}, host : {"machine"}, all : BOOLEAN,
             old : {<<>>, <<"a">>, <<"a", "a">>}, new : {<<"a">>, <<"b", "a", "b">>}]
MCExecs  == [tool : {"exec"}, host : {"machine"}, exit : {0, 1}, out : {<<"a">>}, err : {<<>>}]
FileRequests == MCReads \cup MCWrites \cup MCEdits \cup MCExecs
MCChanges == MCWrites \cup MCEdits
\* With another call, a read is of the beginning.
Paired == {q \in FileRequests : q.tool = "read" => q.offset = 1}
FileCases ==
  [file : MCTexts, tree : {OneTree},
   script : {<<q, r>> : q \in Paired, r \in MCChanges}
              \cup {<<q, r>> : q \in MCChanges, r \in Paired} \cup {<<q>> : q \in FileRequests}]

\* One walk on every small tree that changes meanwhile.
Globs(syntaxes) ==
  {[tool |-> "glob", host |-> "machine", pattern |-> Written(s), syntax |-> s] : s \in syntaxes}
Lists == [tool : {"list"}, host : {"machine"}, depth : 0 .. 4]
Star == Text(<<"*">>)
Deep == Text(<<"*", "*", "/">>)
A    == Text(<<"a">>)
B    == Text(<<"b">>)
\* Only a and a/a have entries; a closed directory has some after a change only.
Trees ==
  {k \in [MCPaths -> Kinds] :
     /\ IsTree(k)
     /\ \A p \in MCPaths \ {<<>>, << <<"a">> >>, << <<"a">>, <<"a">> >>} : ~IsDir(k[p])
     /\ \A p \in MCPaths \ {<<>>} : k[p] # "absent" => k[Front(p)] = "dir"}
Walks ==
  Lists \cup Globs({<<Star>>, <<Deep, B>>, <<A, Text(<<"/">>), Star>>,
                    <<Deep, Choice(<<<<A>>, <<Deep, B>>>>)>>})
WalkCases == [file : {NoFile}, tree : Trees, script : {<<q>> : q \in Walks}]

\* Patterns of up to three nodes; those of three where there is no base to walk,
\* which comes after the expansion, the others on one tree.
NoTree == [p \in MCPaths |-> "absent"]
Nodes ==
  {A, Star, Text(<<"\\", "{">>), Text(<<",">>), Span(1, 3), Span(10, 9), Braces(<<A>>),
   Choice(<<<<A>>, <<B>>>>), Choice(<<<<>>, <<Text(<<"/">>), B>>>>),
   Choice(<<<<A>>, <<B, Choice(<<<<A>>, <<Text(<<"\\", ",">>)>>>>)>>>>),
   Braces(<<A, Choice(<<<<A>>, <<B>>>>)>>)}
ShortSyntaxes ==
  UNION {[1 .. n -> Nodes] : n \in 0 .. 2}
    \cup {<<Text(<<"{">>)>> \o s : s \in UNION {[1 .. n -> Nodes] : n \in 1 .. 2}}
LongSyntaxes == [1 .. 3 -> Nodes]
\* Ranges whose size, or whose end, does not fit an int.
Wide == {<<Span(-99, 99)>>, <<A, Span(98, 99)>>}
PatternCases ==
  [file : {NoFile}, tree : {OneTree}, script : {<<q>> : q \in Globs(ShortSyntaxes \cup Wide)}]
    \cup [file : {NoFile}, tree : {NoTree}, script : {<<q>> : q \in Globs(LongSyntaxes)}]

MCRequests == FileRequests \cup Walks \cup Globs(ShortSyntaxes \cup LongSyntaxes \cup Wide)
MCCases == FileCases \cup WalkCases \cup PatternCases
\* A pattern is expanded to what its syntax means, in bash's order, and is an
\* error just when that is more than MaxGlobPatterns texts; a path matches when
\* one of those texts matches it by the reference.
ExpandsAsMeant ==
  \A c \in Calls :
    LET texts == Meaning(req[c].syntax)
    IN task[c] \in {"walking", "ended"} /\ req[c].tool = "glob" =>
         IF result[c].status = "ERROR" /\ result[c].why = "pattern"
           THEN Len(texts) > MaxGlobPatterns
           ELSE result[c].status # "TIMEOUT" =>
                  /\ walk[c].patterns = texts /\ Len(texts) <= MaxGlobPatterns
                  /\ \A p \in Paths \ {<<>>} :
                       MatchesAny(walk[c].patterns, p) = \E t \in ToSet(texts) : Matches(t, p)

SlotsAlike == Permutations(Calls)
=============================================================================
