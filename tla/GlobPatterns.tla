---------------------------- MODULE GlobPatterns ----------------------------
(***************************************************************************)
(* The client's glob patterns: brace expansion and the match of a path,    *)
(* segment by segment.  Patterns and names are sequences of characters.    *)
(* path.Match, which matches one segment with one name, is the library's   *)
(* and external: here it knows *, ? and \.                                 *)
(***************************************************************************)
EXTENDS Integers, Sequences, SequencesExt

CONSTANTS
  MaxGlobPatterns,  \* maxGlobPatterns
  MaxInt            \* the greatest int; ints wrap around behind it

ASSUME PatternLimits == MaxGlobPatterns \in Nat \ {0} /\ MaxInt \in Nat \ {0}

\* The characters of ranges in the order of their codes (a range goes from
\* digit to digit or from letter to letter: the codes between are left out).
Digits  == <<"0", "1", "2", "3", "4", "5", "6", "7", "8", "9">>
Letters == <<"a", "b", "c", "d", "e">>
Code(x) == CHOOSE i \in DOMAIN (Digits \o Letters) : (Digits \o Letters)[i] = x

\* What braceRange, braceAlts and expandBraces return: alternatives, "this is
\* no group to expand" (nil), an error, or nothing because the int overflowed.
Alts(seq) == [kind |-> "alts", alts |-> seq]
Literal   == [kind |-> "literal", alts |-> <<>>]
TooMany   == [kind |-> "too many", alts |-> <<>>]
Overflow  == [kind |-> "overflow", alts |-> <<>>]

Wrap(n) == ((n + MaxInt + 1) % (2 * MaxInt + 2)) - (MaxInt + 1)

-----------------------------------------------------------------------------
(* strconv                                                                 *)

Unsigned(s) == IF s # <<>> /\ s[1] \in {"+", "-"} THEN Tail(s) ELSE s

Value(s) ==
  LET Shift(n, x) == 10 * n + Code(x) - 1
      n == FoldLeft(Shift, 0, Unsigned(s))
  IN IF s[1] = "-" THEN -n ELSE n

\* strconv.Atoi succeeds.
IsInt(s) ==
  /\ Unsigned(s) # <<>>
  /\ ToSet(Unsigned(s)) \subseteq ToSet(Digits)
  /\ Value(s) \in -MaxInt - 1 .. MaxInt

\* strconv.Itoa.
RECURSIVE Itoa(_)
Itoa(n) ==
  IF n < 0 THEN <<"-">> \o Itoa(-n)
  ELSE IF n < 10 THEN <<Digits[n + 1]>>
  ELSE Append(Itoa(n \div 10), Digits[(n % 10) + 1])

-----------------------------------------------------------------------------
(* Brace expansion                                                         *)

\* Where ".." begins first, 0 if nowhere (strings.Cut).
Dots(s) == SelectInSeq([i \in 1 .. Len(s) - 1 |-> SubSeq(s, i, i + 1)], LAMBDA t : t = <<".", ".">>)

\* The loop of braceRange: the characters or numbers from one end to the other,
\* downwards if the first is the greater.
RangeItems(from, to, chars) ==
  LET Item(n) == IF chars THEN <<(Digits \o Letters)[n]>> ELSE Itoa(n)
      least == IF from <= to THEN from ELSE to
      most  == IF from <= to THEN to ELSE from
      width == Wrap(Wrap(most - least) + 1)
  IN IF width > MaxGlobPatterns THEN TooMany
     ELSE IF width < 0 \/ most = MaxInt THEN Overflow  \* make panics, n <= to for ever
     ELSE Alts([k \in 1 .. width |-> IF from <= to THEN Item(from + k - 1) ELSE Item(from - k + 1)])

\* braceRange: a range of characters, or of numbers.
RangeBetween(lo, hi) ==
  IF Len(lo) = 1 /\ Len(hi) = 1 THEN RangeItems(Code(lo[1]), Code(hi[1]), TRUE)
  ELSE IF IsInt(lo) /\ IsInt(hi) THEN RangeItems(Value(lo), Value(hi), FALSE)
  ELSE Literal

BraceRange(inner) ==
  LET at == Dots(inner)
  IN IF at = 0 THEN Literal
     ELSE RangeBetween(SubSeq(inner, 1, at - 1), SubSeq(inner, at + 2, Len(inner)))

\* closingBrace: the '}' that closes the group open before place i, depth
\* groups being open by then; 0 if there is none.
RECURSIVE ClosingBrace(_, _, _)
ClosingBrace(p, i, depth) ==
  IF i > Len(p) THEN 0
  ELSE CASE p[i] = "\\" -> ClosingBrace(p, i + 2, depth)
         [] p[i] = "{"  -> ClosingBrace(p, i + 1, depth + 1)
         [] p[i] = "}"  -> IF depth = 1 THEN i ELSE ClosingBrace(p, i + 1, depth - 1)
         [] OTHER       -> ClosingBrace(p, i + 1, depth)

\* The places of the commas outside of inner groups and escapes.
RECURSIVE Commas(_, _, _)
Commas(s, i, depth) ==
  IF i > Len(s) THEN <<>>
  ELSE CASE s[i] = "\\" -> Commas(s, i + 2, depth)
         [] s[i] = "{"  -> Commas(s, i + 1, depth + 1)
         [] s[i] = "}"  -> Commas(s, i + 1, depth - 1)
         [] s[i] = "," /\ depth = 0 -> <<i>> \o Commas(s, i + 1, depth)
         [] OTHER       -> Commas(s, i + 1, depth)

\* The pieces of s between the places in at.
SplitAt(s, at) ==
  LET cuts == <<0>> \o at \o <<Len(s) + 1>>
  IN [k \in 1 .. Len(cuts) - 1 |-> SubSeq(s, cuts[k] + 1, cuts[k + 1] - 1)]

BraceAlts(inner) ==
  LET commas == Commas(inner, 1, 0)
  IN IF commas # <<>> THEN Alts(SplitAt(inner, commas)) ELSE BraceRange(inner)

\* A '{' that is not behind an odd number of '\'.
Opens(p, i) ==
  /\ p[i] = "{"
  /\ Cardinality({j \in 1 .. i - 1 : ToSet(SubSeq(p, j, i - 1)) = {"\\"}}) % 2 = 0

\* The group that opens at place i; a '{' that nothing closes is none.
GroupAt(p, i) ==
  LET end == ClosingBrace(p, i, 0)
  IN IF end = 0 THEN Literal ELSE BraceAlts(SubSeq(p, i + 1, end - 1))

\* Where the loop of expandBraces stops: at the first group that is expanded or an
\* error, with what is before and behind it; no element if there is none.
FirstGroup(p) ==
  LET places == {i \in DOMAIN p : Opens(p, i) /\ GroupAt(p, i) # Literal}
  IN {[group  |-> GroupAt(p, i),
       before |-> SubSeq(p, 1, i - 1),
       behind |-> SubSeq(p, ClosingBrace(p, i, 0) + 1, Len(p))] :
      i \in {i \in places : \A j \in places : i <= j}}

\* The texts of all tails behind the same beginning. The first tail that ends in
\* an error or a panic is that of the whole; the limit is looked at after the last.
Joined(before, tails) ==
  LET Join(all, t) ==
        IF all.kind # "alts" THEN all
        ELSE IF t.kind # "alts" THEN t
        ELSE Alts(all.alts \o [k \in DOMAIN t.alts |-> before \o t.alts[k]])
      all == FoldLeft(Join, Alts(<<>>), tails)
  IN IF all.kind = "alts" /\ Len(all.alts) > MaxGlobPatterns THEN TooMany ELSE all

\* Mutant of Expand: what follows the group is not expanded any more.
ExpandFirst(p) ==
  LET Replaced(g) ==
        IF g.group.kind # "alts" THEN g.group
        ELSE Joined(g.before, [k \in DOMAIN g.group.alts |-> Alts(<<g.group.alts[k] \o g.behind>>)])
      all == {Replaced(g) : g \in FirstGroup(p)}
  IN IF all = {} THEN Alts(<<p>>) ELSE CHOOSE r \in all : TRUE

\* expandBraces: the first group is replaced by each of its alternatives, and
\* they are expanded with what follows it.
RECURSIVE Expand(_)
Expand(p) ==
  LET Replaced(g) ==
        IF g.group.kind # "alts" THEN g.group
        ELSE Joined(g.before, [k \in DOMAIN g.group.alts |-> Expand(g.group.alts[k] \o g.behind)])
      all == {Replaced(g) : g \in FirstGroup(p)}
  IN IF all = {} THEN Alts(<<p>>) ELSE CHOOSE r \in all : TRUE

TrimPrefix(s, prefix) ==
  IF IsPrefix(prefix, s) THEN SubSeq(s, Len(prefix) + 1, Len(s)) ELSE s

ExpandBraces(pattern) ==
  Expand(TrimPrefix(TrimPrefix(pattern, <<"/">>), <<".", "/">>))

-----------------------------------------------------------------------------
(* Matching                                                                *)

\* path.Match, without [classes].
RECURSIVE SegmentMatches(_, _)
SegmentMatches(p, name) ==
  IF p = <<>> THEN name = <<>>
  ELSE IF p[1] = "*"
    THEN SegmentMatches(Tail(p), name) \/ (name # <<>> /\ SegmentMatches(p, Tail(name)))
  ELSE LET size == IF p[1] = "\\" THEN 2 ELSE 1
       IN /\ Len(p) >= size /\ name # <<>>
          /\ p[1] = "?" \/ p[size] = name[1]
          /\ SegmentMatches(SubSeq(p, size + 1, Len(p)), Tail(name))

Segments(s) == SplitAt(s, SelectSeq([i \in 1 .. Len(s) |-> i], LAMBDA i : s[i] = "/"))

DoubleStar == <<"*", "*">>

\* Mutant of MatchSegments: "**" leaves at least one segment to the rest.
RECURSIVE MatchSegmentsShort(_, _)
MatchSegmentsShort(pat, seg) ==
  IF pat = <<>> THEN seg = <<>>
  ELSE IF pat[1] = DoubleStar
    THEN \E i \in 1 .. Len(seg) : MatchSegmentsShort(Tail(pat), SubSeq(seg, i, Len(seg)))
  ELSE /\ seg # <<>>
       /\ SegmentMatches(pat[1], seg[1])
       /\ MatchSegmentsShort(Tail(pat), Tail(seg))

\* "**" takes any number of segments.
RECURSIVE MatchSegments(_, _)
MatchSegments(pat, seg) ==
  IF pat = <<>> THEN seg = <<>>
  ELSE IF pat[1] = DoubleStar
    THEN \E i \in 1 .. Len(seg) + 1 : MatchSegments(Tail(pat), SubSeq(seg, i, Len(seg)))
  ELSE /\ seg # <<>>
       /\ SegmentMatches(pat[1], seg[1])
       /\ MatchSegments(Tail(pat), Tail(seg))

MatchAnyGlob(patterns, path) ==
  \E k \in DOMAIN patterns : MatchSegments(Segments(patterns[k]), path)

-----------------------------------------------------------------------------
(* Reference: what a pattern means by its syntax, not by a scan of its text *)

\* A syntax is a sequence of nodes: plain text, a group of alternatives, a
\* range of numbers, or braces around what is no such group.
Text(t)       == [node |-> "text", text |-> t]
Choice(alts)  == [node |-> "choice", alts |-> alts]
Span(lo, hi)  == [node |-> "span", lo |-> lo, hi |-> hi]
Braces(body)  == [node |-> "braces", body |-> body]

\* The pattern that a syntax is written as.
RECURSIVE Written(_)
Written(syntax) ==
  LET Node(n) ==
        CASE n.node = "text"   -> n.text
          [] n.node = "choice" ->
               <<"{">> \o Written(n.alts[1]) \o
               FlattenSeq([k \in 1 .. Len(n.alts) - 1 |-> <<",">> \o Written(n.alts[k + 1])]) \o <<"}">>
          [] n.node = "span"   -> <<"{">> \o Itoa(n.lo) \o <<".", ".">> \o Itoa(n.hi) \o <<"}">>
          [] n.node = "braces" -> <<"{">> \o Written(n.body) \o <<"}">>
  IN FlattenSeq([k \in DOMAIN syntax |-> Node(syntax[k])])

Each(A, B) == FlattenSeq([i \in DOMAIN A |-> [j \in DOMAIN B |-> A[i] \o B[j]]])

\* The texts it stands for, in bash's order.
RECURSIVE Meaning(_)
Meaning(syntax) ==
  LET Node(n) ==
        CASE n.node = "text"   -> <<n.text>>
          [] n.node = "choice" -> FlattenSeq([k \in DOMAIN n.alts |-> Meaning(n.alts[k])])
          [] n.node = "span"   ->
               IF n.lo <= n.hi THEN [k \in 1 .. n.hi - n.lo + 1 |-> Itoa(n.lo + k - 1)]
                               ELSE [k \in 1 .. n.lo - n.hi + 1 |-> Itoa(n.lo - k + 1)]
          [] n.node = "braces" -> Each(<< <<"{">> >>, Each(Meaning(n.body), << <<"}">> >>))
  IN IF syntax = <<>> THEN << <<>> >> ELSE Each(Node(syntax[1]), Meaning(Tail(syntax)))

\* A path matches when its names can be dealt out to the pattern's segments in
\* order, one name to each, or any number of them to "**".
Matches(text, path) ==
  LET pat == Segments(text)
  IN \E cut \in [0 .. Len(pat) -> 0 .. Len(path)] :
       /\ cut[0] = 0 /\ cut[Len(pat)] = Len(path)
       /\ \A k \in DOMAIN pat :
            IF pat[k] = DoubleStar
              THEN cut[k - 1] <= cut[k]
              ELSE cut[k] = cut[k - 1] + 1 /\ SegmentMatches(pat[k], path[cut[k]])

=============================================================================
