------------------------- MODULE ClientToolsProofs -------------------------
(***************************************************************************)
(* Proofs about ClientTools, for any number of calls, any requests, names, *)
(* paths and limits, and whatever patterns expand to and match.            *)
(*                                                                         *)
(* That an answer of glob or list is complete needs what a walk has found  *)
(* so far, which the executor does not keep beyond the limit: a set of     *)
(* paths, as many as the total says, all of them before what is still to   *)
(* be looked at.  What existed all the time and is not in it is at or      *)
(* below an entry the walk has still to look at, and such an entry is a    *)
(* directory.                                                              *)
(*                                                                         *)
(* That a read shows its window and a write leaves what it was to leave    *)
(* needs what a task has in hand from one step to the next (ReadInv,       *)
(* QuietInv), and of the loops what ClientTextProofs proves: WindowShown,  *)
(* EditIsReplaced.                                                         *)
(***************************************************************************)
EXTENDS ClientTextProofs

IsWalk(w) == {"patterns", "todo", "out", "total"} \subseteq DOMAIN w

\* What is not a number, a path or a flag is at least there.
Shapes ==
  /\ script \in Seq(Requests)
  /\ req \in [Calls -> Requests \cup {NoReq}]
  /\ DOMAIN answer = Calls /\ DOMAIN data = Calls /\ DOMAIN walk = Calls
  /\ DOMAIN result = Calls /\ DOMAIN base = Calls
  /\ \A c \in Calls : IsWalk(walk[c])
  /\ seen \subseteq Paths

\* The paths in F are what has been found for q, out and total what is said of it.
Listing(q, F, out, total, ever) ==
  /\ F \subseteq Asked(q, ever)
  /\ Cardinality(F) = total
  /\ \A i \in DOMAIN out : out[i].path \in F
  /\ \A i, j \in DOMAIN out : i < j => Before(out[i].path, out[j].path)
  /\ Len(out) = IF total <= MaxResults THEN total ELSE MaxResults
  /\ total <= MaxResults => \A f \in F : \E i \in DOMAIN out : out[i].path = f

\* The entries in todo are behind F, and with what is below them cover the rest.
Ahead(q, F, todo, always, ever) ==
  /\ \A e \in todo : e.path \in ever /\ \A f \in F : Before(f, e.path)
  /\ \A p \in Asked(q, always) \ F : \E e \in todo : e.path = p \/ Above(e.path, p)
  /\ \A e \in todo : \A p \in always : Above(e.path, p) => e.dir

WalkOK(q, w, always, ever) ==
  \E F \in SUBSET Paths :
    Listing(q, F, w.out, w.total, ever) /\ Ahead(q, F, w.todo, always, ever)

ListOK(q, r, always, ever) ==
  /\ r.stdout \in Seq(Entries) /\ r.total \in Nat
  /\ \E F \in SUBSET Paths :
       Listing(q, F, r.stdout, r.total, ever) /\ Asked(q, always) \subseteq F

\* How far the task of the call with request q is, t, fits the tool, and what it
\* has or returned is what a walk finds.
CallOK(q, t, w, r, a, always, ever) ==
  /\ t # "none" => q \in Requests
  /\ t = "sent" => w.out = <<>> /\ w.total = 0
  /\ t \in Writing => q.tool \in {"write", "edit"}
  /\ t = "walking" =>
       /\ q.tool \in {"glob", "list"}
       /\ q.tool = "glob" => w.patterns = Expansion(q.pattern).alts
       /\ WalkOK(q, w, always, ever)
  /\ t = "ended" /\ r.status = "OK" /\ q.tool \in {"glob", "list"} => ListOK(q, r, always, ever)
  /\ a.kind = "entries" =>
       Complete(q, a, always, ever) /\ (a.footer # <<>> => a.footer[2] \in Nat)

CallsOK ==
  \A c \in Calls : CallOK(req[c], task[c], walk[c], result[c], answer[c], stayed, seen)

\* The inductive invariant.
IInv == TypeOK /\ Shapes /\ CallsOK

-----------------------------------------------------------------------------
(* Paths                                                                   *)

\* A path is a sequence, and its beginnings are paths.
LEMMA PathIsSeq ==
  ASSUME NEW p \in Paths
  PROVE  /\ p \in Seq(ToSet(Names)) /\ Len(p) \in Nat /\ DOMAIN p = 1 .. Len(p)
         /\ \A n \in 0 .. Len(p) : SubSeq(p, 1, n) \in Paths
BY PathsAssumption

\* What it is to be above a path, place by place.
LEMMA AboveByPlace ==
  ASSUME NEW p \in Paths, NEW q \in Paths
  PROVE  Above(p, q) <=> Len(p) < Len(q) /\ \A i \in 1 .. Len(p) : p[i] = q[i]
<1>1. p \in Seq(ToSet(Names)) /\ q \in Seq(ToSet(Names)) BY PathIsSeq
<1>2. Len(p) \in Nat /\ Len(q) \in Nat BY PathIsSeq
<1>3. SUFFICES ASSUME Len(p) < Len(q)
               PROVE  SubSeq(p, 1, Len(p)) = SubSeq(q, 1, Len(p))
                        <=> \A i \in 1 .. Len(p) : p[i] = q[i]
  BY <1>2 DEF Above, IsPrefix
<1> DEFINE s == SubSeq(p, 1, Len(p))
           t == SubSeq(q, 1, Len(p))
<1>4. /\ s \in Seq(ToSet(Names)) /\ Len(s) = Len(p)
      /\ \A i \in 1 .. Len(p) : s[i] = p[i]
  BY <1>1, <1>2
<1>5. /\ t \in Seq(ToSet(Names)) /\ Len(t) = Len(p)
      /\ \A i \in 1 .. Len(p) : t[i] = q[i]
  BY <1>1, <1>2, <1>3
<1>6. ASSUME s = t, NEW i \in 1 .. Len(p) PROVE p[i] = q[i]
  BY <1>4, <1>5, <1>6
<1>7. ASSUME \A i \in 1 .. Len(p) : p[i] = q[i] PROVE s = t
  BY <1>4, <1>5, <1>7
<1> QED BY <1>6, <1>7

\* Two paths that agree in their first places have the same beginning.
LEMMA SameBeginning ==
  ASSUME NEW p \in Paths, NEW q \in Paths, NEW n \in Nat, n <= Len(p), n <= Len(q),
         \A i \in 1 .. n : p[i] = q[i]
  PROVE  SubSeq(p, 1, n) = SubSeq(q, 1, n)
BY PathIsSeq

\* No path comes before itself: no name has two places.
LEMMA BeforeIrreflexive ==
  ASSUME NEW p \in Paths
  PROVE  ~Before(p, p)
<1>1. Len(p) \in Nat BY PathIsSeq
<1>2. \A j, k \in DOMAIN Names : Names[j] = Names[k] => j = k
  BY PathsAssumption DEF IsInjective
<1>3. DOMAIN Names \subseteq Int BY PathsAssumption
<1> QED BY <1>1, <1>2, <1>3 DEF Before, Above

\* What comes before a directory comes before all that is in it.
LEMMA BeforeBelow ==
  ASSUME NEW p \in Paths, NEW q \in Paths, NEW r \in Paths, Before(p, q), Above(q, r)
  PROVE  Before(p, r)
<1>1. Len(p) \in Nat /\ Len(q) \in Nat /\ Len(r) \in Nat BY PathIsSeq
<1>2. Len(q) < Len(r) /\ \A i \in 1 .. Len(q) : q[i] = r[i] BY AboveByPlace
<1>3. CASE Above(p, q)
  <2>1. Len(p) < Len(q) /\ \A i \in 1 .. Len(p) : p[i] = q[i] BY <1>3, AboveByPlace
  <2>2. Len(p) < Len(r) /\ \A i \in 1 .. Len(p) : p[i] = r[i] BY <1>1, <1>2, <2>1
  <2> QED BY <2>2, AboveByPlace DEF Before
<1>4. CASE ~Above(p, q)
  <2>1. PICK i \in DOMAIN p \cap DOMAIN q :
          /\ SubSeq(p, 1, i - 1) = SubSeq(q, 1, i - 1)
          /\ \E j, k \in DOMAIN Names : j < k /\ Names[j] = p[i] /\ Names[k] = q[i]
    BY <1>4 DEF Before
  <2>2. i \in 1 .. Len(p) /\ i \in 1 .. Len(q) /\ DOMAIN r = 1 .. Len(r) BY PathIsSeq
  <2>3. i \in DOMAIN p \cap DOMAIN r /\ r[i] = q[i] BY <1>1, <1>2, <2>1, <2>2
  <2>4. SubSeq(q, 1, i - 1) = SubSeq(r, 1, i - 1)
    <3>1. i - 1 \in Nat /\ i - 1 <= Len(q) /\ i - 1 <= Len(r) BY <1>1, <1>2, <2>2
    <3>2. \A n \in 1 .. i - 1 : q[n] = r[n] BY <1>1, <1>2, <2>2
    <3> QED BY <3>1, <3>2, SameBeginning
  <2> QED BY <2>1, <2>3, <2>4 DEF Before
<1> QED BY <1>3, <1>4

\* Below a directory the way to a path goes through one of its entries.
LEMMA WayDown ==
  ASSUME NEW p \in Paths, NEW q \in Paths, Above(p, q)
  PROVE  \E r \in Paths : Above(p, r) /\ Len(r) = Len(p) + 1 /\ (r = q \/ Above(r, q))
<1>1. Len(p) \in Nat /\ Len(q) \in Nat /\ q \in Seq(ToSet(Names)) BY PathIsSeq
<1>2. Len(p) < Len(q) /\ \A i \in 1 .. Len(p) : p[i] = q[i] BY AboveByPlace
<1> DEFINE r == SubSeq(q, 1, Len(p) + 1)
<1>3. r \in Paths BY <1>1, <1>2, PathIsSeq
<1>4. Len(r) = Len(p) + 1 /\ \A i \in 1 .. Len(p) + 1 : r[i] = q[i] BY <1>1, <1>2
<1>5. Above(p, r)
  <2>1. Len(p) < Len(r) /\ \A i \in 1 .. Len(p) : p[i] = r[i] BY <1>1, <1>2, <1>4
  <2> QED BY <1>3, <2>1, AboveByPlace
<1>6. r = q \/ Above(r, q)
  <2>1. CASE Len(q) = Len(p) + 1
    <3>1. r = q BY <1>1, <2>1
    <3> QED BY <3>1
  <2>2. CASE Len(r) < Len(q)
    BY <1>3, <1>4, <2>2, AboveByPlace
  <2> QED BY <1>1, <1>2, <1>4, <2>1, <2>2
<1> HIDE DEF r
<1> QED BY <1>3, <1>4, <1>5, <1>6

-----------------------------------------------------------------------------
(* What a walk finds                                                       *)

\* More paths that existed and fewer that lasted leave a listing right.
LEMMA ListingLasts ==
  ASSUME NEW q, NEW F, NEW out, NEW total, NEW ever, NEW ever2, ever \subseteq ever2,
         Listing(q, F, out, total, ever)
  PROVE  Listing(q, F, out, total, ever2)
BY DEF Listing, Asked

LEMMA CompleteLasts ==
  ASSUME NEW q, NEW a, NEW always, NEW always2, NEW ever, NEW ever2,
         always2 \subseteq always, always \subseteq ever, ever \subseteq ever2,
         ever2 \subseteq Paths, Complete(q, a, always, ever),
         a.footer # <<>> => a.footer[2] \in Nat
  PROVE  Complete(q, a, always2, ever2)
<1>1. /\ Asked(q, always2) \subseteq Asked(q, always)
      /\ Asked(q, always) \subseteq Asked(q, ever)
      /\ Asked(q, ever) \subseteq Asked(q, ever2)
      /\ Asked(q, ever2) \subseteq Paths
  BY DEF Asked
<1>2. /\ IsFiniteSet(Asked(q, always2)) /\ IsFiniteSet(Asked(q, always))
      /\ IsFiniteSet(Asked(q, ever)) /\ IsFiniteSet(Asked(q, ever2))
  BY <1>1, FS_Subset, PathsAssumption
<1>3. /\ Cardinality(Asked(q, always2)) <= Cardinality(Asked(q, always))
      /\ Cardinality(Asked(q, ever)) <= Cardinality(Asked(q, ever2))
  BY <1>1, <1>2, FS_Subset
<1>4. /\ Cardinality(Asked(q, always2)) \in Nat /\ Cardinality(Asked(q, always)) \in Nat
      /\ Cardinality(Asked(q, ever)) \in Nat /\ Cardinality(Asked(q, ever2)) \in Nat
  BY <1>2, FS_CardinalityType
<1> DEFINE shown == [i \in DOMAIN a.entries |-> a.entries[i].path]
<1>5. /\ ToSet(shown) \subseteq Asked(q, ever)
      /\ \A i, j \in DOMAIN shown : i < j => Before(shown[i], shown[j])
      /\ IF a.footer = <<>>
           THEN Asked(q, always) \subseteq ToSet(shown)
           ELSE /\ a.footer[1] = Len(shown) /\ a.footer[1] < a.footer[2]
                /\ Cardinality(Asked(q, always)) <= a.footer[2]
                /\ a.footer[2] <= Cardinality(Asked(q, ever))
  BY DEF Complete
<1> HIDE DEF shown
<1>6. /\ ToSet(shown) \subseteq Asked(q, ever2)
      /\ IF a.footer = <<>>
           THEN Asked(q, always2) \subseteq ToSet(shown)
           ELSE /\ a.footer[1] = Len(shown) /\ a.footer[1] < a.footer[2]
                /\ Cardinality(Asked(q, always2)) <= a.footer[2]
                /\ a.footer[2] <= Cardinality(Asked(q, ever2))
  <2>1. CASE a.footer = <<>> BY <1>1, <1>5, <2>1
  <2>2. CASE a.footer # <<>> BY <1>1, <1>3, <1>4, <1>5, <2>2
  <2> QED BY <2>1, <2>2
<1> QED BY <1>5, <1>6 DEF Complete, shown

\* One more path, behind all that has been found.
LEMMA ListingGrows ==
  ASSUME NEW q, NEW F \in SUBSET Paths, NEW w, NEW ever, NEW e \in Entries,
         w.out \in Seq(Entries), w.total \in Nat,
         IsWalk(w), Listing(q, F, w.out, w.total, ever),
         \A f \in F : Before(f, e.path), e.path \in ever, Wanted(q, e.path)
  PROVE  /\ Find(w, e).out \in Seq(Entries) /\ Find(w, e).total \in Nat
         /\ Find(w, e).patterns = w.patterns /\ IsWalk(Find(w, e))
         /\ Listing(q, F \cup {e.path}, Find(w, e).out, Find(w, e).total, ever)
<1> DEFINE more == IF Len(w.out) < MaxResults THEN Append(w.out, e) ELSE w.out
           G == F \cup {e.path}
<1>1. /\ Find(w, e).out = more /\ Find(w, e).total = w.total + 1
      /\ Find(w, e).patterns = w.patterns /\ IsWalk(Find(w, e))
  BY DEF Find, IsWalk
<1>2. e.path \in Paths BY DEF Entries
<1>3. e.path \notin F BY <1>2, BeforeIrreflexive
<1>4. IsFiniteSet(F) BY FS_Subset, PathsAssumption
<1>5. Cardinality(G) = w.total + 1
  <2>1. Cardinality(G) = Cardinality(F) + 1 BY <1>3, <1>4, FS_AddElement
  <2> QED BY <2>1 DEF Listing
<1>6. MaxResults \in Nat BY LimitsAssumption
<1>7. Len(w.out) \in Nat /\ DOMAIN w.out = 1 .. Len(w.out) OBVIOUS
<1>8. G \subseteq Asked(q, ever) BY DEF Listing, Asked
<1>9. CASE Len(w.out) < MaxResults
  <2>1. more = Append(w.out, e) BY <1>9
  <2>2. /\ more \in Seq(Entries) /\ Len(more) = Len(w.out) + 1
        /\ DOMAIN more = 1 .. Len(w.out) + 1
        /\ \A i \in 1 .. Len(w.out) : more[i] = w.out[i]
        /\ more[Len(w.out) + 1] = e
    BY <2>1
  <2>3. w.total < MaxResults /\ Len(w.out) = w.total BY <1>6, <1>9 DEF Listing
  <2> HIDE DEF more
  <2>4. \A i \in DOMAIN more : more[i].path \in G BY <1>7, <2>2 DEF Listing
  <2>5. \A i, j \in DOMAIN more : i < j => Before(more[i].path, more[j].path)
    <3>1. SUFFICES ASSUME NEW i \in DOMAIN more, NEW j \in DOMAIN more, i < j
                   PROVE  Before(more[i].path, more[j].path)
      OBVIOUS
    <3>2. i \in 1 .. Len(w.out) BY <1>7, <2>2, <3>1
    <3>3. CASE j \in 1 .. Len(w.out)
      <4>1. i \in DOMAIN w.out /\ j \in DOMAIN w.out /\ i < j BY <1>7, <3>1, <3>2, <3>3
      <4>2. Before(w.out[i].path, w.out[j].path) BY <4>1 DEF Listing
      <4> QED BY <2>2, <3>2, <3>3, <4>2
    <3>4. CASE j = Len(w.out) + 1
      <4>1. more[i].path \in F BY <1>7, <2>2, <3>2 DEF Listing
      <4> QED BY <2>2, <3>4, <4>1
    <3> QED BY <1>7, <2>2, <3>3, <3>4
  <2>6. Len(more) = IF w.total + 1 <= MaxResults THEN w.total + 1 ELSE MaxResults
    BY <1>6, <2>2, <2>3
  <2>7. \A f \in G : \E i \in DOMAIN more : more[i].path = f
    <3>1. ASSUME NEW f \in F PROVE \E i \in DOMAIN more : more[i].path = f
      <4>1. PICK i \in DOMAIN w.out : w.out[i].path = f BY <1>6, <2>3 DEF Listing
      <4> QED BY <1>7, <2>2, <4>1
    <3>2. \E i \in DOMAIN more : more[i].path = e.path
      <4>1. Len(w.out) + 1 \in DOMAIN more BY <1>7, <2>2
      <4> QED BY <2>2, <4>1
    <3> QED BY <3>1, <3>2
  <2> QED BY <1>1, <1>5, <1>8, <2>2, <2>4, <2>5, <2>6, <2>7 DEF Listing
<1>10. CASE ~(Len(w.out) < MaxResults)
  <2>1. more = w.out BY <1>10
  <2>2. w.total >= MaxResults /\ Len(w.out) = MaxResults BY <1>6, <1>7, <1>10 DEF Listing
  <2>3. \A i \in DOMAIN more : more[i].path \in G BY <2>1 DEF Listing
  <2>4. \A i, j \in DOMAIN more : i < j => Before(more[i].path, more[j].path)
    BY <2>1 DEF Listing
  <2>5. ~(w.total + 1 <= MaxResults) BY <1>6, <2>2
  <2> HIDE DEF more
  <2> QED BY <1>1, <1>5, <1>8, <2>1, <2>2, <2>3, <2>4, <2>5 DEF Listing
<1> QED BY <1>9, <1>10

\* What a walk has found when it ends makes an answer that is right.
LEMMA ListingAnswers ==
  ASSUME NEW q, NEW F \in SUBSET Paths, NEW r, NEW always, NEW ever, ever \subseteq Paths,
         Listing(q, F, r.stdout, r.total, ever), Asked(q, always) \subseteq F,
         r.stdout \in Seq(Entries), r.total \in Nat
  PROVE  Complete(q, RelayAnswer(r), always, ever)
<1> DEFINE a == RelayAnswer(r)
           out == r.stdout
           shown == [i \in DOMAIN out |-> out[i].path]
<1>1. /\ a.entries = out
      /\ a.footer = IF r.total > Len(out) THEN <<Len(out), r.total>> ELSE <<>>
  BY DEF RelayAnswer
<1>2. MaxResults \in Nat BY LimitsAssumption
<1>3. Len(out) \in Nat /\ DOMAIN out = 1 .. Len(out) OBVIOUS
<1>4. DOMAIN shown = DOMAIN out /\ \A i \in DOMAIN out : shown[i] = out[i].path OBVIOUS
<1>5. Len(shown) = Len(out) BY <1>3, <1>4
<1> HIDE DEF shown
<1>6. ToSet(shown) \subseteq F BY <1>4 DEF Listing, ToSet
<1>7. F \subseteq Asked(q, ever) /\ Asked(q, ever) \subseteq Paths BY DEF Listing, Asked
<1>8. IsFiniteSet(F) /\ IsFiniteSet(Asked(q, always)) /\ IsFiniteSet(Asked(q, ever))
  BY <1>7, FS_Subset, PathsAssumption
<1>9. Cardinality(F) = r.total BY DEF Listing
<1>10. \A i, j \in DOMAIN shown : i < j => Before(shown[i], shown[j])
  BY <1>4 DEF Listing
<1>11. IF a.footer = <<>>
         THEN Asked(q, always) \subseteq ToSet(shown)
         ELSE /\ a.footer[1] = Len(shown) /\ a.footer[1] < a.footer[2]
              /\ Cardinality(Asked(q, always)) <= a.footer[2]
              /\ a.footer[2] <= Cardinality(Asked(q, ever))
  <2>1. CASE r.total > Len(out)
    <3>1. a.footer = <<Len(out), r.total>> BY <1>1, <2>1
    <3>2. Cardinality(Asked(q, always)) <= r.total BY <1>8, <1>9, FS_Subset
    <3>3. r.total <= Cardinality(Asked(q, ever)) BY <1>7, <1>8, <1>9, FS_Subset
    <3> HIDE DEF a
    <3> QED BY <1>3, <1>5, <2>1, <3>1, <3>2, <3>3
  <2>2. CASE ~(r.total > Len(out))
    <3>1. a.footer = <<>> BY <1>1, <2>2
    <3>2. r.total <= MaxResults BY <1>2, <1>3, <2>2 DEF Listing
    <3>3. \A f \in F : \E i \in DOMAIN out : out[i].path = f BY <3>2 DEF Listing
    <3>4. F \subseteq ToSet(shown) BY <1>4, <3>3 DEF ToSet
    <3> QED BY <3>1, <3>4
  <2> QED BY <2>1, <2>2
<1> HIDE DEF a
<1>12. Complete(q, a, always, ever)
  BY <1>1, <1>4, <1>6, <1>7, <1>10, <1>11 DEF Complete, shown
<1> QED BY <1>12 DEF a

\* More paths that existed and fewer that lasted leave a call right.
LEMMA CallLasts ==
  ASSUME NEW q, NEW t, NEW w, NEW r, NEW a,
         NEW always, NEW always2, NEW ever, NEW ever2,
         always2 \subseteq always, always \subseteq ever, ever \subseteq ever2,
         ever2 \subseteq Paths, CallOK(q, t, w, r, a, always, ever)
  PROVE  CallOK(q, t, w, r, a, always2, ever2)
<1>1. ASSUME WalkOK(q, w, always, ever) PROVE WalkOK(q, w, always2, ever2)
  <2>1. PICK F \in SUBSET Paths :
          Listing(q, F, w.out, w.total, ever) /\ Ahead(q, F, w.todo, always, ever)
    BY <1>1 DEF WalkOK
  <2>2. Listing(q, F, w.out, w.total, ever2) BY <2>1, ListingLasts
  <2>3. Ahead(q, F, w.todo, always2, ever2) BY <2>1 DEF Ahead, Asked
  <2> QED BY <2>2, <2>3 DEF WalkOK
<1>2. ASSUME ListOK(q, r, always, ever) PROVE ListOK(q, r, always2, ever2)
  <2>1. PICK F \in SUBSET Paths :
          Listing(q, F, r.stdout, r.total, ever) /\ Asked(q, always) \subseteq F
    BY <1>2 DEF ListOK
  <2>2. Listing(q, F, r.stdout, r.total, ever2) BY <2>1, ListingLasts
  <2>3. Asked(q, always2) \subseteq F BY <2>1 DEF Asked
  <2> QED BY <1>2, <2>2, <2>3 DEF ListOK
<1>3. ASSUME Complete(q, a, always, ever), a.footer # <<>> => a.footer[2] \in Nat
      PROVE  Complete(q, a, always2, ever2)
  BY <1>3, CompleteLasts
<1> QED BY <1>1, <1>2, <1>3 DEF CallOK

\* The walk looks at an entry: if the path is asked for, it is behind all that has
\* been found and is found now, and what is below it is covered by its children.
LEMMA VisitFinds ==
  ASSUME TypeOK, Shapes, CallsOK, NEW c \in Calls, task[c] = "walking",
         NEW e \in walk[c].todo, \A d \in walk[c].todo \ {e} : Before(e.path, d.path),
         NEW found,
         found = IF e.path # <<>> /\ Taken(c, e.path) THEN Find(walk[c], e) ELSE walk[c],
         NEW todo,
         \/ todo = walk[c].todo \ {e} /\ (~e.dir \/ Skipped(c, e))
         \/ todo = (walk[c].todo \ {e}) \cup Children(e.path)
  PROVE  /\ found.out \in Seq(Entries) /\ found.total \in Nat /\ todo \subseteq Entries
         /\ found.patterns = walk[c].patterns /\ IsWalk(found)
         /\ \E F \in SUBSET Paths :
              Listing(req[c], F, found.out, found.total, seen)
                /\ Ahead(req[c], F, todo, stayed, seen)
<1> DEFINE q == req[c]
           w == walk[c]
<1>1. /\ w.out \in Seq(Entries) /\ w.total \in Nat /\ w.todo \subseteq Entries
      /\ stayed \subseteq Existing /\ Existing \subseteq seen /\ seen \subseteq Paths
      /\ IsTree(tree)
      /\ IsWalk(w)
  BY DEF TypeOK, Shapes
<1>2. /\ q \in Requests /\ q.tool \in {"glob", "list"}
      /\ q.tool = "glob" => w.patterns = Expansion(q.pattern).alts
      /\ WalkOK(q, w, stayed, seen)
  BY DEF CallsOK, CallOK
<1>3. PICK F \in SUBSET Paths :
        Listing(q, F, w.out, w.total, seen) /\ Ahead(q, F, w.todo, stayed, seen)
  BY <1>2 DEF WalkOK
<1>4. /\ e \in Entries /\ e.path \in Paths /\ e.path \in seen
      /\ \A f \in F : Before(f, e.path)
  BY <1>1, <1>3 DEF Ahead, Entries
<1>5. e.path # <<>> /\ Taken(c, e.path) <=> Wanted(q, e.path)
  BY <1>2 DEF Taken, Wanted
<1> DEFINE G == IF Wanted(q, e.path) THEN F \cup {e.path} ELSE F
<1>6. G \in SUBSET Paths BY <1>4
<1>7. /\ found.out \in Seq(Entries) /\ found.total \in Nat /\ found.patterns = w.patterns /\ IsWalk(found)
      /\ Listing(q, G, found.out, found.total, seen)
  <2>1. CASE Wanted(q, e.path)
    <3>1. found = Find(w, e) /\ G = F \cup {e.path} BY <1>5, <2>1
    <3>2. Listing(q, F, w.out, w.total, seen) BY <1>3
    <3> HIDE DEF w, q, G
    <3>3. /\ Find(w, e).out \in Seq(Entries) /\ Find(w, e).total \in Nat
          /\ Find(w, e).patterns = w.patterns /\ IsWalk(Find(w, e))
          /\ Listing(q, F \cup {e.path}, Find(w, e).out, Find(w, e).total, seen)
      BY <1>1, <1>4, <2>1, <3>2, ListingGrows
    <3> QED BY <3>1, <3>3
  <2>2. CASE ~Wanted(q, e.path)
    BY <1>1, <1>3, <1>5, <2>2
  <2> QED BY <2>1, <2>2
<1>8. Children(e.path) \subseteq Entries
  <2>1. ASSUME NEW r \in Paths PROVE Entry(r) \in Entries
    <3>1. IsDir(tree[r]) \in BOOLEAN BY DEF IsDir
    <3> QED BY <3>1 DEF Entry, Entries
  <2> QED BY <2>1 DEF Children, Existing
<1>9. \A d \in Children(e.path) :
        /\ d.path \in Existing /\ Above(e.path, d.path) /\ d.path \in Paths
        /\ d.dir = IsDir(tree[d.path])
  BY DEF Children, Entry, Existing
<1>10. \A d \in todo : d.path \in seen /\ \A f \in G : Before(f, d.path)
  <2>1. ASSUME NEW d \in w.todo \ {e}
        PROVE  d.path \in seen /\ \A f \in G : Before(f, d.path)
    BY <1>3, <2>1 DEF Ahead
  <2>2. ASSUME NEW d \in Children(e.path)
        PROVE  d.path \in seen /\ \A f \in G : Before(f, d.path)
    <3>1. d.path \in Paths /\ d.path \in seen /\ Above(e.path, d.path) BY <1>1, <1>9
    <3>2. Before(e.path, d.path) BY <3>1 DEF Before
    <3>3. \A f \in F : Before(f, d.path) BY <1>4, <3>1, BeforeBelow
    <3> QED BY <3>1, <3>2, <3>3
  <2> QED BY <2>1, <2>2
<1>11. \A d \in todo : \A p \in stayed : Above(d.path, p) => d.dir
  <2>1. ASSUME NEW d \in w.todo, NEW p \in stayed, Above(d.path, p) PROVE d.dir
    BY <1>3, <2>1 DEF Ahead
  <2>2. ASSUME NEW d \in Children(e.path), NEW p \in stayed, Above(d.path, p) PROVE d.dir
    BY <1>1, <1>9, <2>2 DEF IsTree, Existing
  <2> QED BY <2>1, <2>2
<1>12. ASSUME NEW p \in Asked(q, stayed) \ G
       PROVE  \E d \in todo : d.path = p \/ Above(d.path, p)
  <2>1. p \in stayed /\ Wanted(q, p) /\ p \in Paths /\ tree[p] # "absent" /\ p \notin F
    BY <1>1 DEF Asked, Existing
  <2>2. PICK d \in w.todo : d.path = p \/ Above(d.path, p)
    BY <1>3, <2>1 DEF Ahead, Asked
  <2>3. CASE d # e BY <2>2, <2>3
  <2>4. CASE d = e
    <3>1. e.path # p BY <2>1
    <3>2. Above(e.path, p) BY <2>2, <2>4, <3>1
    <3>3. e.dir BY <1>3, <2>1, <3>2 DEF Ahead
    <3>4. ~Skipped(c, e)
      <4>1. SUFFICES ASSUME q.tool = "list", Len(e.path) > Depth(q) PROVE FALSE
        BY DEF Skipped
      <4>2. q.depth \in Int /\ MaxListDepth \in Int
        BY <1>2, <4>1, CasesAssumption, LimitsAssumption
      <4>3. Depth(q) \in Int BY <4>2 DEF Depth
      <4>4. Len(p) <= Depth(q) BY <2>1, <4>1 DEF Wanted
      <4>5. Len(e.path) < Len(p) /\ Len(p) \in Nat /\ Len(e.path) \in Nat
        BY <1>4, <2>1, <3>2, PathIsSeq DEF Above
      <4> QED BY <4>1, <4>3, <4>4, <4>5
    <3>5. todo = (w.todo \ {e}) \cup Children(e.path) BY <3>3, <3>4
    <3>6. PICK r \in Paths :
            Above(e.path, r) /\ Len(r) = Len(e.path) + 1 /\ (r = p \/ Above(r, p))
      BY <1>4, <2>1, <3>2, WayDown
    <3>7. tree[r] # "absent" BY <1>1, <2>1, <3>6 DEF IsTree, IsDir
    <3>8. Entry(r) \in Children(e.path) BY <3>6, <3>7 DEF Children, Existing
    <3>9. Entry(r).path = r BY DEF Entry
    <3> QED BY <3>5, <3>6, <3>8, <3>9
  <2> QED BY <2>3, <2>4
<1>13. Ahead(q, G, todo, stayed, seen) BY <1>10, <1>11, <1>12 DEF Ahead
<1>14. todo \subseteq Entries BY <1>1, <1>8
<1> QED BY <1>6, <1>7, <1>13, <1>14

-----------------------------------------------------------------------------
(* Steps of a task                                                         *)

TypedWalk(w) ==
  /\ IsWalk(w)
  /\ w.todo \subseteq Entries /\ w.out \in Seq(Entries) /\ w.total \in Nat
  /\ Len(w.out) <= MaxResults /\ Len(w.out) <= w.total

\* A result with a status of the executor's own.
IsResult(r) == "status" \in DOMAIN r /\ r.status \in {"OK", "ERROR"}

LEMMA WalksTyped ==
  ASSUME TypeOK, Shapes, NEW c \in Calls
  PROVE  TypedWalk(walk[c])
BY DEF TypeOK, Shapes, TypedWalk

\* A step of the task of c, which leaves the server and the tree alone, keeps the
\* invariant if it does so for c.
LEMMA TaskStep ==
  ASSUME IInv, NEW c \in Calls, task[c] # "none",
         NEW t \in {"walking", "ended"} \cup Writing, task' = [task EXCEPT ![c] = t],
         UNCHANGED <<treeVars, up, script, callVars>>,
         DOMAIN data' = Calls, DOMAIN base' = Calls, quiet' \subseteq Calls,
         faults' \in 0 .. MaxFaults,
         DOMAIN walk' = Calls, \A d \in Calls \ {c} : walk'[d] = walk[d],
         DOMAIN result' = Calls, \A d \in Calls \ {c} : result'[d] = result[d],
         TypedWalk(walk'[c]), (t = "ended") = (result'[c].status # "none"),
         CallOK(req[c], t, walk'[c], result'[c], answer[c], stayed, seen)
  PROVE  IInv'
<1>1. /\ tree' = tree /\ changes' = changes /\ stayed' = stayed /\ seen' = seen
      /\ up' = up /\ script' = script /\ req' = req /\ tool' = tool /\ answer' = answer
  BY DEF treeVars, callVars
<1>2. TypeOK /\ Shapes /\ CallsOK BY DEF IInv
<1>3. /\ task'[c] = t /\ \A d \in Calls \ {c} : task'[d] = task[d]
      /\ task' \in [Calls -> {"none", "sent", "walking", "ended"} \cup Writing]
  BY <1>2 DEF TypeOK
<1>4. TypeOK'
  <2>1. \A d \in Calls :
          /\ (tool[d] = "answered") = (answer[d].kind # "none")
          /\ (task'[d] = "ended") = (result'[d].status # "none")
    BY <1>2, <1>3 DEF TypeOK
  <2>2. \A d \in Calls : TypedWalk(walk'[d])
    BY <1>2, WalksTyped
  <2> QED BY <1>1, <1>2, <1>3, <2>1, <2>2 DEF TypeOK, TypedWalk, Existing
<1>5. Shapes'
  <2>1. \A d \in Calls : TypedWalk(walk'[d])
    BY <1>2, WalksTyped
  <2> QED BY <1>1, <1>2, <2>1 DEF Shapes, TypedWalk
<1>6. CallsOK'
  <2>1. ASSUME NEW d \in Calls
        PROVE  CallOK(req[d], task'[d], walk'[d], result'[d], answer[d], stayed, seen)
    BY <1>2, <1>3 DEF CallsOK
  <2> QED BY <1>1, <2>1 DEF CallsOK
<1> QED BY <1>4, <1>5, <1>6 DEF IInv

\* A task that ends leaves its call right, if what a walk returns is.
LEMMA EndedCall ==
  ASSUME NEW q, NEW t, NEW w, NEW r, NEW a, NEW always, NEW ever,
         CallOK(q, t, w, r, a, always, ever), t # "none", NEW w2, NEW r2,
         r2.status = "OK" /\ q.tool \in {"glob", "list"} => ListOK(q, r2, always, ever)
  PROVE  CallOK(q, "ended", w2, r2, a, always, ever)
BY DEF CallOK, Writing

\* What the end of Execute leaves.
LEMMA EndedFacts ==
  ASSUME IInv, NEW c \in Calls, NEW res, IsResult(res), Ended(c, res)
  PROVE  /\ task' = [task EXCEPT ![c] = "ended"]
         /\ DOMAIN result' = Calls /\ \A d \in Calls \ {c} : result'[d] = result[d]
         /\ result'[c].status # "none"
         /\ result'[c].status = "OK" => result'[c] = res
         /\ faults' \in 0 .. MaxFaults
<1>1. TypeOK /\ Shapes BY DEF IInv
<1>2. faults \in 0 .. MaxFaults /\ MaxFaults \in Nat BY <1>1, BoundsAssumption DEF TypeOK
<1>3. DOMAIN result = Calls BY <1>1 DEF Shapes
<1>4. CASE result' = [result EXCEPT ![c] = res] /\ UNCHANGED faults
  BY <1>2, <1>3, <1>4 DEF Ended, IsResult
<1>5. CASE /\ faults < MaxFaults /\ faults' = faults + 1
           /\ result' = [result EXCEPT ![c] = [res EXCEPT !.status = "TIMEOUT", !.why = "timeout"]]
  <2>1. [res EXCEPT !.status = "TIMEOUT", !.why = "timeout"].status = "TIMEOUT"
    BY DEF IsResult
  <2> QED BY <1>2, <1>3, <1>5, <2>1 DEF Ended
<1> QED BY <1>4, <1>5 DEF Ended

\* What the results of the executor are made of.
LEMMA Results ==
  /\ \A why : IsResult(Error(why)) /\ Error(why).status = "ERROR"
  /\ \A out : IsResult(Ok(out)) /\ Ok(out).status = "OK"
  /\ \A out, total, truncated :
       IsResult([Ok(out) EXCEPT !.total = total, !.truncated = truncated])
  /\ \A out, n : IsResult([Ok(out) EXCEPT !.count = n])
  /\ \A out, n :
       LET r == [Ok(out) EXCEPT !.total = n]
       IN IsResult(r) /\ r.stdout = out /\ r.total = n
  /\ \A s \in {"OK", "ERROR"} : \A n, out, err :
       IsResult([TaskResult EXCEPT !.status = s, !.why = "exit", !.exit = n,
                   !.stdout = out, !.stderr = err])
<1>1. ASSUME NEW why PROVE IsResult(Error(why)) /\ Error(why).status = "ERROR"
  BY DEF IsResult, Error, TaskResult
<1>2. ASSUME NEW out PROVE IsResult(Ok(out)) /\ Ok(out).status = "OK"
  BY DEF IsResult, Ok, TaskResult
<1>3. ASSUME NEW out, NEW total, NEW truncated
      PROVE  IsResult([Ok(out) EXCEPT !.total = total, !.truncated = truncated])
  BY DEF IsResult, Ok, TaskResult
<1>4. ASSUME NEW out, NEW n PROVE IsResult([Ok(out) EXCEPT !.count = n])
  BY DEF IsResult, Ok, TaskResult
<1>5. ASSUME NEW out, NEW n
      PROVE  LET r == [Ok(out) EXCEPT !.total = n]
             IN IsResult(r) /\ r.stdout = out /\ r.total = n
  BY DEF IsResult, Ok, TaskResult
<1>6. ASSUME NEW s \in {"OK", "ERROR"}, NEW n, NEW out, NEW err
      PROVE  IsResult([TaskResult EXCEPT !.status = s, !.why = "exit", !.exit = n,
                         !.stdout = out, !.stderr = err])
  BY DEF IsResult, TaskResult
<1> QED BY <1>1, <1>2, <1>3, <1>4, <1>5, <1>6

\* A task that ends keeps the invariant, if what a walk returns is right.
LEMMA EndStep ==
  ASSUME IInv, NEW c \in Calls, task[c] # "none", NEW res, IsResult(res), Ended(c, res),
         UNCHANGED <<treeVars, up, script, callVars>>,
         DOMAIN data' = Calls, DOMAIN base' = Calls, quiet' \subseteq Calls,
         DOMAIN walk' = Calls, \A d \in Calls \ {c} : walk'[d] = walk[d],
         TypedWalk(walk'[c]),
         res.status = "OK" /\ req[c].tool \in {"glob", "list"} =>
           ListOK(req[c], res, stayed, seen)
  PROVE  IInv'
<1>1. /\ task' = [task EXCEPT ![c] = "ended"]
      /\ DOMAIN result' = Calls /\ \A d \in Calls \ {c} : result'[d] = result[d]
      /\ result'[c].status # "none"
      /\ result'[c].status = "OK" => result'[c] = res
      /\ faults' \in 0 .. MaxFaults
  BY EndedFacts
<1>2. CallOK(req[c], task[c], walk[c], result[c], answer[c], stayed, seen)
  BY DEF IInv, CallsOK
<1>3. CallOK(req[c], "ended", walk'[c], result'[c], answer[c], stayed, seen)
  BY <1>1, <1>2, EndedCall
<1> QED BY <1>1, <1>3, TaskStep

-----------------------------------------------------------------------------
(* The steps                                                               *)

LEMMA InitInv == Init => IInv
<1> SUFFICES ASSUME Init PROVE IInv
  OBVIOUS
<1>1. PICK case \in Cases : file = case.file /\ tree = case.tree /\ script = case.script
  BY DEF Init
<1>2. tree \in [Paths -> Kinds] /\ IsTree(tree) /\ script \in Seq(Requests)
  BY <1>1, CasesAssumption
<1>3. /\ \A c \in Calls :
           /\ req[c] = NoReq /\ tool[c] = "idle" /\ answer[c] = NoAnswer
           /\ task[c] = "none" /\ walk[c] = NoWalk /\ result[c] = NoResult
      /\ req \in [Calls -> {NoReq}] /\ tool \in [Calls -> {"idle"}]
      /\ task \in [Calls -> {"none"}]
      /\ DOMAIN answer = Calls /\ DOMAIN data = Calls /\ DOMAIN walk = Calls
      /\ DOMAIN result = Calls /\ DOMAIN base = Calls
      /\ stayed = Existing /\ seen = Existing /\ Existing \subseteq Paths
      /\ up = TRUE /\ faults = 0 /\ changes = 0 /\ quiet = {}
  BY DEF Init, Existing
<1>4. Len(<<>>) = 0 /\ <<>> \in Seq(Entries) OBVIOUS
<1>5. TypeOK
  <2>1. \A c \in Calls :
          /\ (tool[c] = "answered") = (answer[c].kind # "none")
          /\ (task[c] = "ended") = (result[c].status # "none")
    BY <1>3 DEF NoAnswer, NoResult
  <2>2. \A c \in Calls :
          /\ walk[c].todo \subseteq Entries /\ walk[c].out \in Seq(Entries)
          /\ walk[c].total \in Nat
          /\ Len(walk[c].out) <= MaxResults /\ Len(walk[c].out) <= walk[c].total
    <3>1. NoWalk.todo = {} /\ NoWalk.out = <<>> /\ NoWalk.total = 0 BY DEF NoWalk
    <3>2. 0 <= MaxResults BY LimitsAssumption
    <3>3. \A c \in Calls : walk[c].todo = {} /\ walk[c].out = <<>> /\ walk[c].total = 0
      BY <1>3, <3>1
    <3>4. \A c \in Calls : Len(walk[c].out) = 0 BY <1>4, <3>3
    <3>5. ASSUME NEW c \in Calls
          PROVE  /\ walk[c].todo \subseteq Entries /\ walk[c].out \in Seq(Entries)
                 /\ walk[c].total \in Nat
      <4>1. walk[c].todo = {} /\ walk[c].out = <<>> /\ walk[c].total = 0 BY <3>3
      <4>2. walk[c].todo \subseteq Entries BY <4>1
      <4>3. walk[c].out \in Seq(Entries) BY <4>1
      <4>4. walk[c].total \in Nat BY <4>1
      <4> QED BY <4>2, <4>3, <4>4
    <3>6. ASSUME NEW c \in Calls
          PROVE  Len(walk[c].out) <= MaxResults /\ Len(walk[c].out) <= walk[c].total
      <4>1. Len(walk[c].out) = 0 /\ walk[c].total = 0 BY <3>3, <3>4
      <4> QED BY <3>2, <4>1
    <3> QED BY <3>5, <3>6
  <2> QED BY <1>2, <1>3, <2>1, <2>2, BoundsAssumption DEF TypeOK
<1>6. Shapes
  <2>1. \A c \in Calls : IsWalk(walk[c])
    BY <1>3 DEF NoWalk, IsWalk
  <2> QED BY <1>2, <1>3, <2>1 DEF Shapes
<1>7. CallsOK BY <1>3 DEF CallsOK, CallOK, Writing, NoAnswer
<1> QED BY <1>5, <1>6, <1>7 DEF IInv

\* A read, a write, an edit and a command.
LEMMA FileSteps ==
  ASSUME IInv, NEW c \in Calls,
         ReadTask(c) \/ WriteTask(c) \/ EditTask(c) \/ OpenFile(c) \/ WriteFile(c) \/ ExecTask(c)
  PROVE  IInv'
<1>1. TypeOK /\ Shapes /\ CallsOK BY DEF IInv
<1>2. /\ DOMAIN data = Calls /\ DOMAIN base = Calls /\ DOMAIN walk = Calls
      /\ DOMAIN result = Calls /\ quiet \subseteq Calls
      /\ faults \in 0 .. MaxFaults /\ MaxFaults \in Nat
      /\ TypedWalk(walk[c])
      /\ result[c].status = "none" <=> task[c] # "ended"
  BY <1>1, WalksTyped, BoundsAssumption DEF TypeOK, Shapes
<1>3. CallOK(req[c], task[c], walk[c], result[c], answer[c], stayed, seen)
  BY <1>1 DEF CallsOK
<1>4. Writers \subseteq Calls BY DEF Writers
<1>5. CASE ReadTask(c)
  <2>1. task[c] = "sent" /\ req[c].tool = "read" BY <1>5 DEF ReadTask, Starts
  <2>2. /\ UNCHANGED <<treeVars, up, script, callVars>>
        /\ data' = data /\ walk' = walk /\ quiet' = quiet /\ DOMAIN base' = Calls
    BY <1>2, <1>5 DEF ReadTask
  <2>3. CASE file = NoFile
    <3>1. Ended(c, Error("open")) BY <1>5, <2>3 DEF ReadTask
    <3> QED BY <1>2, <2>1, <2>2, <3>1, Results, EndStep
  <2>4. CASE file # NoFile
    <3> DEFINE w == ReadWindow(file, req[c].offset, Limit(req[c]))
               res == [Ok(w.out) EXCEPT !.total = w.total, !.truncated = w.truncated]
    <3>1. Ended(c, res) BY <1>5, <2>4 DEF ReadTask
    <3>2. IsResult(res) BY Results
    <3> HIDE DEF res
    <3> QED BY <1>2, <2>1, <2>2, <3>1, <3>2, EndStep
  <2> QED BY <2>3, <2>4
<1>6. CASE WriteTask(c)
  <2>1. task[c] = "sent" /\ req[c].tool = "write" BY <1>6 DEF WriteTask, Starts
  <2>2. /\ UNCHANGED <<treeVars, up, script, callVars>>
        /\ walk' = walk /\ result' = result /\ faults' = faults
        /\ task' = [task EXCEPT ![c] = "ready"]
        /\ DOMAIN data' = Calls /\ DOMAIN base' = Calls /\ quiet' \subseteq Calls
    BY <1>2, <1>6 DEF WriteTask, Overlap
  <2>3. CallOK(req[c], "ready", walk[c], result[c], answer[c], stayed, seen)
    BY <1>3, <2>1 DEF CallOK, Writing
  <2>4. "ready" \in Writing BY DEF Writing
  <2> QED BY <1>2, <2>1, <2>2, <2>3, <2>4, TaskStep
<1>7. CASE EditTask(c)
  <2>1. task[c] = "sent" /\ req[c].tool = "edit" BY <1>7 DEF EditTask, Starts
  <2>2. /\ UNCHANGED <<treeVars, up, script, callVars>>
        /\ walk' = walk /\ DOMAIN base' = Calls
    BY <1>2, <1>7 DEF EditTask
  <2>3. CASE EditObjection(req[c], file) # "none"
    <3>1. Ended(c, Error(EditObjection(req[c], file))) /\ data' = data /\ quiet' = quiet
      BY <1>7, <2>3 DEF EditTask
    <3> QED BY <1>2, <2>1, <2>2, <3>1, Results, EndStep
  <2>4. CASE EditObjection(req[c], file) = "none"
    <3>1. /\ task' = [task EXCEPT ![c] = "ready"] /\ DOMAIN data' = Calls
          /\ result' = result /\ faults' = faults /\ quiet' \subseteq Calls
      BY <1>2, <1>7, <2>4 DEF EditTask, Overlap
    <3>2. CallOK(req[c], "ready", walk[c], result[c], answer[c], stayed, seen)
      BY <1>3, <2>1 DEF CallOK, Writing
    <3>3. "ready" \in Writing BY DEF Writing
    <3> QED BY <1>2, <2>1, <2>2, <3>1, <3>2, <3>3, TaskStep
  <2> QED BY <2>3, <2>4
<1>8. ASSUME WriteFails(c), task[c] \in Writing, quiet' \subseteq Calls,
             UNCHANGED <<treeVars, up, script, callVars, data, walk, base>>
      PROVE  IInv'
  <2>1. /\ task' = [task EXCEPT ![c] = "ended"] /\ DOMAIN result' = Calls
        /\ \A d \in Calls \ {c} : result'[d] = result[d]
        /\ result'[c] = Error("write") /\ faults' \in 0 .. MaxFaults
    BY <1>2, <1>8 DEF WriteFails
  <2>2. Error("write").status = "ERROR" /\ task[c] # "none" BY <1>8, Results DEF Writing
  <2>3. result'[c].status # "OK" /\ result'[c].status # "none" BY <2>1, <2>2
  <2>4. CallOK(req[c], "ended", walk[c], result'[c], answer[c], stayed, seen)
    BY <1>3, <2>2, <2>3, EndedCall
  <2>5. /\ UNCHANGED <<treeVars, up, script, callVars>>
        /\ walk' = walk /\ DOMAIN data' = Calls /\ DOMAIN base' = Calls
        /\ quiet' \subseteq Calls
    BY <1>2, <1>8
  <2> QED BY <1>2, <2>1, <2>2, <2>3, <2>4, <2>5, TaskStep
<1>9. CASE OpenFile(c)
  <2>1. /\ task[c] = "ready" /\ "ready" \in Writing /\ "emptied" \in Writing
        /\ UNCHANGED <<treeVars, up, script, callVars, data, walk, base>>
    BY <1>9 DEF OpenFile, Writing
  <2>2. CASE /\ task' = [task EXCEPT ![c] = "emptied"] /\ quiet' = quiet \ (Writers \ {c})
             /\ UNCHANGED <<result, faults>>
    <3>1. CallOK(req[c], "emptied", walk[c], result[c], answer[c], stayed, seen)
      BY <1>3, <2>1 DEF CallOK, Writing
    <3> QED BY <1>2, <2>1, <2>2, <3>1, TaskStep
  <2>3. CASE WriteFails(c) /\ quiet' = quiet
    BY <1>2, <1>8, <2>1, <2>3
  <2> QED BY <1>9, <2>2, <2>3 DEF OpenFile
<1>10. CASE WriteFile(c)
  <2>1. /\ task[c] = "emptied" /\ "emptied" \in Writing /\ quiet' \subseteq Calls
        /\ UNCHANGED <<treeVars, up, script, callVars, data, walk, base>>
    BY <1>2, <1>10 DEF WriteFile, Writing
  <2>2. req[c].tool \in {"write", "edit"} BY <1>3, <2>1 DEF CallOK
  <2> DEFINE res == IF req[c].tool = "write" THEN Ok(<<>>)
                    ELSE [Ok(<<>>) EXCEPT !.count = Len(Found(base[c], req[c].old))]
  <2>3. IsResult(res) BY Results
  <2>4. CASE Ended(c, res)
    <3> HIDE DEF res
    <3> QED BY <1>2, <2>1, <2>2, <2>3, <2>4, EndStep
  <2>5. CASE WriteFails(c) BY <1>8, <2>1, <2>5
  <2> QED BY <1>10, <2>4, <2>5 DEF WriteFile
<1>11. CASE ExecTask(c)
  <2>1. task[c] = "sent" /\ req[c].tool = "exec" BY <1>11 DEF ExecTask, Starts
  <2>2. /\ UNCHANGED <<treeVars, up, script, callVars>>
        /\ data' = data /\ walk' = walk /\ quiet' = quiet /\ base' = base
    BY <1>11 DEF ExecTask, fileHistory
  <2> DEFINE q == req[c]
             s == IF q.exit = 0 THEN "OK" ELSE "ERROR"
             res == [TaskResult EXCEPT !.status = s, !.why = "exit", !.exit = q.exit,
                       !.stdout = q.out, !.stderr = q.err]
  <2>3. Ended(c, res) BY <1>11 DEF ExecTask
  <2>4. IsResult(res)
    <3>1. s \in {"OK", "ERROR"} OBVIOUS
    <3> HIDE DEF s
    <3> QED BY <3>1, Results
  <2> HIDE DEF res
  <2> QED BY <1>2, <2>1, <2>2, <2>3, <2>4, EndStep
<1> QED BY <1>5, <1>6, <1>7, <1>9, <1>10, <1>11

\* A walk of glob or list: its beginning, a look at an entry, its end.
LEMMA WalkFromStep ==
  ASSUME IInv, NEW c \in Calls, task[c] = "sent", req[c].tool \in {"glob", "list"},
         NEW patterns, req[c].tool = "glob" => patterns = Expansion(req[c].pattern).alts,
         WalkFrom(c, patterns),
         UNCHANGED <<file, treeVars, up, script, callVars, data, fileHistory>>
  PROVE  IInv'
<1>1. TypeOK /\ Shapes /\ CallsOK BY DEF IInv
<1>2. /\ UNCHANGED <<treeVars, up, script, callVars>>
      /\ data' = data /\ base' = base /\ quiet' = quiet
      /\ DOMAIN data = Calls /\ DOMAIN base = Calls /\ quiet \subseteq Calls
      /\ DOMAIN walk = Calls /\ DOMAIN result = Calls /\ faults \in 0 .. MaxFaults
  BY <1>1 DEF fileHistory, Shapes, TypeOK
<1>3. TypedWalk(walk[c]) /\ result[c].status = "none"
  BY <1>1, WalksTyped DEF TypeOK
<1>4. CallOK(req[c], "sent", walk[c], result[c], answer[c], stayed, seen)
  BY <1>1 DEF CallsOK
<1>5. CASE tree[<<>>] = "absent"
  <2>1. Ended(c, Error("walk")) /\ walk' = [walk EXCEPT ![c].patterns = patterns]
    BY <1>5 DEF WalkFrom
  <2>2. DOMAIN walk' = Calls /\ \A d \in Calls \ {c} : walk'[d] = walk[d]
    BY <1>2, <2>1
  <2>3. TypedWalk(walk'[c])
    <3>1. walk'[c] = [walk[c] EXCEPT !.patterns = patterns] BY <1>2, <2>1
    <3>2. /\ walk'[c].todo = walk[c].todo /\ walk'[c].out = walk[c].out
          /\ walk'[c].total = walk[c].total /\ IsWalk(walk'[c])
      BY <1>3, <3>1 DEF TypedWalk, IsWalk
    <3> QED BY <1>3, <3>2 DEF TypedWalk
  <2> QED BY <1>2, <2>1, <2>2, <2>3, Results, EndStep
<1>6. CASE tree[<<>>] # "absent"
  <2>1. /\ task' = [task EXCEPT ![c] = "walking"]
        /\ walk' = [walk EXCEPT ![c].patterns = patterns, ![c].todo = {Entry(<<>>)}]
        /\ result' = result /\ faults' = faults
    BY <1>6 DEF WalkFrom
  <2> DEFINE w == [walk[c] EXCEPT !.patterns = patterns, !.todo = {Entry(<<>>)}]
  <2>2. /\ walk'[c] = w /\ DOMAIN walk' = Calls
        /\ \A d \in Calls \ {c} : walk'[d] = walk[d]
    BY <1>2, <2>1
  <2>3. /\ w.patterns = patterns /\ w.todo = {Entry(<<>>)}
        /\ w.out = walk[c].out /\ w.total = walk[c].total
        /\ IsWalk(w)
    <3>1. IsWalk(walk[c]) BY <1>3 DEF TypedWalk
    <3> QED BY <3>1 DEF IsWalk
  <2> HIDE DEF w
  <2>4. w.out = <<>> /\ w.total = 0 /\ req[c] \in Requests
    BY <1>4, <2>3 DEF CallOK
  <2>5. /\ <<>> \in Paths /\ <<>> \in Existing /\ Existing \subseteq seen
        /\ stayed \subseteq Existing /\ IsTree(tree)
    BY <1>1, <1>6, PathsAssumption DEF TypeOK, Existing
  <2>6. Entry(<<>>) \in Entries /\ Entry(<<>>).path = <<>> /\ Entry(<<>>).dir = IsDir(tree[<<>>])
    BY <2>5 DEF Entry, Entries, IsDir
  <2>7. TypedWalk(w) BY <1>3, <2>3, <2>6 DEF TypedWalk
  <2>8. Listing(req[c], {}, w.out, w.total, seen)
    <3>1. Cardinality({}) = 0 BY FS_EmptySet
    <3>2. Len(<<>>) = 0 /\ DOMAIN <<>> = {} OBVIOUS
    <3>3. 0 <= MaxResults BY LimitsAssumption
    <3> QED BY <2>4, <3>1, <3>2, <3>3 DEF Listing
  <2>9. Ahead(req[c], {}, w.todo, stayed, seen)
    <3>1. \A p \in Asked(req[c], stayed) : Above(<<>>, p)
      <4>1. SUFFICES ASSUME NEW p \in Paths, p # <<>> PROVE Above(<<>>, p)
        BY <2>5 DEF Asked, Wanted, Existing
      <4>2. Len(p) > 0 BY <4>1, PathIsSeq
      <4>3. Len(<<>>) = 0 OBVIOUS
      <4> QED BY <2>5, <4>2, <4>3, AboveByPlace
    <3>2. \A p \in stayed : Above(<<>>, p) => IsDir(tree[<<>>])
      BY <2>5 DEF IsTree, Existing
    <3> QED BY <2>3, <2>5, <2>6, <3>1, <3>2 DEF Ahead
  <2>10. WalkOK(req[c], w, stayed, seen) BY <2>8, <2>9 DEF WalkOK
  <2>11. CallOK(req[c], "walking", w, result[c], answer[c], stayed, seen)
    BY <1>4, <2>3, <2>4, <2>10 DEF CallOK, Writing
  <2> QED BY <1>2, <1>3, <2>1, <2>2, <2>7, <2>11, TaskStep
<1> QED BY <1>5, <1>6

LEMMA VisitStep ==
  ASSUME IInv, NEW c \in Calls, Visit(c)
  PROVE  IInv'
<1>1. TypeOK /\ Shapes /\ CallsOK BY DEF IInv
<1>2. /\ UNCHANGED <<treeVars, up, script, callVars>>
      /\ data' = data /\ base' = base /\ quiet' = quiet
      /\ DOMAIN data = Calls /\ DOMAIN base = Calls /\ quiet \subseteq Calls
      /\ DOMAIN walk = Calls /\ DOMAIN result = Calls /\ faults \in 0 .. MaxFaults
      /\ task[c] = "walking" /\ task \in [Calls -> {"none", "sent", "walking", "ended"} \cup Writing]
  BY <1>1 DEF Visit, fileHistory, Shapes, TypeOK
<1>3. TypedWalk(walk[c]) /\ result[c].status = "none"
  BY <1>1, <1>2, WalksTyped DEF TypeOK
<1>4. CallOK(req[c], "walking", walk[c], result[c], answer[c], stayed, seen)
  BY <1>1, <1>2 DEF CallsOK
<1>5. PICK e \in walk[c].todo :
        LET rest  == walk[c].todo \ {e}
            found == IF e.path # <<>> /\ Taken(c, e.path) THEN Find(walk[c], e) ELSE walk[c]
            goOn  == ~e.dir \/ Skipped(c, e)
        IN /\ \A d \in rest : Before(e.path, d.path)
           /\ IF goOn \/ tree[e.path] = "dir"
                THEN /\ walk' = [walk EXCEPT ![c] =
                          [found EXCEPT !.todo = IF goOn THEN rest ELSE rest \cup Children(e.path)]]
                     /\ UNCHANGED <<task, result, faults>>
                ELSE Ended(c, Error("walk")) /\ UNCHANGED walk
  BY DEF Visit
<1> DEFINE rest  == walk[c].todo \ {e}
           found == IF e.path # <<>> /\ Taken(c, e.path) THEN Find(walk[c], e) ELSE walk[c]
           goOn  == ~e.dir \/ Skipped(c, e)
           todo  == IF goOn THEN rest ELSE rest \cup Children(e.path)
<1>6. CASE goOn \/ tree[e.path] = "dir"
  <2>1. /\ walk' = [walk EXCEPT ![c] = [found EXCEPT !.todo = todo]]
        /\ task' = task /\ result' = result /\ faults' = faults
    BY <1>5, <1>6
  <2>2. /\ found.out \in Seq(Entries) /\ found.total \in Nat /\ todo \subseteq Entries
        /\ found.patterns = walk[c].patterns /\ IsWalk(found)
        /\ \E F \in SUBSET Paths :
             Listing(req[c], F, found.out, found.total, seen)
               /\ Ahead(req[c], F, todo, stayed, seen)
    <3>1. \/ todo = walk[c].todo \ {e} /\ (~e.dir \/ Skipped(c, e))
          \/ todo = (walk[c].todo \ {e}) \cup Children(e.path)
      OBVIOUS
    <3>2. \A d \in walk[c].todo \ {e} : Before(e.path, d.path) BY <1>5
    <3>3. found = IF e.path # <<>> /\ Taken(c, e.path) THEN Find(walk[c], e) ELSE walk[c]
      OBVIOUS
    <3> HIDE DEF found, todo
    <3> QED BY <1>1, <1>2, <3>1, <3>2, <3>3, VisitFinds
  <2> HIDE DEF found, todo
  <2> DEFINE w == [found EXCEPT !.todo = todo]
  <2>3. /\ w.out = found.out /\ w.total = found.total /\ w.todo = todo
        /\ w.patterns = found.patterns /\ IsWalk(w)
    BY <2>2 DEF IsWalk
  <2>4. /\ walk'[c] = w /\ DOMAIN walk' = Calls
        /\ \A d \in Calls \ {c} : walk'[d] = walk[d]
    BY <1>2, <2>1
  <2> HIDE DEF w
  <2>5. WalkOK(req[c], w, stayed, seen) BY <2>2, <2>3 DEF WalkOK
  <2>6. CallOK(req[c], "walking", w, result[c], answer[c], stayed, seen)
    BY <1>4, <2>2, <2>3, <2>5 DEF CallOK, Writing
  <2>7. TypedWalk(w)
    <3>1. /\ Len(found.out) = IF found.total <= MaxResults THEN found.total ELSE MaxResults
      BY <2>2 DEF Listing
    <3>2. MaxResults \in Nat BY LimitsAssumption
    <3>3. Len(found.out) <= MaxResults /\ Len(found.out) <= found.total
      BY <2>2, <3>1, <3>2
    <3> QED BY <2>2, <2>3, <3>3 DEF TypedWalk
  <2>8. task' = [task EXCEPT ![c] = "walking"] BY <1>2, <2>1
  <2> QED BY <1>2, <1>3, <2>1, <2>4, <2>6, <2>7, <2>8, TaskStep
<1>7. CASE ~(goOn \/ tree[e.path] = "dir")
  <2>1. Ended(c, Error("walk")) /\ walk' = walk BY <1>5, <1>7
  <2> QED BY <1>2, <1>3, <2>1, Results, EndStep
<1> QED BY <1>6, <1>7

LEMMA EndWalkStep ==
  ASSUME IInv, NEW c \in Calls, EndWalk(c)
  PROVE  IInv'
<1>1. TypeOK /\ Shapes /\ CallsOK BY DEF IInv
<1>2. /\ UNCHANGED <<treeVars, up, script, callVars>>
      /\ data' = data /\ base' = base /\ quiet' = quiet /\ walk' = walk
      /\ DOMAIN data = Calls /\ DOMAIN base = Calls /\ quiet \subseteq Calls
      /\ DOMAIN walk = Calls /\ task[c] = "walking" /\ walk[c].todo = {}
  BY <1>1 DEF EndWalk, fileHistory, Shapes, TypeOK
<1>3. TypedWalk(walk[c]) BY <1>1, WalksTyped
<1> DEFINE res == [Ok(walk[c].out) EXCEPT !.total = walk[c].total]
<1>4. /\ Ended(c, res) /\ IsResult(res)
      /\ res.stdout = walk[c].out /\ res.total = walk[c].total
  <2>1. Ended(c, res) BY DEF EndWalk
  <2>2. IsResult(res) /\ res.stdout = walk[c].out /\ res.total = walk[c].total BY Results
  <2> QED BY <2>1, <2>2
<1> HIDE DEF res
<1>5. ListOK(req[c], res, stayed, seen)
  <2>1. PICK F \in SUBSET Paths :
          /\ Listing(req[c], F, walk[c].out, walk[c].total, seen)
          /\ Ahead(req[c], F, walk[c].todo, stayed, seen)
    BY <1>1, <1>2 DEF CallsOK, CallOK, WalkOK
  <2>2. Asked(req[c], stayed) \subseteq F BY <1>2, <2>1 DEF Ahead
  <2> QED BY <1>3, <1>4, <2>1, <2>2 DEF ListOK, TypedWalk
<1> QED BY <1>2, <1>3, <1>4, <1>5, EndStep

LEMMA WalkSteps ==
  ASSUME IInv, NEW c \in Calls, GlobTask(c) \/ ListTask(c) \/ Visit(c) \/ EndWalk(c)
  PROVE  IInv'
<1>1. CASE ListTask(c) BY <1>1, WalkFromStep DEF ListTask, Starts
<1>2. CASE GlobTask(c)
  <2>1. task[c] = "sent" /\ req[c].tool = "glob" BY <1>2 DEF GlobTask, Starts
  <2>2. UNCHANGED <<file, treeVars, up, script, callVars, data, fileHistory>>
    BY <1>2 DEF GlobTask
  <2>3. CASE WalkFrom(c, Expansion(req[c].pattern).alts)
    BY <2>1, <2>2, <2>3, WalkFromStep
  <2>4. CASE Ended(c, Error("pattern")) /\ UNCHANGED walk
    <3>1. TypeOK /\ Shapes BY DEF IInv
    <3>2. /\ UNCHANGED <<treeVars, up, script, callVars>>
          /\ data' = data /\ base' = base /\ quiet' = quiet
          /\ DOMAIN data = Calls /\ DOMAIN base = Calls /\ quiet \subseteq Calls
          /\ DOMAIN walk = Calls /\ TypedWalk(walk[c])
      BY <2>2, <3>1, WalksTyped DEF fileHistory, Shapes, TypeOK
    <3> QED BY <2>1, <2>4, <3>2, Results, EndStep
  <2> QED BY <1>2, <2>3, <2>4 DEF GlobTask
<1> QED BY <1>1, <1>2, VisitStep, EndWalkStep

-----------------------------------------------------------------------------
(* Steps of the server, of the client as a whole and of other programs     *)

\* Only a result of glob or list makes an answer with entries.
LEMMA AnswerKinds ==
  ASSUME NEW q \in Requests, NEW r
  PROVE  /\ ToolAnswer(q, r).kind # "none"
         /\ ToolAnswer(q, r).kind = "entries" =>
              /\ r.status = "OK" /\ q.tool \in {"glob", "list"}
              /\ ToolAnswer(q, r) = RelayAnswer(r)
<1>1. q.tool \in {"exec", "read", "write", "edit", "glob", "list"} BY CasesAssumption
<1>2. CASE r.status # "OK" BY <1>2 DEF ToolAnswer, FailedAnswer
<1>3. CASE r.status = "OK" /\ q.tool = "read"
  <2>1. ToolAnswer(q, r) = ReadAnswer(q.offset, Limit(q), r) BY <1>3 DEF ToolAnswer
  <2>2. ReadAnswer(q.offset, Limit(q), r).kind \in {"beyond", "empty", "lines"}
    BY DEF ReadAnswer
  <2> QED BY <2>1, <2>2
<1>4. CASE r.status = "OK" /\ q.tool = "exec" BY <1>4 DEF ToolAnswer, ExecAnswer
<1>5. CASE r.status = "OK" /\ q.tool = "write" BY <1>5 DEF ToolAnswer, WriteAnswer
<1>6. CASE r.status = "OK" /\ q.tool = "edit" BY <1>6 DEF ToolAnswer, EditAnswer
<1>7. CASE r.status = "OK" /\ q.tool \in {"glob", "list"}
  <2>1. ToolAnswer(q, r) = RelayAnswer(r) BY <1>7 DEF ToolAnswer
  <2>2. RelayAnswer(r).kind = "entries" BY DEF RelayAnswer
  <2> QED BY <1>7, <2>1, <2>2
<1> QED BY <1>1, <1>2, <1>3, <1>4, <1>5, <1>6, <1>7

LEMMA AnswerStep ==
  ASSUME IInv, NEW c \in Calls, Answer(c)
  PROVE  IInv'
<1>1. TypeOK /\ Shapes /\ CallsOK BY DEF IInv
<1>2. /\ tool[c] = "waiting" /\ task[c] = "ended"
      /\ tool' = [tool EXCEPT ![c] = "answered"]
      /\ answer' = [answer EXCEPT ![c] = ToolAnswer(req[c], result[c])]
      /\ req' = req /\ UNCHANGED <<file, treeVars, up, script, taskVars, faults, fileHistory>>
  BY DEF Answer
<1>3. CallOK(req[c], "ended", walk[c], result[c], answer[c], stayed, seen)
  BY <1>1, <1>2 DEF CallsOK
<1> DEFINE a == ToolAnswer(req[c], result[c])
<1>4. req[c] \in Requests BY <1>3 DEF CallOK
<1>5. a.kind # "none" BY <1>4, AnswerKinds
<1>6. a.kind = "entries" =>
        Complete(req[c], a, stayed, seen) /\ (a.footer # <<>> => a.footer[2] \in Nat)
  <2>1. SUFFICES ASSUME a.kind = "entries"
                 PROVE  /\ Complete(req[c], a, stayed, seen)
                        /\ a.footer # <<>> => a.footer[2] \in Nat
    OBVIOUS
  <2>2. /\ result[c].status = "OK" /\ req[c].tool \in {"glob", "list"}
        /\ a = RelayAnswer(result[c])
    BY <1>4, <2>1, AnswerKinds
  <2>3. ListOK(req[c], result[c], stayed, seen) BY <1>3, <2>2 DEF CallOK
  <2>4. PICK F \in SUBSET Paths :
          /\ Listing(req[c], F, result[c].stdout, result[c].total, seen)
          /\ Asked(req[c], stayed) \subseteq F
    BY <2>3 DEF ListOK
  <2>5. /\ result[c].stdout \in Seq(Entries) /\ result[c].total \in Nat
        /\ seen \subseteq Paths
    BY <1>1, <2>3 DEF ListOK, Shapes
  <2>6. Complete(req[c], RelayAnswer(result[c]), stayed, seen)
    BY <2>4, <2>5, ListingAnswers
  <2>7. RelayAnswer(result[c]).footer # <<>> => RelayAnswer(result[c]).footer[2] \in Nat
    <3>1. \/ RelayAnswer(result[c]).footer = <<>>
          \/ RelayAnswer(result[c]).footer = <<Len(result[c].stdout), result[c].total>>
      BY DEF RelayAnswer
    <3> QED BY <2>5, <3>1
  <2> QED BY <2>2, <2>6, <2>7
<1> HIDE DEF a
<1>7. CallOK(req[c], "ended", walk[c], result[c], a, stayed, seen)
  BY <1>3, <1>6 DEF CallOK
<1>8. /\ DOMAIN answer' = Calls /\ answer'[c] = a
      /\ \A d \in Calls \ {c} : answer'[d] = answer[d] /\ tool'[d] = tool[d]
      /\ tool'[c] = "answered" /\ tool' \in [Calls -> {"idle", "waiting", "answered"}]
  BY <1>1, <1>2 DEF Shapes, TypeOK, a
<1>9. /\ UNCHANGED <<file, tree, changes, stayed, seen, up, script, req, task, data>>
      /\ UNCHANGED <<walk, result, faults, base, quiet>>
  BY <1>2 DEF treeVars, taskVars, fileHistory
<1>10. TypeOK'
  <2>1. \A d \in Calls : (tool'[d] = "answered") = (answer'[d].kind # "none")
    BY <1>1, <1>5, <1>8 DEF TypeOK
  <2> QED BY <1>1, <1>8, <1>9, <2>1 DEF TypeOK, Existing
<1>11. Shapes' BY <1>1, <1>8, <1>9 DEF Shapes
<1>12. CallsOK'
  <2>1. ASSUME NEW d \in Calls
        PROVE  CallOK(req[d], task[d], walk[d], result[d], answer'[d], stayed, seen)
    BY <1>1, <1>2, <1>7, <1>8 DEF CallsOK
  <2> QED BY <1>9, <2>1 DEF CallsOK
<1> QED BY <1>10, <1>11, <1>12 DEF IInv

LEMMA CallStep ==
  ASSUME IInv, NEW c \in Calls, Call(c)
  PROVE  IInv'
<1>1. TypeOK /\ Shapes /\ CallsOK BY DEF IInv
<1> DEFINE q == Head(script)
           refused == BadArgument(q) \/ BadHost(q) \/ ~up
           a == IF refused THEN [kind |-> "refused"] ELSE NoAnswer
           t == IF refused THEN "none" ELSE "sent"
<1>2. /\ script # <<>> /\ script' = Tail(script)
      /\ req' = [req EXCEPT ![c] = q]
      /\ tool' = [tool EXCEPT ![c] = IF refused THEN "answered" ELSE "waiting"]
      /\ answer' = [answer EXCEPT ![c] = a]
      /\ task' = [task EXCEPT ![c] = t]
      /\ data' = [data EXCEPT ![c] = NoFile]
      /\ walk' = [walk EXCEPT ![c] = NoWalk]
      /\ result' = [result EXCEPT ![c] = NoResult]
      /\ base' = [base EXCEPT ![c] = NoFile]
      /\ quiet' = quiet \ {c}
      /\ UNCHANGED <<file, treeVars, up, faults>>
  BY DEF Call
<1>3. q \in Requests /\ script' \in Seq(Requests) BY <1>1, <1>2 DEF Shapes
<1>4. /\ a.kind \in {"refused", "none"} /\ t \in {"none", "sent"}
      /\ (tool'[c] = "answered") = (a.kind # "none")
      /\ tool' \in [Calls -> {"idle", "waiting", "answered"}]
      /\ \A d \in Calls \ {c} : tool'[d] = tool[d]
  <2>1. tool \in [Calls -> {"idle", "waiting", "answered"}] BY <1>1 DEF TypeOK
  <2>2. CASE refused BY <1>2, <2>1, <2>2
  <2>3. CASE ~refused BY <1>2, <2>1, <2>3 DEF NoAnswer
  <2> QED BY <2>2, <2>3
<1> HIDE DEF q, refused, a, t
<1>5. /\ req'[c] = q /\ answer'[c] = a /\ task'[c] = t
      /\ walk'[c] = NoWalk /\ result'[c] = NoResult
      /\ \A d \in Calls \ {c} :
           /\ req'[d] = req[d] /\ answer'[d] = answer[d] /\ task'[d] = task[d]
           /\ walk'[d] = walk[d] /\ result'[d] = result[d]
      /\ DOMAIN answer' = Calls /\ DOMAIN data' = Calls /\ DOMAIN walk' = Calls
      /\ DOMAIN result' = Calls /\ DOMAIN base' = Calls
      /\ req' \in [Calls -> Requests \cup {NoReq}]
      /\ task' \in [Calls -> {"none", "sent", "walking", "ended"} \cup Writing]
  BY <1>1, <1>2, <1>3, <1>4 DEF Shapes, TypeOK
<1>6. /\ tree' = tree /\ changes' = changes /\ stayed' = stayed /\ seen' = seen
      /\ up' = up /\ faults' = faults
  BY <1>2 DEF treeVars
<1>7. TypedWalk(NoWalk)
  <2>1. /\ NoWalk.todo = {} /\ NoWalk.out = <<>> /\ NoWalk.total = 0 /\ IsWalk(NoWalk)
    BY DEF NoWalk, IsWalk
  <2>2. 0 <= MaxResults /\ Len(<<>>) = 0 /\ <<>> \in Seq(Entries) BY LimitsAssumption
  <2> HIDE DEF NoWalk
  <2> QED BY <2>1, <2>2 DEF TypedWalk
<1>8. \A d \in Calls : TypedWalk(walk'[d]) BY <1>1, <1>5, <1>7, WalksTyped
<1>9. TypeOK'
  <2>1. \A d \in Calls :
          /\ (tool'[d] = "answered") = (answer'[d].kind # "none")
          /\ (task'[d] = "ended") = (result'[d].status # "none")
    BY <1>1, <1>4, <1>5 DEF TypeOK, NoResult
  <2> QED BY <1>1, <1>2, <1>4, <1>5, <1>6, <1>8, <2>1 DEF TypeOK, TypedWalk, Existing
<1>10. Shapes' BY <1>1, <1>3, <1>5, <1>6, <1>8 DEF Shapes, TypedWalk
<1>11. CallsOK'
  <2>1. CallOK(q, t, NoWalk, NoResult, a, stayed, seen)
    BY <1>3, <1>4 DEF CallOK, Writing, NoWalk
  <2>2. ASSUME NEW d \in Calls
        PROVE  CallOK(req'[d], task'[d], walk'[d], result'[d], answer'[d], stayed, seen)
    BY <1>1, <1>5, <2>1 DEF CallsOK
  <2> QED BY <1>6, <2>2 DEF CallsOK
<1> QED BY <1>9, <1>10, <1>11 DEF IInv

LEMMA WaitLostStep ==
  ASSUME IInv, NEW c \in Calls, WaitLost(c)
  PROVE  IInv'
<1>1. TypeOK /\ Shapes /\ CallsOK BY DEF IInv
<1>2. /\ faults < MaxFaults /\ faults' = faults + 1
      /\ tool' = [tool EXCEPT ![c] = "answered"]
      /\ answer' = [answer EXCEPT ![c] = [kind |-> "lost"]]
      /\ task' = task \/ (task[c] = "sent" /\ task' = [task EXCEPT ![c] = "none"])
      /\ UNCHANGED <<file, treeVars, up, script, req, data, walk, result, fileHistory>>
  BY DEF WaitLost
<1>3. /\ UNCHANGED <<file, tree, changes, stayed, seen, up, script, req, data, walk>>
      /\ UNCHANGED <<result, base, quiet>>
  BY <1>2 DEF treeVars, fileHistory
<1>4. /\ DOMAIN answer' = Calls /\ answer'[c].kind = "lost" /\ tool'[c] = "answered"
      /\ tool' \in [Calls -> {"idle", "waiting", "answered"}]
      /\ \A d \in Calls \ {c} : answer'[d] = answer[d] /\ tool'[d] = tool[d]
      /\ \A d \in Calls : task'[d] = task[d] \/ (task[d] = "sent" /\ task'[d] = "none")
      /\ task' \in [Calls -> {"none", "sent", "walking", "ended"} \cup Writing]
  BY <1>1, <1>2 DEF TypeOK, Shapes
<1>5. faults' \in 0 .. MaxFaults BY <1>1, <1>2, BoundsAssumption DEF TypeOK
<1>6. TypeOK'
  <2>1. \A d \in Calls :
          /\ (tool'[d] = "answered") = (answer'[d].kind # "none")
          /\ (task'[d] = "ended") = (result[d].status # "none")
    BY <1>1, <1>4 DEF TypeOK
  <2> QED BY <1>1, <1>3, <1>4, <1>5, <2>1 DEF TypeOK, Existing
<1>7. Shapes' BY <1>1, <1>3, <1>4 DEF Shapes
<1>8. CallsOK'
  <2>1. ASSUME NEW d \in Calls
        PROVE  CallOK(req[d], task'[d], walk[d], result[d], answer'[d], stayed, seen)
    <3>1. CallOK(req[d], task[d], walk[d], result[d], answer[d], stayed, seen)
      BY <1>1 DEF CallsOK
    <3>2. answer'[d] = answer[d] \/ answer'[d].kind = "lost" BY <1>4
    <3>3. task'[d] = task[d] \/ task'[d] = "none" BY <1>4
    <3> QED BY <3>1, <3>2, <3>3 DEF CallOK, Writing
  <2> QED BY <1>3, <2>1 DEF CallsOK
<1> QED BY <1>6, <1>7, <1>8 DEF IInv

\* The client ends, by itself or by a range that overflows.
LEMMA ClientDiesStep ==
  ASSUME IInv, ClientDies, faults' \in 0 .. MaxFaults
  PROVE  IInv'
<1>1. TypeOK /\ Shapes /\ CallsOK BY DEF IInv
<1>2. /\ UNCHANGED <<file, tree, changes, stayed, seen, script, req, base, quiet>>
      /\ up' = FALSE
      /\ task' = [d \in Calls |-> "none"] /\ data' = [d \in Calls |-> NoFile]
      /\ walk' = [d \in Calls |-> NoWalk] /\ result' = [d \in Calls |-> NoResult]
      /\ tool' = [d \in Calls |-> IF tool[d] = "waiting" THEN "answered" ELSE tool[d]]
      /\ answer' = [d \in Calls |-> IF tool[d] = "waiting" THEN [kind |-> "lost"] ELSE answer[d]]
  BY DEF ClientDies, treeVars, fileHistory
<1>3. /\ NoWalk.todo = {} /\ NoWalk.out = <<>> /\ NoWalk.total = 0 /\ IsWalk(NoWalk)
      /\ Len(<<>>) = 0 /\ <<>> \in Seq(Entries) /\ NoResult.status = "none"
  BY DEF NoWalk, IsWalk, NoResult
<1>4. ASSUME NEW d \in Calls
      PROVE  /\ (tool'[d] = "answered") = (answer'[d].kind # "none")
             /\ answer'[d] = answer[d] \/ answer'[d].kind = "lost"
             /\ task'[d] = "none" /\ result'[d] = NoResult /\ walk'[d] = NoWalk
  <2>1. (tool[d] = "answered") = (answer[d].kind # "none") BY <1>1 DEF TypeOK
  <2>2. CASE tool[d] = "waiting" BY <1>2, <2>2
  <2>3. CASE tool[d] # "waiting" BY <1>2, <2>1, <2>3
  <2> QED BY <2>2, <2>3
<1>5. TypeOK'
  <2>1. 0 <= MaxResults BY LimitsAssumption
  <2>2. ASSUME NEW d \in Calls
        PROVE  /\ (tool'[d] = "answered") = (answer'[d].kind # "none")
               /\ (task'[d] = "ended") = (result'[d].status # "none")
               /\ walk'[d].todo \subseteq Entries /\ walk'[d].out \in Seq(Entries)
               /\ walk'[d].total \in Nat /\ Len(walk'[d].out) <= MaxResults
               /\ Len(walk'[d].out) <= walk'[d].total
    <3>1. walk'[d].todo = {} /\ walk'[d].out = <<>> /\ walk'[d].total = 0 BY <1>3, <1>4
    <3>2. (task'[d] = "ended") = (result'[d].status # "none") BY <1>3, <1>4
    <3>3. walk'[d].todo \subseteq Entries /\ walk'[d].total \in Nat BY <3>1
    <3>4. walk'[d].out \in Seq(Entries) /\ Len(walk'[d].out) = 0 BY <1>3, <3>1
    <3>5. Len(walk'[d].out) <= MaxResults /\ Len(walk'[d].out) <= walk'[d].total
      BY <2>1, <3>1, <3>4
    <3> QED BY <1>4, <3>2, <3>3, <3>4, <3>5
  <2>3. /\ tool' \in [Calls -> {"idle", "waiting", "answered"}]
        /\ task' \in [Calls -> {"none", "sent", "walking", "ended"} \cup Writing]
    BY <1>1, <1>2 DEF TypeOK
  <2> QED BY <1>1, <1>2, <2>2, <2>3 DEF TypeOK, Existing
<1>6. Shapes'
  <2>1. \A d \in Calls : IsWalk(walk'[d]) BY <1>3, <1>4
  <2> QED BY <1>1, <1>2, <2>1 DEF Shapes
<1>7. CallsOK'
  <2>1. ASSUME NEW d \in Calls
        PROVE  CallOK(req[d], task'[d], walk'[d], result'[d], answer'[d], stayed, seen)
    <3>1. CallOK(req[d], task[d], walk[d], result[d], answer[d], stayed, seen)
      BY <1>1 DEF CallsOK
    <3> QED BY <1>4, <3>1 DEF CallOK, Writing
  <2> QED BY <1>2, <2>1 DEF CallsOK
<1> QED BY <1>5, <1>6, <1>7 DEF IInv

\* Another program changes the tree: what lasts gets fewer, what existed more.
LEMMA ChangeStep ==
  ASSUME IInv, NEW p \in Paths, NEW k \in Kinds, Change(p, k)
  PROVE  IInv'
<1>1. TypeOK /\ Shapes /\ CallsOK BY DEF IInv
<1>2. /\ tree' = [tree EXCEPT ![p] = k] /\ IsTree(tree') /\ k # tree[p]
      /\ changes < MaxChanges /\ changes' = changes + 1
      /\ stayed' = IF k = "absent" THEN stayed \ {p} ELSE stayed
      /\ seen' = IF k = "absent" THEN seen ELSE seen \cup {p}
      /\ UNCHANGED <<file, up, script, req, tool, answer, faults, base, quiet>>
      /\ UNCHANGED <<task, data, walk, result>>
  BY DEF Change, callVars, taskVars, fileHistory
<1>3. tree \in [Paths -> Kinds] /\ stayed \subseteq Existing /\ Existing \subseteq seen
  BY <1>1 DEF TypeOK
<1>4. /\ tree' \in [Paths -> Kinds] /\ stayed' \subseteq Existing' /\ Existing' \subseteq seen'
      /\ stayed' \subseteq stayed /\ stayed \subseteq seen
      /\ seen \subseteq seen' /\ seen' \subseteq Paths
  BY <1>1, <1>2, <1>3 DEF Existing, Shapes
<1>5. changes' \in 0 .. MaxChanges BY <1>1, <1>2, BoundsAssumption DEF TypeOK
<1>6. TypeOK' BY <1>1, <1>2, <1>4, <1>5 DEF TypeOK
<1>7. Shapes' BY <1>1, <1>2, <1>4 DEF Shapes
<1>8. CallsOK'
  <2>1. ASSUME NEW d \in Calls
        PROVE  CallOK(req[d], task[d], walk[d], result[d], answer[d], stayed', seen')
    <3>1. CallOK(req[d], task[d], walk[d], result[d], answer[d], stayed, seen)
      BY <1>1 DEF CallsOK
    <3> QED BY <1>4, <3>1, CallLasts
  <2> QED BY <1>2, <2>1 DEF CallsOK
<1> QED BY <1>6, <1>7, <1>8 DEF IInv

LEMMA QuietStep ==
  ASSUME IInv, UNCHANGED vars \/ ClientConnects
  PROVE  IInv'
<1>1. /\ UNCHANGED <<tree, changes, stayed, seen, script, req, tool, answer, quiet>>
      /\ UNCHANGED <<task, data, walk, result, faults, base>> /\ up' \in BOOLEAN
  BY DEF vars, ClientConnects, treeVars, callVars, taskVars, fileHistory, IInv, TypeOK
<1>2. TypeOK' BY <1>1 DEF IInv, TypeOK, Existing
<1>3. Shapes' BY <1>1 DEF IInv, Shapes
<1>4. CallsOK' BY <1>1 DEF IInv, CallsOK
<1> QED BY <1>2, <1>3, <1>4 DEF IInv

LEMMA NextInv == IInv /\ [Next]_vars => IInv'
<1> SUFFICES ASSUME IInv, [Next]_vars PROVE IInv'
  OBVIOUS
<1>1. ASSUME NEW c \in Calls, Call(c) PROVE IInv' BY <1>1, CallStep
<1>2. ASSUME NEW c \in Calls,
             \/ ReadTask(c) \/ WriteTask(c) \/ EditTask(c)
             \/ OpenFile(c) \/ WriteFile(c) \/ ExecTask(c)
      PROVE  IInv'
  BY <1>2, FileSteps
<1>3. ASSUME NEW c \in Calls, GlobTask(c) \/ ListTask(c) \/ Visit(c) \/ EndWalk(c)
      PROVE  IInv'
  BY <1>3, WalkSteps
<1>4. ASSUME NEW c \in Calls, GlobOverflows(c) PROVE IInv'
  <2>1. faults' \in 0 .. MaxFaults BY <1>4 DEF GlobOverflows, IInv, TypeOK
  <2> QED BY <1>4, <2>1, ClientDiesStep DEF GlobOverflows
<1>5. ASSUME NEW c \in Calls, Answer(c) PROVE IInv' BY <1>5, AnswerStep
<1>6. ASSUME NEW c \in Calls, WaitLost(c) PROVE IInv' BY <1>6, WaitLostStep
<1>7. ASSUME NEW p \in Paths, NEW k \in Kinds, Change(p, k) PROVE IInv' BY <1>7, ChangeStep
<1>8. ASSUME ClientCrash PROVE IInv'
  <2>1. faults' \in 0 .. MaxFaults
    BY <1>8, BoundsAssumption DEF ClientCrash, IInv, TypeOK
  <2> QED BY <1>8, <2>1, ClientDiesStep DEF ClientCrash
<1>9. ASSUME UNCHANGED vars \/ ClientConnects PROVE IInv' BY <1>9, QuietStep
<1> QED
  BY <1>1, <1>2, <1>3, <1>4, <1>5, <1>6, <1>7, <1>8, <1>9 DEF Next

\* The inductive invariant holds.
THEOREM InvAlways == Spec => []IInv
BY InitInv, NextInv, PTL DEF Spec

\* The types of the tools, the file and the tree.
THEOREM TypeOKAlways == Spec => []TypeOK
<1>1. IInv => TypeOK BY DEF IInv
<1> QED BY <1>1, InvAlways, PTL

\* An answer of glob or list is complete, in order, and tells the truth about what it
\* leaves out, whatever other programs do to the tree meanwhile (globTask, listTask).
THEOREM AnswerCompleteAlways == Spec => []AnswerComplete
<1>1. IInv => AnswerComplete BY DEF IInv, CallsOK, CallOK, AnswerComplete
<1> QED BY <1>1, InvAlways, PTL

-----------------------------------------------------------------------------
(* Writes that no other overlaps                                           *)

\* What the task of c is to write, by its request and the file it began with.
Intended(c) ==
  LET q == req[c]
  IN IF q.tool = "write" THEN q.text
     ELSE Replaced(base[c], q.old, q.new, Found(base[c], q.old))

\* A quiet task is about to write what it should, on a file it has emptied.
QuietInv ==
  \A c \in quiet :
    /\ task[c] \in Writing => data[c] = Intended(c)
    /\ task[c] = "emptied" => file = <<>>

\* How the steps that write nothing keep both: a task that was about to write is so
\* still, with the same data, or gives up.
WritesNothing ==
  /\ file' = file /\ quiet' \subseteq quiet
  /\ \A d \in Calls :
       /\ task'[d] = task[d] \/ task'[d] \notin Writing
       /\ task[d] \in Writing => task'[d] # "ended"
       /\ task[d] \in Writing /\ task'[d] = task[d] =>
            data'[d] = data[d] /\ base'[d] = base[d] /\ req'[d] = req[d]

LEMMA OtherSteps ==
  ASSUME IInv, NEW c \in Calls,
         \/ Call(c) \/ ReadTask(c) \/ ExecTask(c) \/ GlobTask(c) \/ ListTask(c)
         \/ Visit(c) \/ EndWalk(c) \/ Answer(c) \/ WaitLost(c)
  PROVE  WritesNothing
<1>1. /\ DOMAIN data = Calls /\ DOMAIN base = Calls /\ DOMAIN req = Calls
      /\ DOMAIN task = Calls
      /\ \A d \in Calls : task[d] \in Writing => task[d] \notin {"none", "sent", "walking", "ended"}
  BY DEF IInv, Shapes, TypeOK, Writing
<1>2. \A t \in {"none", "sent", "walking", "ended"} : t \notin Writing BY DEF Writing
<1>3. CASE Call(c)
  <2>1. /\ file' = file /\ quiet' \subseteq quiet /\ task[c] \in {"none", "ended"}
        /\ task'[c] \in {"none", "sent"}
        /\ \A d \in Calls \ {c} : /\ task'[d] = task[d] /\ data'[d] = data[d]
                                  /\ base'[d] = base[d] /\ req'[d] = req[d]
    BY <1>1, <1>3 DEF Call
  <2> QED BY <1>1, <1>2, <2>1 DEF WritesNothing
<1>4. CASE ReadTask(c)
  <2>1. /\ file' = file /\ quiet' = quiet /\ data' = data /\ req' = req
        /\ \A d \in Calls \ {c} : base'[d] = base[d]
        /\ task[c] = "sent" /\ task' = [task EXCEPT ![c] = "ended"]
    BY <1>1, <1>4 DEF ReadTask, Starts, Ended, callVars
  <2> QED BY <1>1, <1>2, <2>1 DEF WritesNothing
<1>5. CASE ExecTask(c) \/ GlobTask(c) \/ ListTask(c) \/ Visit(c) \/ EndWalk(c)
  <2>1. /\ file' = file /\ quiet' = quiet /\ data' = data /\ req' = req /\ base' = base
        /\ task[c] \in {"sent", "walking"}
    BY <1>5 DEF ExecTask, GlobTask, ListTask, Visit, EndWalk, Starts, callVars, fileHistory
  <2>2. \E t \in {"sent", "walking", "ended"} : task' = [task EXCEPT ![c] = t]
    <3>1. CASE ExecTask(c) BY <3>1 DEF ExecTask, Ended
    <3>2. CASE GlobTask(c) BY <3>2 DEF GlobTask, WalkFrom, Ended
    <3>3. CASE ListTask(c) BY <3>3 DEF ListTask, WalkFrom, Ended
    <3>4. CASE Visit(c)
      <4>1. task' = task \/ task' = [task EXCEPT ![c] = "ended"] BY <3>4 DEF Visit, Ended
      <4>2. task = [task EXCEPT ![c] = "walking"]
        BY <1>1, <3>4 DEF Visit, IInv, TypeOK
      <4> QED BY <4>1, <4>2
    <3>5. CASE EndWalk(c) BY <3>5 DEF EndWalk, Ended
    <3> QED BY <1>5, <3>1, <3>2, <3>3, <3>4, <3>5
  <2> QED BY <1>1, <1>2, <2>1, <2>2 DEF WritesNothing
<1>6. CASE Answer(c)
  BY <1>1, <1>6 DEF Answer, taskVars, fileHistory, WritesNothing
<1>7. CASE WaitLost(c)
  <2>1. /\ file' = file /\ quiet' = quiet /\ data' = data /\ req' = req /\ base' = base
        /\ task' = task \/ (task[c] = "sent" /\ task' = [task EXCEPT ![c] = "none"])
    BY <1>7 DEF WaitLost, fileHistory
  <2> QED BY <1>1, <1>2, <2>1 DEF WritesNothing
<1> QED BY <1>3, <1>4, <1>5, <1>6, <1>7

LEMMA NoCallSteps ==
  ASSUME IInv,
         \/ ClientDies \/ ClientConnects \/ UNCHANGED vars
         \/ \E p \in Paths, k \in Kinds : Change(p, k)
  PROVE  WritesNothing
<1>1. \A d \in Calls : task[d] \in Writing => task[d] # "ended" BY DEF Writing
<1>2. CASE ClientDies
  <2>1. file' = file /\ quiet' = quiet /\ \A d \in Calls : task'[d] = "none"
    BY <1>2 DEF ClientDies, fileHistory
  <2> QED BY <2>1 DEF WritesNothing, Writing
<1>3. CASE ClientConnects \/ UNCHANGED vars
  BY <1>1, <1>3
  DEF ClientConnects, vars, callVars, taskVars, fileHistory, WritesNothing
<1>4. CASE \E p \in Paths, k \in Kinds : Change(p, k)
  BY <1>1, <1>4 DEF Change, callVars, taskVars, fileHistory, WritesNothing
<1> QED BY <1>2, <1>3, <1>4

\* The steps that write, one by one.
LEMMA BeginSteps ==
  ASSUME IInv, QuietInv, NEW c \in Calls, WriteTask(c) \/ EditTask(c)
  PROVE  WritesNothing \/
         /\ file' = file /\ quiet' \subseteq quiet \cup {c}
         /\ task'[c] = "ready" /\ data'[c] = Intended(c)'
         /\ task[c] = "sent"
         /\ \A d \in Calls \ {c} : /\ task'[d] = task[d] /\ data'[d] = data[d]
                                   /\ base'[d] = base[d] /\ req'[d] = req[d]
<1>1. /\ DOMAIN data = Calls /\ DOMAIN base = Calls /\ DOMAIN req = Calls
      /\ DOMAIN task = Calls /\ \A d \in Calls : task[d] \in Writing => task[d] # "ended"
      /\ "ended" \notin Writing /\ "sent" \notin Writing
  BY DEF IInv, Shapes, TypeOK, Writing
<1>2. /\ file' = file /\ req' = req /\ task[c] = "sent"
      /\ base' = [base EXCEPT ![c] = file]
  BY DEF WriteTask, EditTask, Starts, callVars
<1>3. CASE WriteTask(c)
  <2>1. /\ task' = [task EXCEPT ![c] = "ready"] /\ data' = [data EXCEPT ![c] = req[c].text]
        /\ quiet' \subseteq quiet \cup {c} /\ req[c].tool = "write"
    BY <1>3 DEF WriteTask, Overlap, Starts
  <2>2. Intended(c)' = req[c].text BY <1>2, <2>1 DEF Intended
  <2> QED BY <1>1, <1>2, <2>1, <2>2
<1>4. CASE EditTask(c) /\ EditObjection(req[c], file) # "none"
  <2>1. task' = [task EXCEPT ![c] = "ended"] /\ data' = data /\ quiet' = quiet
    BY <1>4 DEF EditTask, Ended
  <2> QED BY <1>1, <1>2, <2>1 DEF WritesNothing
<1>5. CASE EditTask(c) /\ EditObjection(req[c], file) = "none"
  <2> DEFINE q == req[c]
             new == Replaced(file, q.old, q.new, Found(file, q.old))
  <2>1. /\ task' = [task EXCEPT ![c] = "ready"] /\ data' = [data EXCEPT ![c] = new]
        /\ quiet' \subseteq quiet \cup {c} /\ req[c].tool = "edit"
    BY <1>5 DEF EditTask, Overlap, Starts
  <2>2. base'[c] = file BY <1>1, <1>2
  <2>3. Intended(c)' = new BY <1>2, <2>1, <2>2 DEF Intended
  <2> HIDE DEF new
  <2> QED BY <1>1, <1>2, <2>1, <2>3
<1> QED BY <1>3, <1>4, <1>5

LEMMA OpenStep ==
  ASSUME IInv, QuietInv, NEW c \in Calls, OpenFile(c)
  PROVE  /\ QuietInv'
         /\ \A d \in Calls :
              task[d] \in Writing /\ task'[d] = "ended" => result'[d].status # "OK"
<1>1. /\ DOMAIN task = Calls /\ DOMAIN result = Calls /\ quiet \subseteq Calls
      /\ \A d \in Calls : task[d] \in Writing => task[d] # "ended"
      /\ "ended" \notin Writing /\ "emptied" \in Writing
  BY DEF IInv, Shapes, TypeOK, Writing
<1>2. /\ task[c] = "ready" /\ "ready" \in Writing /\ data' = data /\ base' = base /\ req' = req
  BY DEF OpenFile, callVars, Writing
<1>3. CASE /\ file' = <<>> /\ task' = [task EXCEPT ![c] = "emptied"]
           /\ quiet' = quiet \ (Writers \ {c})
  <2>1. ASSUME NEW d \in quiet'
        PROVE  /\ task'[d] \in Writing => data'[d] = Intended(d)'
               /\ task'[d] = "emptied" => file' = <<>>
    <3>1. CASE d = c
      <4>1. data[c] = Intended(c) BY <1>2, <1>3, <2>1, <3>1 DEF QuietInv
      <4> QED BY <1>2, <1>3, <3>1, <4>1 DEF Intended
    <3>2. CASE d # c
      <4>1. d \in Calls /\ d \notin Writers BY <1>1, <1>3, <2>1, <3>2
      <4>2. task'[d] = task[d] BY <1>1, <1>3, <3>2, <4>1
      <4> QED BY <1>3, <4>1, <4>2 DEF Writers
    <3> QED BY <3>1, <3>2
  <2>2. \A d \in Calls : task[d] \in Writing => task'[d] # "ended"
    BY <1>1, <1>3
  <2> QED BY <2>1, <2>2 DEF QuietInv
<1>4. CASE WriteFails(c) /\ file' = file /\ quiet' = quiet
  <2>1. /\ task' = [task EXCEPT ![c] = "ended"] /\ result'[c] = Error("write")
        /\ Error("write").status = "ERROR"
    BY <1>1, <1>4, Results DEF WriteFails
  <2>2. ASSUME NEW d \in quiet', task'[d] \in Writing
        PROVE  data'[d] = Intended(d)' /\ (task'[d] = "emptied" => file' = <<>>)
    BY <1>1, <1>2, <1>4, <2>1, <2>2 DEF QuietInv, Intended
  <2>3. \A d \in Calls : task[d] \in Writing /\ task'[d] = "ended" => d = c
    BY <1>1, <2>1
  <2> QED BY <1>1, <2>1, <2>2, <2>3 DEF QuietInv
<1> QED BY <1>3, <1>4 DEF OpenFile

LEMMA WriteStep ==
  ASSUME IInv, QuietInv, NEW c \in Calls, WriteFile(c)
  PROVE  /\ QuietInv'
         /\ \A d \in quiet :
              task[d] \in Writing /\ task'[d] = "ended" /\ result'[d].status = "OK" =>
                file' = Over(Intended(d), <<>>)
<1>1. /\ DOMAIN task = Calls /\ DOMAIN result = Calls /\ quiet \subseteq Calls
      /\ \A d \in Calls : task[d] \in Writing => task[d] # "ended"
      /\ "ended" \notin Writing /\ "emptied" \in Writing
  BY DEF IInv, Shapes, TypeOK, Writing
<1>2. /\ task[c] = "emptied" /\ quiet' = quiet \ (Writers \ {c})
      /\ task' = [task EXCEPT ![c] = "ended"]
  BY DEF WriteFile, Ended, WriteFails
<1>3. ASSUME NEW d \in quiet' PROVE task'[d] \notin Writing
  <2>1. CASE d = c BY <1>1, <1>2, <2>1
  <2>2. CASE d # c
    <3>1. d \in Calls /\ d \notin Writers BY <1>1, <1>2, <1>3, <2>2
    <3>2. task'[d] = task[d] BY <1>1, <1>2, <2>2, <3>1
    <3> QED BY <3>1, <3>2 DEF Writers
  <2> QED BY <2>1, <2>2
<1>4. QuietInv' BY <1>1, <1>3 DEF QuietInv
<1>5. ASSUME NEW d \in quiet, task[d] \in Writing, task'[d] = "ended", result'[d].status = "OK"
      PROVE  file' = Over(Intended(d), <<>>)
  <2>1. d = c BY <1>1, <1>2, <1>5
  <2>2. data[c] = Intended(c) /\ file = <<>> BY <1>1, <1>2, <1>5, <2>1 DEF QuietInv
  <2>3. CASE file' = Over(data[c], file) BY <2>1, <2>2, <2>3
  <2>4. CASE WriteFails(c)
    <3>1. result'[c] = Error("write") /\ Error("write").status = "ERROR"
      BY <1>1, <2>4, Results DEF WriteFails
    <3> QED BY <1>5, <2>1, <3>1
  <2> QED BY <2>3, <2>4 DEF WriteFile
<1> QED BY <1>4, <1>5

\* QuietInv is kept, and a quiet write that ends with OK lands.
LEMMA QuietNext ==
  ASSUME IInv, QuietInv, [Next]_vars
  PROVE  /\ QuietInv'
         /\ \A c \in quiet :
              task[c] \in Writing /\ task'[c] = "ended" /\ result'[c].status = "OK" =>
                file' = Over(Intended(c), <<>>)
<1> DEFINE Lands == \A c \in quiet :
              task[c] \in Writing /\ task'[c] = "ended" /\ result'[c].status = "OK" =>
                file' = Over(Intended(c), <<>>)
<1>1. quiet \subseteq Calls /\ DOMAIN task = Calls BY DEF IInv, TypeOK
<1>2. \A d \in Calls : task[d] \in Writing => task[d] # "ended" BY DEF Writing
<1>3. ASSUME WritesNothing PROVE QuietInv' /\ Lands
  <2>1. ASSUME NEW d \in quiet', task'[d] \in Writing
        PROVE  data'[d] = Intended(d)' /\ (task'[d] = "emptied" => file' = <<>>)
    <3>1. d \in quiet /\ d \in Calls /\ file' = file BY <1>1, <1>3, <2>1 DEF WritesNothing
    <3>2. task'[d] = task[d] BY <1>3, <2>1, <3>1 DEF WritesNothing
    <3>3. data'[d] = data[d] /\ base'[d] = base[d] /\ req'[d] = req[d]
      BY <1>3, <2>1, <3>1, <3>2 DEF WritesNothing
    <3>4. data[d] = Intended(d) /\ (task[d] = "emptied" => file = <<>>)
      BY <2>1, <3>1, <3>2 DEF QuietInv
    <3> QED BY <3>1, <3>2, <3>3, <3>4 DEF Intended
  <2>2. QuietInv' BY <2>1 DEF QuietInv, Writing
  <2>3. Lands BY <1>1, <1>3 DEF WritesNothing
  <2> QED BY <2>2, <2>3
<1>4. ASSUME NEW c \in Calls, WriteTask(c) \/ EditTask(c), ~WritesNothing
      PROVE  QuietInv' /\ Lands
  <2>1. /\ file' = file /\ quiet' \subseteq quiet \cup {c}
        /\ task'[c] = "ready" /\ data'[c] = Intended(c)' /\ task[c] = "sent"
        /\ \A d \in Calls \ {c} : /\ task'[d] = task[d] /\ data'[d] = data[d]
                                  /\ base'[d] = base[d] /\ req'[d] = req[d]
    BY <1>4, BeginSteps
  <2>2. ASSUME NEW d \in quiet'
        PROVE  /\ task'[d] \in Writing => data'[d] = Intended(d)'
               /\ task'[d] = "emptied" => file' = <<>>
    <3>1. CASE d = c BY <2>1, <3>1
    <3>2. CASE d # c
      <4>1. d \in quiet /\ d \in Calls \ {c} BY <1>1, <2>1, <2>2, <3>2
      <4>2. Intended(d)' = Intended(d) BY <2>1, <4>1 DEF Intended
      <4>3. task'[d] = task[d] /\ data'[d] = data[d] BY <2>1, <4>1
      <4> QED BY <2>1, <4>1, <4>2, <4>3 DEF QuietInv
    <3> QED BY <3>1, <3>2
  <2>3. QuietInv' BY <2>2 DEF QuietInv
  <2>4. \A d \in Calls : task[d] \in Writing => task'[d] # "ended" BY <1>2, <2>1
  <2>5. Lands BY <1>1, <2>4
  <2> QED BY <2>3, <2>5
<1>5. ASSUME NEW c \in Calls, OpenFile(c) PROVE QuietInv' /\ Lands
  BY <1>1, <1>5, OpenStep
<1>6. ASSUME NEW c \in Calls, WriteFile(c) PROVE QuietInv' /\ Lands
  BY <1>6, WriteStep
<1>7. ASSUME NEW c \in Calls,
             \/ Call(c) \/ ReadTask(c) \/ ExecTask(c) \/ GlobTask(c) \/ ListTask(c)
             \/ Visit(c) \/ EndWalk(c) \/ Answer(c) \/ WaitLost(c)
      PROVE  WritesNothing
  BY <1>7, OtherSteps
<1>8. ASSUME \/ ClientDies \/ ClientConnects \/ UNCHANGED vars
             \/ \E p \in Paths, k \in Kinds : Change(p, k)
      PROVE  WritesNothing
  BY <1>8, NoCallSteps
<1> HIDE DEF Lands
<1>9. QuietInv' /\ Lands
  BY <1>3, <1>4, <1>5, <1>6, <1>7, <1>8 DEF Next, GlobOverflows, ClientCrash
<1> QED BY <1>9 DEF Lands

\* What is written over an empty file is what the file holds then.
LEMMA OverEmpty ==
  ASSUME NEW text \in Seq(STRING)
  PROVE  Over(text, <<>>) = text
<1>1. SubSeq(<<>>, Len(text) + 1, Len(<<>>)) = <<>> OBVIOUS
<1> QED BY <1>1 DEF Over

-----------------------------------------------------------------------------
(* What is read and written are texts, and an answer shows what was read   *)

\* What is written over a text leaves a text.
LEMMA OverType ==
  ASSUME NEW a \in Texts, NEW b \in Texts
  PROVE  Over(a, b) \in Texts
<1>1. Len(a) + 1 \in Nat \ {0} /\ Len(b) \in Int /\ Len(b) <= Len(b) BY TextElement
<1>2. SubSeq(b, Len(a) + 1, Len(b)) \in Texts BY <1>1, TextBetween
<1> QED BY <1>2, TextJoined DEF Over

\* r is what readTask returned of a window w.
Returned(r, w) == r.stdout = w.out /\ r.total = w.total /\ (r.truncated <=> w.truncated)

\* A read that has begun has a number of lines to read, from a line on; what it returned,
\* and what the tool answered, is of the text it read.
ReadOK(q, t, r, a, text) ==
  q.tool = "read" =>
    /\ t # "none" => q.offset \in Nat \ {0} /\ q.limit \in Int
    /\ t = "ended" /\ r.status = "OK" =>
         text \in Texts /\ Returned(r, ReadWindow(text, q.offset, Limit(q)))
    /\ a.kind \in {"empty", "beyond", "lines"} =>
         t \in {"none", "ended"} /\ ShowsWindow(a, text, q.offset, Limit(q))

\* An edit that goes on has a text to edit, and something to replace.
EditOK(q, text) == q.tool = "edit" => text \in Texts /\ EditObjection(q, text) = "none"

\* The file and what is about to be written are texts.
TextInv ==
  /\ file \in Texts
  /\ \A c \in Calls : task[c] \in Writing => data[c] \in Texts /\ EditOK(req[c], base[c])

\* What was read, for every call.
ReadInv == \A c \in Calls : ReadOK(req[c], task[c], result[c], answer[c], base[c])

\* What the invariant says of every call.
LEMMA PlacesOfCalls ==
  ASSUME IInv
  PROVE  /\ DOMAIN req = Calls /\ DOMAIN task = Calls /\ DOMAIN result = Calls
         /\ DOMAIN answer = Calls /\ DOMAIN data = Calls /\ DOMAIN base = Calls
         /\ \A c \in Calls : task[c] # "none" => req[c] \in Requests
         /\ \A c \in Calls : task[c] \in Writing => req[c].tool \in {"write", "edit"}
BY DEF IInv, TypeOK, Shapes, CallsOK, CallOK

\* Steps that write nothing keep the texts.
LEMMA TextKept ==
  ASSUME TextInv, WritesNothing
  PROVE  TextInv'
BY DEF TextInv, WritesNothing

\* What a task is about to write is a text, the request's own or an edited one.
LEMMA BeginTexts ==
  ASSUME IInv, TextInv, NEW c \in Calls, WriteTask(c) \/ EditTask(c)
  PROVE  TextInv'
<1>0. base' = [base EXCEPT ![c] = file] /\ req' = req BY DEF WriteTask, EditTask, callVars
<1>1. /\ task[c] = "sent" /\ file' = file /\ file \in Texts
      /\ req[c].tool \in {"write", "edit"} /\ req[c] \in Requests
  BY PlacesOfCalls DEF WriteTask, EditTask, Starts, TextInv
<1>2. CASE WriteTask(c)
  <2>1. /\ data' = [data EXCEPT ![c] = req[c].text] /\ task' = [task EXCEPT ![c] = "ready"]
        /\ req[c].tool = "write"
    BY <1>2 DEF WriteTask, Starts
  <2>2. req[c].text \in Texts BY <1>1, <2>1, CasesAssumption DEF Texts
  <2>3. EditOK(req[c], file) BY <2>1 DEF EditOK
  <2> QED BY <1>0, <1>1, <2>1, <2>2, <2>3, PlacesOfCalls DEF TextInv
<1>3. CASE EditTask(c) /\ EditObjection(req[c], file) # "none"
  <2>1. data' = data /\ task' = [task EXCEPT ![c] = "ended"] BY <1>3 DEF EditTask, Ended
  <2> QED BY <1>0, <1>1, <2>1, PlacesOfCalls DEF TextInv, Writing
<1>4. CASE EditTask(c) /\ EditObjection(req[c], file) = "none"
  <2> DEFINE new == Replaced(file, req[c].old, req[c].new, Found(file, req[c].old))
  <2>1. /\ data' = [data EXCEPT ![c] = new] /\ task' = [task EXCEPT ![c] = "ready"]
        /\ req[c].tool = "edit"
    BY <1>4 DEF EditTask, Starts
  <2>2. req[c].old # <<>> BY <1>4 DEF EditObjection
  <2>3. req[c].old \in Texts /\ req[c].new \in Texts BY <1>1, <2>1, CasesAssumption DEF Texts
  <2>4. new \in Texts BY <1>1, <2>2, <2>3, ReplacedType
  <2>5. EditOK(req[c], file) BY <1>1, <1>4 DEF EditOK
  <2> HIDE DEF new
  <2> QED BY <1>0, <1>1, <2>1, <2>4, <2>5, PlacesOfCalls DEF TextInv
<1> QED BY <1>2, <1>3, <1>4

\* What is left of a write is a text, whole or cut off.
LEMMA WriteTexts ==
  ASSUME IInv, TextInv, NEW c \in Calls, OpenFile(c) \/ WriteFile(c)
  PROVE  TextInv'
<1>1. /\ task[c] \in Writing /\ data' = data /\ base' = base /\ req' = req
  BY DEF OpenFile, WriteFile, Writing, callVars
<1>2. file \in Texts /\ data[c] \in Texts BY <1>1 DEF TextInv
<1>3. \A d \in Calls \ {c} : task'[d] = task[d]
  <2>1. CASE OpenFile(c) BY <2>1, PlacesOfCalls DEF OpenFile, WriteFails
  <2>2. CASE WriteFile(c) BY <2>2, PlacesOfCalls DEF WriteFile, WriteFails, Ended
  <2> QED BY <2>1, <2>2
<1>4. file' \in Texts
  <2>1. CASE file' = <<>>
    <3>1. <<>> \in Texts BY DEF Texts
    <3> QED BY <2>1, <3>1
  <2>2. CASE file' = file BY <1>2, <2>2
  <2>3. CASE file' = Over(data[c], file) BY <1>2, <2>3, OverType
  <2>4. ASSUME NEW n \in 0 .. Len(data[c]) - 1, file' = Over(SubSeq(data[c], 1, n), file)
        PROVE  file' \in Texts
    <3>1. Len(data[c]) \in Nat BY <1>2, TextElement
    <3>2. n \in Nat /\ n <= Len(data[c]) BY <3>1
    <3>3. SubSeq(data[c], 1, n) \in Texts BY <1>2, <3>2, TextStart
    <3> QED BY <1>2, <2>4, <3>3, OverType
  <2> QED BY <2>1, <2>2, <2>3, <2>4 DEF OpenFile, WriteFile
<1> QED BY <1>1, <1>2, <1>3, <1>4 DEF TextInv

\* Every step keeps the texts.
LEMMA TextNext == IInv /\ TextInv /\ [Next]_vars => TextInv'
<1> SUFFICES ASSUME IInv, TextInv, [Next]_vars PROVE TextInv' OBVIOUS
<1>1. ASSUME \/ ClientDies \/ ClientConnects \/ UNCHANGED vars
             \/ \E p \in Paths, k \in Kinds : Change(p, k)
      PROVE  TextInv'
  BY <1>1, NoCallSteps, TextKept
<1>2. ASSUME NEW c \in Calls,
             \/ Call(c) \/ ReadTask(c) \/ ExecTask(c) \/ GlobTask(c) \/ ListTask(c)
             \/ Visit(c) \/ EndWalk(c) \/ Answer(c) \/ WaitLost(c)
      PROVE  TextInv'
  BY <1>2, OtherSteps, TextKept
<1>3. ASSUME NEW c \in Calls, WriteTask(c) \/ EditTask(c) PROVE TextInv'
  BY <1>3, BeginTexts
<1>4. ASSUME NEW c \in Calls, OpenFile(c) \/ WriteFile(c) PROVE TextInv'
  BY <1>4, WriteTexts
<1> QED BY <1>1, <1>2, <1>3, <1>4 DEF Next, ClientCrash, GlobOverflows

\* The step of a call's task changes nothing of other calls.
Others(c) ==
  \A d \in Calls \ {c} : /\ req'[d] = req[d] /\ task'[d] = task[d] /\ result'[d] = result[d]
                         /\ answer'[d] = answer[d] /\ base'[d] = base[d]

\* A step of one call keeps ReadInv if the call is right after it.
LEMMA OneCall ==
  ASSUME ReadInv, NEW c \in Calls, Others(c),
         ReadOK(req[c], task[c], result[c], answer[c], base[c])'
  PROVE  ReadInv'
BY DEF ReadInv, Others

\* The next call: what is no number of a line was refused.
LEMMA CallReads ==
  ASSUME IInv, ReadInv, NEW c \in Calls, Call(c)
  PROVE  ReadInv'
<1>1. PICK q : q = Head(script) OBVIOUS
<1>2. q \in Requests BY <1>1 DEF Call, IInv, Shapes
<1>3. PICK refused : refused <=> (BadArgument(q) \/ BadHost(q) \/ ~up) OBVIOUS
<1>4. /\ req' = [req EXCEPT ![c] = q]
      /\ \/ task' = [task EXCEPT ![c] = "none"] /\ answer' = [answer EXCEPT ![c] = [kind |-> "refused"]]
         \/ /\ task' = [task EXCEPT ![c] = "sent"] /\ answer' = [answer EXCEPT ![c] = NoAnswer]
            /\ ~BadArgument(q)
      /\ base' = [base EXCEPT ![c] = NoFile] /\ result' = [result EXCEPT ![c] = NoResult]
  BY <1>1 DEF Call
<1>5. Others(c) BY <1>4, PlacesOfCalls DEF Others
<1>6. /\ req'[c] = q /\ base'[c] = NoFile
      /\ \/ task'[c] = "none"
         \/ task'[c] = "sent" /\ ~BadArgument(q)
      /\ answer'[c].kind \in {"refused", "none"}
  BY <1>4, PlacesOfCalls DEF NoAnswer
<1>7. q.tool = "read" => q.offset \in Int /\ q.limit \in Int BY <1>2, CasesAssumption
<1>8. ReadOK(req[c], task[c], result[c], answer[c], base[c])'
  BY <1>6, <1>7 DEF ReadOK, BadArgument
<1> QED BY <1>5, <1>8, OneCall

\* A read is of a line at least.
LEMMA LimitType ==
  ASSUME NEW q, q.limit \in Int
  PROVE  Limit(q) \in Nat \ {0}
BY LimitsAssumption DEF Limit

\* readTask returns the window of the text it read.
LEMMA ReadTaskReads ==
  ASSUME IInv, TextInv, ReadInv, NEW c \in Calls, ReadTask(c)
  PROVE  ReadInv'
<1>1. /\ req[c].tool = "read" /\ task[c] = "sent" /\ base' = [base EXCEPT ![c] = file]
      /\ req' = req /\ answer' = answer
  BY DEF ReadTask, Starts, callVars
<1> DEFINE w == ReadWindow(file, req[c].offset, Limit(req[c]))
           res == [Ok(w.out) EXCEPT !.total = w.total, !.truncated = w.truncated]
<1>2. \/ Ended(c, Error("open"))
      \/ Ended(c, res)
  BY DEF ReadTask
<1>3. IsResult(Error("open")) /\ Error("open").status # "OK" /\ IsResult(res) BY Results
<1>4. Returned(res, w) BY DEF Returned, Ok, TaskResult
<1> HIDE DEF w, res
<1>5. /\ task' = [task EXCEPT ![c] = "ended"]
      /\ \A d \in Calls \ {c} : result'[d] = result[d]
      /\ result'[c].status = "OK" => result'[c] = res
  <2>1. CASE Ended(c, Error("open")) BY <1>3, <2>1, EndedFacts
  <2>2. CASE Ended(c, res) BY <1>3, <2>2, EndedFacts
  <2> QED BY <1>2, <2>1, <2>2
<1>6. /\ Others(c) /\ base'[c] = file /\ task'[c] = "ended"
  BY <1>1, <1>5, PlacesOfCalls DEF Others
<1>7. file \in Texts /\ ReadOK(req[c], task[c], result[c], answer[c], base[c])
  BY DEF TextInv, ReadInv
<1>8. req[c].offset \in Nat \ {0} /\ req[c].limit \in Int /\ answer[c].kind \notin {"empty", "beyond", "lines"}
  BY <1>1, <1>7 DEF ReadOK
<1>9. ReadOK(req[c], task[c], result[c], answer[c], base[c])'
  BY <1>1, <1>4, <1>5, <1>6, <1>7, <1>8 DEF ReadOK, w
<1> QED BY <1>6, <1>9, OneCall

\* The tasks of the other tools return nothing of a read.
LEMMA OtherTaskReads ==
  ASSUME IInv, ReadInv, NEW c \in Calls,
         \/ WriteTask(c) \/ EditTask(c) \/ OpenFile(c) \/ WriteFile(c)
         \/ ExecTask(c) \/ GlobTask(c) \/ ListTask(c) \/ Visit(c) \/ EndWalk(c)
  PROVE  ReadInv'
<1>1. /\ req' = req /\ answer' = answer
      /\ base' = base \/ base' = [base EXCEPT ![c] = file]
  BY DEF WriteTask, EditTask, OpenFile, WriteFile, ExecTask, GlobTask, ListTask, Visit, EndWalk,
         callVars, fileHistory
<1>2. req[c].tool # "read"
  <2>1. CASE task[c] = "walking" BY <2>1 DEF IInv, CallsOK, CallOK
  <2>2. CASE task[c] \in Writing BY <2>2, PlacesOfCalls
  <2> QED BY <2>1, <2>2
      DEF WriteTask, EditTask, OpenFile, WriteFile, ExecTask, GlobTask, ListTask, Visit, EndWalk,
          Starts, Writing
<1>3. \A d \in Calls \ {c} : task'[d] = task[d] /\ result'[d] = result[d]
  <2>1. CASE WriteTask(c) BY <2>1, PlacesOfCalls DEF WriteTask, taskVars
  <2>2. CASE EditTask(c) BY <2>2, PlacesOfCalls DEF EditTask, Ended
  <2>3. CASE OpenFile(c) BY <2>3, PlacesOfCalls DEF OpenFile, WriteFails
  <2>4. CASE WriteFile(c) BY <2>4, PlacesOfCalls DEF WriteFile, WriteFails, Ended
  <2>5. CASE ExecTask(c) BY <2>5, PlacesOfCalls DEF ExecTask, Ended
  <2>6. CASE GlobTask(c) BY <2>6, PlacesOfCalls DEF GlobTask, WalkFrom, Ended
  <2>7. CASE ListTask(c) BY <2>7, PlacesOfCalls DEF ListTask, WalkFrom, Ended
  <2>8. CASE Visit(c) BY <2>8, PlacesOfCalls DEF Visit, Ended
  <2>9. CASE EndWalk(c) BY <2>9, PlacesOfCalls DEF EndWalk, Ended
  <2> QED BY <2>1, <2>2, <2>3, <2>4, <2>5, <2>6, <2>7, <2>8, <2>9
<1>4. Others(c) BY <1>1, <1>3, PlacesOfCalls DEF Others
<1>5. ReadOK(req[c], task[c], result[c], answer[c], base[c])' BY <1>1, <1>2 DEF ReadOK
<1> QED BY <1>4, <1>5, OneCall

\* readTool answers with what readTask returned.
LEMMA AnswerReads ==
  ASSUME IInv, ReadInv, NEW c \in Calls, Answer(c)
  PROVE  ReadInv'
<1>1. /\ req' = req /\ base' = base /\ task' = task /\ result' = result
      /\ task[c] = "ended" /\ answer' = [answer EXCEPT ![c] = ToolAnswer(req[c], result[c])]
  BY DEF Answer, taskVars, fileHistory
<1>2. answer'[c] = ToolAnswer(req[c], result[c]) /\ \A d \in Calls \ {c} : answer'[d] = answer[d]
  BY <1>1, PlacesOfCalls
<1>3. Others(c) /\ ReadOK(req[c], task[c], result[c], answer[c], base[c]) BY <1>1, <1>2 DEF Others, ReadInv
<1>4. CASE req[c].tool # "read"
  <2>1. ReadOK(req[c], task[c], result[c], answer[c], base[c])' BY <1>1, <1>4 DEF ReadOK
  <2> QED BY <1>3, <2>1, OneCall
<1>5. CASE req[c].tool = "read" /\ result[c].status # "OK"
  <2>1. answer'[c].kind = "failed" BY <1>2, <1>5 DEF ToolAnswer, FailedAnswer
  <2>2. ReadOK(req[c], task[c], result[c], answer[c], base[c])' BY <1>1, <1>3, <2>1 DEF ReadOK
  <2> QED BY <1>3, <2>2, OneCall
<1>6. CASE req[c].tool = "read" /\ result[c].status = "OK"
  <2>1. /\ req[c].offset \in Nat \ {0} /\ req[c].limit \in Int
        /\ base[c] \in Texts
        /\ Returned(result[c], ReadWindow(base[c], req[c].offset, Limit(req[c])))
    BY <1>1, <1>3, <1>6 DEF ReadOK
  <2>2. answer'[c] = ReadAnswer(req[c].offset, Limit(req[c]), result[c])
    BY <1>2, <1>6 DEF ToolAnswer
  <2>3. Limit(req[c]) \in Nat \ {0} BY <2>1, LimitType
  <2>4. ShowsWindow(answer'[c], base[c], req[c].offset, Limit(req[c]))
    BY <1>3, <2>1, <2>2, <2>3, WindowShown DEF Returned
  <2>5. ReadOK(req[c], task[c], result[c], answer[c], base[c])' BY <1>1, <1>3, <2>4 DEF ReadOK
  <2> QED BY <1>3, <2>5, OneCall
<1> QED BY <1>4, <1>5, <1>6

\* A wait that is lost answers nothing of the file.
LEMMA WaitLostReads ==
  ASSUME IInv, ReadInv, NEW c \in Calls, WaitLost(c)
  PROVE  ReadInv'
<1>1. /\ req' = req /\ base' = base /\ result' = result
      /\ task' = task \/ (task[c] = "sent" /\ task' = [task EXCEPT ![c] = "none"])
      /\ answer' = [answer EXCEPT ![c] = [kind |-> "lost"]]
  BY DEF WaitLost, fileHistory
<1>2. /\ answer'[c].kind = "lost" /\ task'[c] \in {task[c], "none"}
      /\ \A d \in Calls \ {c} : answer'[d] = answer[d] /\ task'[d] = task[d]
  BY <1>1, PlacesOfCalls
<1>3. ReadOK(req[c], task[c], result[c], answer[c], base[c]) BY DEF ReadInv
<1>4. ReadOK(req[c], task[c], result[c], answer[c], base[c])' BY <1>1, <1>2, <1>3 DEF ReadOK
<1>5. Others(c) BY <1>1, <1>2 DEF Others
<1> QED BY <1>4, <1>5, OneCall

\* When the client dies, the answers stay as they are.
LEMMA DiesReads ==
  ASSUME IInv, ReadInv, ClientDies
  PROVE  ReadInv'
<1>1. /\ req' = req /\ base' = base
      /\ \A c \in Calls : task'[c] = "none" /\ (answer'[c] = answer[c] \/ answer'[c].kind = "lost")
  BY DEF ClientDies, fileHistory
<1>2. ASSUME NEW c \in Calls PROVE ReadOK(req[c], task[c], result[c], answer[c], base[c])'
  <2>1. ReadOK(req[c], task[c], result[c], answer[c], base[c]) BY DEF ReadInv
  <2>2. CASE answer'[c] = answer[c] BY <1>1, <2>1, <2>2 DEF ReadOK
  <2>3. CASE answer'[c].kind = "lost" BY <1>1, <2>3 DEF ReadOK
  <2> QED BY <1>1, <2>2, <2>3
<1> QED BY <1>2 DEF ReadInv

\* Steps that change no call.
LEMMA StillReads ==
  ASSUME ReadInv, UNCHANGED <<callVars, taskVars, fileHistory>>
  PROVE  ReadInv'
BY DEF ReadInv, callVars, taskVars, fileHistory

\* In the beginning nothing has been read.
LEMMA InitReads == Init => TextInv /\ ReadInv
<1> SUFFICES ASSUME Init PROVE TextInv /\ ReadInv OBVIOUS
<1>1. file \in Texts BY CasesAssumption DEF Init, Texts
<1>2. \A c \in Calls : task[c] = "none" /\ req[c] = NoReq BY DEF Init
<1> QED BY <1>1, <1>2 DEF TextInv, ReadInv, ReadOK, NoReq, Writing

\* Every step keeps ReadInv.
LEMMA NextReads == IInv /\ TextInv /\ ReadInv /\ [Next]_vars => ReadInv'
<1> SUFFICES ASSUME IInv, TextInv, ReadInv, [Next]_vars PROVE ReadInv' OBVIOUS
<1>1. CASE UNCHANGED vars BY <1>1, StillReads DEF vars
<1>2. CASE \E p \in Paths, k \in Kinds : Change(p, k) BY <1>2, StillReads DEF Change
<1>3. CASE ClientConnects BY <1>3, StillReads DEF ClientConnects
<1>4. CASE ClientDies BY <1>4, DiesReads
<1>5. ASSUME NEW c \in Calls,
             \/ WriteTask(c) \/ EditTask(c) \/ OpenFile(c) \/ WriteFile(c)
             \/ ExecTask(c) \/ GlobTask(c) \/ ListTask(c) \/ Visit(c) \/ EndWalk(c)
      PROVE  ReadInv'
  BY <1>5, OtherTaskReads
<1>6. ASSUME NEW c \in Calls, Call(c) \/ ReadTask(c) \/ Answer(c) \/ WaitLost(c) PROVE ReadInv'
  BY <1>6, CallReads, ReadTaskReads, AnswerReads, WaitLostReads
<1> QED BY <1>1, <1>2, <1>3, <1>4, <1>5, <1>6 DEF Next, ClientCrash, GlobOverflows

\* A read shows the lines it was asked for under their own numbers, whole but for the last,
\* which is cut only by the byte limit, and all of them unless it says that it was cut, for
\* every file, offset, limit and byte limit (readTask, readTool, splitLines).
THEOREM ReadShowsWindowAlways == Spec => []ReadShowsWindow
<1>1. ReadInv => ReadShowsWindow
  <2> SUFFICES ASSUME ReadInv, NEW c \in Calls, req[c].tool = "read"
               PROVE  ShowsWindow(answer[c], base[c], req[c].offset, Limit(req[c]))
    BY DEF ReadShowsWindow
  <2>1. ReadOK(req[c], task[c], result[c], answer[c], base[c]) BY DEF ReadInv
  <2>2. CASE answer[c].kind \in {"empty", "beyond", "lines"} BY <2>1, <2>2 DEF ReadOK
  <2>3. CASE answer[c].kind \notin {"empty", "beyond", "lines"} BY <2>3 DEF ShowsWindow
  <2> QED BY <2>2, <2>3
<1> QED BY <1>1, InitReads, TextNext, NextReads, InvAlways, PTL DEF Spec

\* A write or an edit that no other write overlapped and that ends with OK leaves exactly
\* its content, or the text it read with old replaced (writeTask, editTask).
THEOREM QuietWriteExactAlways == Spec => QuietWriteExact
<1> DEFINE Exact ==
      \A c \in quiet :
        task[c] \in Writing /\ task'[c] = "ended" /\ result'[c].status = "OK" =>
          file' = IF req[c].tool = "write" THEN req[c].text
                  ELSE EditOf(base[c], req[c].old, req[c].new, req[c].all)
<1>1. Init => QuietInv BY DEF Init, QuietInv
<1>2. IInv /\ QuietInv /\ [Next]_vars => QuietInv' BY QuietNext
<1>3. IInv /\ TextInv /\ QuietInv /\ [Next]_vars => Exact
  <2> SUFFICES ASSUME IInv, TextInv, QuietInv, [Next]_vars, NEW c \in quiet,
                      task[c] \in Writing, task'[c] = "ended", result'[c].status = "OK"
               PROVE  file' = IF req[c].tool = "write" THEN req[c].text
                              ELSE EditOf(base[c], req[c].old, req[c].new, req[c].all)
    OBVIOUS
  <2>1. file' = Over(Intended(c), <<>>) BY QuietNext
  <2>2. c \in Calls BY DEF IInv, TypeOK
  <2>3. req[c] \in Requests /\ req[c].tool \in {"write", "edit"}
    BY <2>2 DEF IInv, CallsOK, CallOK, Writing
  <2>4. CASE req[c].tool = "write"
    <3>1. req[c].text \in Texts BY <2>3, <2>4, CasesAssumption DEF Texts
    <3>2. Over(req[c].text, <<>>) = req[c].text BY <3>1, OverEmpty DEF Texts
    <3> QED BY <2>1, <2>4, <3>2 DEF Intended
  <2>5. CASE req[c].tool = "edit"
    <3> DEFINE q == req[c]
               at == Found(base[c], q.old)
    <3>1. q.old \in Texts /\ q.new \in Texts /\ q.all \in BOOLEAN
      BY <2>3, <2>5, CasesAssumption DEF Texts
    <3>2. base[c] \in Texts /\ EditObjection(q, base[c]) = "none"
      BY <2>2, <2>5 DEF TextInv, EditOK
    <3>3. q.old # <<>> /\ at # <<>> /\ (q.all \/ ~(Len(at) > 1)) BY <3>2 DEF EditObjection
    <3>4. q.all \/ Len(at) = 1
      <4>1. at \in Seq(Nat) BY <3>1, <3>2, <3>3, FoundType DEF Places
      <4>2. \A s \in Seq(Nat) : Len(s) \in Nat /\ (Len(s) = 0 => s = <<>>) OBVIOUS
      <4>3. Len(at) \in Nat /\ Len(at) # 0 BY <3>3, <4>1, <4>2
      <4>4. \A n \in Nat : n # 0 /\ ~(n > 1) => n = 1 OBVIOUS
      <4> QED BY <3>3, <4>3, <4>4, Zenon
    <3>5. Intended(c) = EditOf(base[c], q.old, q.new, q.all)
      <4>1. Intended(c) = Replaced(base[c], q.old, q.new, at) BY <2>5 DEF Intended
      <4> QED BY <3>1, <3>2, <3>3, <3>4, <4>1, EditIsReplaced
    <3>6. Intended(c) \in Texts
      <4>1. Intended(c) = Replaced(base[c], q.old, q.new, at) BY <2>5 DEF Intended
      <4> QED BY <3>1, <3>2, <3>3, <4>1, ReplacedType
    <3>7. Over(Intended(c), <<>>) = Intended(c) BY <3>6, OverEmpty DEF Texts
    <3> QED BY <2>1, <2>5, <3>5, <3>7
  <2> QED BY <2>3, <2>4, <2>5
<1>4. IInv /\ TextInv /\ QuietInv /\ [Next]_vars => [Exact]_vars BY <1>3
<1>5. (QuietWriteExact <=> [][Exact]_vars) BY DEF QuietWriteExact
<1> HIDE DEF Exact
<1> QED BY <1>1, <1>2, <1>4, <1>5, InitReads, TextNext, InvAlways, PTL DEF Spec

=============================================================================
