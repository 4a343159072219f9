--------------------------- MODULE MCCodeIngester ---------------------------
(***************************************************************************)
(* Every diff, with up to two changes and three widths of context, of two  *)
(* files of six lines and of none; and commits of several files.           *)
(***************************************************************************)
EXTENDS CodeIngester, SequencesExt

Def(name) == [kind |-> "def", name |-> name]
Stmt(name) == [kind |-> "body", name |-> name]
Top == [kind |-> "top", name |-> "a"]

Tight == <<Def("f"), Stmt("a"), Stmt("b"), Def("g"), Stmt("d"), Stmt("e")>>
Overloaded == <<Def("f"), Stmt("a"), Blank, Def("f"), Stmt("b"), Top>>
Bases == {Tight, Overloaded, <<>>}

Insertions ==
  {<<Stmt("c")>>, <<Def("g"), Stmt("c")>>, <<Def("f"), Stmt("a"), Stmt("c"), Blank, Top>>}

(* An edit takes the lines lo..hi away and puts some in before line p. *)
Edits(base) ==
  {[lo |-> lo, hi |-> hi, p |-> p, ins |-> ins] :
     lo \in 1..Len(base), hi \in 0..Len(base), p \in 1..(Len(base) + 1),
     ins \in Insertions \cup {<<>>}}

Real(base) ==
  IF base = <<>> THEN {[lo |-> 1, hi |-> 0, p |-> 1, ins |-> ins] : ins \in Insertions}
  ELSE {e \in Edits(base) :
          /\ e.lo <= e.hi \/ (e.lo = 1 /\ e.hi = 0)
          /\ e.ins = <<>> => e.p = 1
          /\ e.lo <= e.hi \/ e.ins # <<>>}

Marks(op, texts) == [i \in DOMAIN texts |-> [op |-> op, text |-> texts[i]]]

Script(base, e) ==
  FlattenSeq([i \in 1..(Len(base) + 1) |->
    (IF i = e.p THEN Marks("+", e.ins) ELSE <<>>)
    \o (IF i \notin DOMAIN base THEN <<>>
        ELSE <<[op |-> IF e.lo <= i /\ i <= e.hi THEN "-"
                       ELSE IF base[i] = Blank THEN "" ELSE " ",
                text |-> base[i]]>>)])

(* A script with the number of each line in both versions. *)
Numbered(script) ==
  [k \in DOMAIN script |->
     [op |-> script[k].op, text |-> script[k].text,
      old |-> 1 + Cardinality({i \in 1..(k - 1) : InOld(script[i])}),
      new |-> 1 + Cardinality({i \in 1..(k - 1) : InNew(script[i])})]]

(* The hunks that show the changes with so many lines around them. *)
HunkOf(lines) ==
  [header |-> TRUE, lines |-> lines,
   old |-> lines[1].old - (IF \E k \in DOMAIN lines : InOld(lines[k]) THEN 0 ELSE 1),
   new |-> lines[1].new - (IF \E k \in DOMAIN lines : InNew(lines[k]) THEN 0 ELSE 1)]

HunksOf(lines, context) ==
  LET Near(k) == \E c \in DOMAIN lines :
                   lines[c].op \in {"+", "-"} /\ k \in (c - context)..(c + context)
      Opens(k) == Near(k) /\ (k = 1 \/ ~Near(k - 1))
      Closes(k) == Near(k) /\ (k = Len(lines) \/ ~Near(k + 1))
      End(k) == CHOOSE n \in k..Len(lines) : Closes(n) /\ \A i \in k..(n - 1) : ~Closes(i)
      firsts == SetToSortSeq({k \in DOMAIN lines : Opens(k)}, <)
  IN  [i \in DOMAIN firsts |-> HunkOf(SubSeq(lines, firsts[i], End(firsts[i])))]

Diffed(base, script, context) ==
  [language |-> "python", change_type |-> IF base = <<>> THEN "added" ELSE "modified",
   broken |-> FALSE, raw |-> TRUE,
   hunks |-> HunksOf(Numbered(script), context),
   before |-> base,
   after |-> LET kept == SelectSeq(script, InNew) IN [i \in DOMAIN kept |-> kept[i].text]]

Commit(lenient, files) == [complete |-> TRUE, lenient |-> lenient, files |-> files]

Single ==
  UNION {{Commit(lenient, <<Diffed(base, Script(base, e), context)>>) :
            e \in Real(base), context \in {0, 1, 3}, lenient \in BOOLEAN} : base \in Bases}

(* Lines taken away from one file, shown with much around them. *)
MCRemovals ==
  {Commit(FALSE, <<Diffed(Tight, Script(Tight, e), 3)>>) : e \in {e \in Real(Tight) : e.ins = <<>>}}

(* The last line replaced in a file that ends without a newline. *)
Replaced ==
  Diffed(Tight, Script(Tight, [lo |-> 6, hi |-> 6, p |-> 7, ins |-> <<Stmt("c")>>]), 3)
Remark == [op |-> "other", text |-> Top, old |-> 7, new |-> 6]
WithRemark ==
  LET lines == Replaced.hunks[1].lines
  IN  [Replaced EXCEPT !.hunks[1].lines =
         SubSeq(lines, 1, Len(lines) - 1) \o <<Remark>> \o SubSeq(lines, Len(lines), Len(lines))]

TwoHunks ==
  Diffed(Tight, Script(Tight, [lo |-> 6, hi |-> 6, p |-> 2, ins |-> <<Stmt("c")>>]), 1)

Multi ==
  {Commit(TRUE, <<WithRemark>>),
   [Commit(TRUE, <<Replaced>>) EXCEPT !.complete = FALSE],
   Commit(TRUE, <<>>),
   Commit(TRUE, <<[TwoHunks EXCEPT !.hunks[1].header = FALSE], Replaced>>),
   Commit(TRUE, <<[TwoHunks EXCEPT !.broken = TRUE], [Replaced EXCEPT !.language = "unknown"],
                  [Replaced EXCEPT !.raw = FALSE, !.hunks = <<>>], TwoHunks>>),
   Commit(TRUE, <<[Replaced EXCEPT !.hunks = <<>>], [Replaced EXCEPT !.language = "rust"],
                  [Replaced EXCEPT !.change_type = "deleted"], Replaced>>)}

MCEvents == Single \cup Multi
============================================================================
