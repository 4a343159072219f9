------------------------- MODULE CodeIngesterProofs -------------------------
(***************************************************************************)
(* What the code ingester keeps for any commits, whatever the length and   *)
(* number of their hunks: proofs about CodeIngester.                       *)
(***************************************************************************)
EXTENDS CodeIngester, TLAPS, NaturalsInduction, WellFoundedInduction

(* Where the ingester is in the commit. *)
Placed ==
  /\ hunk \in Nat /\ line \in Nat
  /\ old_line \in Nat /\ new_line \in Nat
  /\ stage \in {"hunks", "lines"} => hunk > 0 /\ ~Skipped
  /\ stage = "lines" =>
       /\ hunk \in DOMAIN file.hunks /\ file.hunks[hunk].header
       /\ line \in 1..(Len(file.hunks[hunk].lines) + 1)

(* The counters are at the numbers of the line in hand, in each version of which the
   hunk shows anything. *)
InStep ==
  stage = "lines" /\ ~Marked(file) /\ line \in DOMAIN file.hunks[hunk].lines =>
    LET lines == file.hunks[hunk].lines
    IN  /\ (\E k \in DOMAIN lines : InOld(lines[k])) => old_line = current.old
        /\ (\E k \in DOMAIN lines : InNew(lines[k])) => new_line = current.new

(* The FileChanges are a sequence. *)
Sequential == \E S : files_changed \in Seq([file : Nat, functions : S])

IInv ==
  /\ TypeOK
  /\ Placed
  /\ InStep
  /\ Sequential
  /\ NumbersAreTrue

USE IngesterAssumption

----------------------------------------------------------------------------
(* What is in hand *)

LEMMA EventType ==
  ASSUME event \in Events
  PROVE  /\ event.files \in Seq(File)
         /\ \A i \in DOMAIN event.files : event.files[i] \in File /\ TrueTo(event.files[i])
BY DEF Event

(* The file in hand is well-formed, and its hunks are true to its two versions. *)
LEMMA FileInHand ==
  ASSUME TypeOK, at \in DOMAIN event.files
  PROVE  /\ file \in File /\ TrueTo(file)
         /\ file.hunks \in Seq(Hunk)
         /\ \A h \in DOMAIN file.hunks :
              /\ file.hunks[h] \in Hunk
              /\ file.hunks[h].lines \in Seq(Line)
              /\ \A k \in DOMAIN file.hunks[h].lines : file.hunks[h].lines[k] \in Line
<1>1. file \in File /\ TrueTo(file)
  BY EventType DEF TypeOK, file
<1>2. file.hunks \in Seq(Hunk)
  BY <1>1 DEF File
<1>3. ASSUME NEW h \in DOMAIN file.hunks
      PROVE  /\ file.hunks[h] \in Hunk
             /\ file.hunks[h].lines \in Seq(Line)
             /\ \A k \in DOMAIN file.hunks[h].lines : file.hunks[h].lines[k] \in Line
  <2>1. file.hunks[h] \in Hunk
    BY <1>2
  <2>2. file.hunks[h].lines \in Seq(Line)
    BY <2>1 DEF Hunk
  <2> QED BY <2>1, <2>2
<1> QED BY <1>1, <1>2, <1>3

----------------------------------------------------------------------------
(* Types and places *)

LEMMA InitInv == Init => IInv
<1> SUFFICES ASSUME Init PROVE IInv
  OBVIOUS
<1>1. event \in Events /\ stage = "metadata" /\ at = 1 /\ files_changed = <<>>
      /\ hunk = 1 /\ line = 1 /\ old_line = 0 /\ new_line = 0
      /\ all_changed = {} /\ old_changed = {}
  BY DEF Init
<1>2. Len(event.files) \in Nat
  BY <1>1, EventType
<1>3. TypeOK
  BY <1>1, <1>2 DEF TypeOK
<1>4. Placed /\ InStep /\ NumbersAreTrue
  BY <1>1 DEF Placed, InStep, NumbersAreTrue
<1>5. Sequential
  BY <1>1 DEF Sequential
<1> QED BY <1>3, <1>4, <1>5 DEF IInv

LEMMA SeqMonotone ==
  ASSUME NEW A, NEW B, A \subseteq B, NEW s \in Seq(A)
  PROVE  s \in Seq(B)
OBVIOUS

LEMMA SeqElement ==
  ASSUME NEW A, NEW s \in Seq(A), NEW i \in DOMAIN s
  PROVE  s[i] \in A
OBVIOUS

(* A FileChange of the file in hand keeps the list in order. *)
LEMMA ListKeepsOrder ==
  ASSUME IInv, NEW functions, List(functions), at \in DOMAIN event.files, ~Skipped,
         event' = event, all_changed' = all_changed, old_changed' = old_changed
  PROVE  TypeOK' /\ Sequential'
<1>1. PICK S : files_changed \in Seq([file : Nat, functions : S])
  BY DEF IInv, Sequential
<1> DEFINE new == [file |-> at, functions |-> functions]
<1> DEFINE Change == [file : Nat, functions : S \cup {functions}]
<1>2. files_changed' = Append(files_changed, new) /\ at' = at + 1 /\ stage' = "files"
  BY DEF List
<1>3. at \in Nat /\ Len(event.files) \in Nat /\ at <= Len(event.files)
  BY EventType DEF IInv, TypeOK
<1>4. new \in Change /\ new.file = at
  BY <1>3
<1>5. files_changed \in Seq(Change)
  BY <1>1, SeqMonotone, [file : Nat, functions : S] \subseteq Change
<1> HIDE DEF new, Change
<1>6. files_changed' \in Seq(Change)
  BY <1>2, <1>4, <1>5
<1>7. /\ DOMAIN files_changed' = 1..(Len(files_changed) + 1)
      /\ \A i \in DOMAIN files_changed : files_changed'[i] = files_changed[i]
      /\ files_changed'[Len(files_changed) + 1] = new
      /\ Len(files_changed) \in Nat /\ DOMAIN files_changed = 1..Len(files_changed)
  BY <1>2, <1>4, <1>5
<1>8. \A i \in DOMAIN files_changed : files_changed[i].file \in Nat
  <2> SUFFICES ASSUME NEW i \in DOMAIN files_changed PROVE files_changed[i].file \in Nat
    OBVIOUS
  <2>1. files_changed[i] \in Change
    BY <1>5, <1>7
  <2> QED BY <2>1 DEF Change
<1>9. ASSUME NEW i \in DOMAIN files_changed'
      PROVE  /\ files_changed'[i].file < at'
             /\ event'.files[files_changed'[i].file].raw
             /\ ~event'.files[files_changed'[i].file].broken
             /\ i > 1 => files_changed'[i - 1].file < files_changed'[i].file
  <2>0. TypeOK
    BY DEF IInv
  <2>1. CASE i \in DOMAIN files_changed
    <3>1. files_changed'[i] = files_changed[i]
      BY <1>7, <2>1
    <3>2. i > 1 => files_changed'[i - 1] = files_changed[i - 1]
      BY <1>7, <2>1
    <3>3. files_changed[i].file < at /\ files_changed[i].file \in Nat
      BY <2>0, <2>1, <1>8 DEF TypeOK
    <3>4. files_changed[i].file < at + 1
      BY <3>3, <1>3
    <3> QED BY <2>0, <2>1, <3>1, <3>2, <3>4, <1>2 DEF TypeOK
  <2>2. CASE i = Len(files_changed) + 1
    <3>1. files_changed'[i].file = at
      BY <1>4, <1>7, <2>2
    <3>2. at < at'
      BY <1>2, <1>3
    <3>3. event.files[at].raw /\ ~event.files[at].broken
      <4>1. event.files[at] \in File
        BY EventType, <2>0 DEF TypeOK
      <4> QED BY <4>1 DEF Skipped, file, File
    <3>4. ASSUME i > 1
          PROVE  files_changed'[i - 1].file < at
      <4>1. i - 1 \in DOMAIN files_changed /\ files_changed'[i - 1] = files_changed[i - 1]
        BY <1>7, <2>2, <3>4
      <4> QED BY <4>1, <2>0 DEF TypeOK
    <3> QED BY <3>1, <3>2, <3>3, <3>4
  <2> QED BY <1>7, <2>1, <2>2
<1>10. TypeOK'
  BY <1>2, <1>3, <1>9 DEF TypeOK, IInv
<1> QED BY <1>6, <1>10 DEF Sequential, Change

(* Neither the event nor the changes listed matter as long as they stay. *)
LEMMA TypesStay ==
  ASSUME IInv, UNCHANGED <<event, at, files_changed>>,
         stage' \in {"metadata", "none", "files", "hunks", "lines", "done"},
         stage' \in {"hunks", "lines"} => at \in DOMAIN event.files /\ Parsed,
         all_changed' \subseteq Nat, old_changed' \subseteq Nat
  PROVE  TypeOK' /\ Sequential'
BY DEF IInv, TypeOK, Sequential, Parsed, file

LEMMA MetadataInv == ASSUME IInv, ReadMetadata PROVE IInv'
<1>1. /\ stage' \in {"none", "files"}
      /\ UNCHANGED <<event, at, hunk, line, old_line, new_line,
                     all_changed, old_changed, files_changed>>
  BY DEF ReadMetadata, position, reading
<1>2. TypeOK' /\ Sequential'
  BY <1>1, TypesStay DEF IInv, TypeOK
<1>3. Placed' /\ InStep' /\ NumbersAreTrue'
  BY <1>1 DEF IInv, Placed, InStep, NumbersAreTrue
<1> QED BY <1>2, <1>3 DEF IInv

LEMMA EndFilesInv == ASSUME IInv, EndFiles PROVE IInv'
<1>1. /\ stage' = "done"
      /\ UNCHANGED <<event, at, hunk, line, old_line, new_line,
                     all_changed, old_changed, files_changed>>
  BY DEF EndFiles, position, reading
<1>2. TypeOK' /\ Sequential'
  BY <1>1, TypesStay DEF IInv, TypeOK
<1>3. Placed' /\ InStep' /\ NumbersAreTrue'
  BY <1>1 DEF IInv, Placed, InStep, NumbersAreTrue
<1> QED BY <1>2, <1>3 DEF IInv

LEMMA SkipFileInv ==
  ASSUME IInv, stage = "files", at \in DOMAIN event.files, SkipFile, event' = event
  PROVE  IInv'
<1>1. /\ stage' = "files" /\ at' = at + 1
      /\ UNCHANGED <<hunk, line, old_line, new_line, all_changed, old_changed, files_changed>>
  BY DEF SkipFile, position, reading
<1>2. at \in Nat /\ at <= Len(event.files) /\ Len(event.files) \in Nat
  BY EventType DEF IInv, TypeOK
<1>3. PICK S : files_changed \in Seq([file : Nat, functions : S])
  BY DEF IInv, Sequential
<1>4. ASSUME NEW i \in DOMAIN files_changed
      PROVE  files_changed[i].file < at + 1
  <2>1. files_changed[i] \in [file : Nat, functions : S]
    BY <1>3, SeqElement
  <2>2. files_changed[i].file \in Nat
    BY <2>1
  <2>3. files_changed[i].file < at
    BY DEF IInv, TypeOK
  <2> QED BY <1>2, <2>2, <2>3
<1>5. TypeOK'
  BY <1>1, <1>2, <1>4 DEF IInv, TypeOK
<1>6. Placed' /\ InStep' /\ NumbersAreTrue' /\ Sequential'
  BY <1>1 DEF IInv, Placed, InStep, NumbersAreTrue, Sequential
<1> QED BY <1>5, <1>6 DEF IInv

LEMMA ListFileInv ==
  ASSUME IInv, stage = "files", at \in DOMAIN event.files, ~Skipped, ListFile, event' = event
  PROVE  IInv'
<1>1. List({}) /\ UNCHANGED <<hunk, line, old_line, new_line, all_changed, old_changed>>
  BY DEF ListFile, position, reading
<1>2. TypeOK' /\ Sequential'
  BY <1>1, ListKeepsOrder
<1>3. stage' = "files"
  BY <1>1 DEF List
<1>4. Placed' /\ InStep' /\ NumbersAreTrue'
  BY <1>1, <1>3 DEF IInv, Placed, InStep, NumbersAreTrue
<1> QED BY <1>2, <1>4 DEF IInv

LEMMA StartParseInv ==
  ASSUME IInv, stage = "files", at \in DOMAIN event.files, ~Skipped, StartParse, event' = event
  PROVE  IInv'
<1>1. /\ stage' = "hunks" /\ hunk' = 1 /\ Parsed
      /\ all_changed' = {} /\ old_changed' = {} /\ old_line_map' = <<>> /\ new_line_map' = <<>>
      /\ UNCHANGED <<at, line, old_line, new_line, files_changed>>
  BY DEF StartParse
<1>2. file' = file
  BY <1>1 DEF file
<1>3. TypeOK' /\ Sequential'
  BY <1>1, TypesStay
<1>4. Placed' /\ InStep'
  BY <1>1, <1>2 DEF IInv, Placed, InStep, Skipped
<1>5. \A h \in DOMAIN file.hunks : ~(h < 1)
  BY FileInHand DEF IInv
<1>6. OldIsTrue' /\ NewIsTrue' /\ RemovedWasRead'
  BY <1>1 DEF OldIsTrue, NewIsTrue, RemovedWasRead
<1>7. NothingIsMissed'
  BY <1>1, <1>2, <1>5 DEF NothingIsMissed, IsRead
<1> QED BY <1>3, <1>4, <1>6, <1>7 DEF IInv, NumbersAreTrue

----------------------------------------------------------------------------
(* Hunks *)

LEMMA OpenHunkInv == ASSUME IInv, OpenHunk PROVE IInv'
<1> DEFINE this == file.hunks[hunk]
<1>1. /\ stage = "hunks" /\ hunk \in DOMAIN file.hunks
      /\ UNCHANGED <<event, at, all_changed, old_changed, old_line_map, new_line_map,
                     files_changed>>
      /\ file' = file
  BY DEF OpenHunk, reading, file
<1>2. at \in DOMAIN event.files /\ Parsed /\ ~Skipped /\ (~Marked(file) =>
        OldIsTrue /\ NewIsTrue /\ NothingIsMissed /\ RemovedWasRead)
  BY <1>1 DEF IInv, TypeOK, Placed, NumbersAreTrue
<1>3. /\ this \in Hunk /\ this.old \in Nat /\ this.new \in Nat
      /\ hunk \in Nat /\ Len(this.lines) \in Nat /\ DOMAIN this.lines = 1..Len(this.lines)
      /\ HunkIsTrue(this.lines, this, file.before, file.after)
  BY <1>1, <1>2, FileInHand DEF IInv, TrueTo, Hunk
<1>4. \A h \in DOMAIN file.hunks : h \in Nat
  BY <1>2, FileInHand DEF IInv
<1>5. CASE this.header
  <2>1. /\ old_line' = this.old /\ new_line' = this.new
        /\ line' = 1 /\ stage' = "lines" /\ hunk' = hunk
    BY <1>5 DEF OpenHunk
  <2>2. TypeOK' /\ Sequential'
    BY <1>1, <1>2, <2>1, TypesStay DEF IInv, TypeOK
  <2>3. Placed'
    BY <1>1, <1>2, <1>3, <1>5, <2>1 DEF IInv, Placed, Skipped
  <2>4. InStep'
    BY <1>1, <1>3, <2>1 DEF InStep, HunkIsTrue, current
  <2>5. \A h \in DOMAIN file.hunks : \A k \in DOMAIN file.hunks[h].lines :
          IsRead(h, k)' <=> IsRead(h, k)
    BY <1>1, <1>2, <2>1, FileInHand DEF IInv, IsRead
  <2>6. NumbersAreTrue'
    BY <1>1, <1>2, <2>5
       DEF NumbersAreTrue, OldIsTrue, NewIsTrue, NothingIsMissed, RemovedWasRead
  <2> QED BY <2>2, <2>3, <2>4, <2>6 DEF IInv
<1>6. CASE ~this.header
  <2>1. stage' = "hunks" /\ hunk' = hunk + 1 /\ UNCHANGED <<line, old_line, new_line>>
    BY <1>1, <1>6 DEF OpenHunk
  <2>2. TypeOK' /\ Sequential'
    BY <1>1, <1>2, <2>1, TypesStay DEF IInv, TypeOK
  <2>3. Placed' /\ InStep'
    BY <1>1, <1>2, <1>3, <2>1 DEF IInv, Placed, Skipped, InStep
  <2>4. \A h \in DOMAIN file.hunks : \A k \in DOMAIN file.hunks[h].lines :
          IsRead(h, k)' <=> IsRead(h, k)
    BY <1>1, <1>3, <1>4, <1>6, <2>1 DEF IsRead
  <2>5. NumbersAreTrue'
    BY <1>1, <1>2, <2>4
       DEF NumbersAreTrue, OldIsTrue, NewIsTrue, NothingIsMissed, RemovedWasRead
  <2> QED BY <2>2, <2>3, <2>5 DEF IInv
<1> QED BY <1>5, <1>6

LEMMA EndHunkInv == ASSUME IInv, EndHunk PROVE IInv'
<1> DEFINE this == file.hunks[hunk]
<1>1. /\ stage = "lines" /\ line \notin DOMAIN this.lines
      /\ stage' = "hunks" /\ hunk' = hunk + 1
      /\ UNCHANGED <<event, at, line, old_line, new_line, all_changed, old_changed,
                     old_line_map, new_line_map, files_changed>>
      /\ file' = file
  BY DEF EndHunk, reading, file
<1>2. at \in DOMAIN event.files /\ Parsed /\ ~Skipped /\ (~Marked(file) =>
        OldIsTrue /\ NewIsTrue /\ NothingIsMissed /\ RemovedWasRead)
  BY <1>1 DEF IInv, TypeOK, Placed, NumbersAreTrue
<1>3. /\ hunk \in DOMAIN file.hunks /\ this.header /\ hunk \in Nat
      /\ line \in 1..(Len(this.lines) + 1)
  BY <1>1 DEF IInv, Placed
<1>4. Len(this.lines) \in Nat /\ DOMAIN this.lines = 1..Len(this.lines)
  BY <1>2, <1>3, FileInHand DEF IInv
<1>5. \A h \in DOMAIN file.hunks : h \in Nat
  BY <1>2, FileInHand DEF IInv
<1>6. \A k \in DOMAIN this.lines : k < line
  BY <1>1, <1>3, <1>4
<1>7. TypeOK' /\ Sequential'
  BY <1>1, <1>2, TypesStay DEF IInv, TypeOK
<1>8. Placed' /\ InStep'
  BY <1>1, <1>2, <1>3 DEF IInv, Placed, Skipped, InStep
<1>9. \A h \in DOMAIN file.hunks : \A k \in DOMAIN file.hunks[h].lines :
        IsRead(h, k)' <=> IsRead(h, k)
  BY <1>1, <1>3, <1>5, <1>6 DEF IsRead
<1>10. NumbersAreTrue'
  BY <1>1, <1>2, <1>9
     DEF NumbersAreTrue, OldIsTrue, NewIsTrue, NothingIsMissed, RemovedWasRead
<1> QED BY <1>7, <1>8, <1>10 DEF IInv

----------------------------------------------------------------------------
(* Lines *)

LEMMA PutMap ==
  ASSUME NEW map, NEW n, NEW text
  PROVE  /\ DOMAIN Put(map, n, text) = DOMAIN map \cup {n}
         /\ Put(map, n, text)[n] = text
         /\ \A i \in DOMAIN map : i # n => Put(map, n, text)[i] = map[i]
BY DEF Put

(* A version stays true when one of its lines is put at its number. *)
LEMMA PutTrueLine ==
  ASSUME NEW map, NEW version, NEW n \in DOMAIN version,
         \A i \in DOMAIN map : i \in DOMAIN version /\ map[i] = version[i]
  PROVE  \A i \in DOMAIN Put(map, n, version[n]) :
           i \in DOMAIN version /\ Put(map, n, version[n])[i] = version[i]
<1> SUFFICES ASSUME NEW i \in DOMAIN Put(map, n, version[n])
             PROVE  i \in DOMAIN version /\ Put(map, n, version[n])[i] = version[i]
  OBVIOUS
<1>1. CASE i = n
  BY <1>1 DEF Put
<1>2. CASE i # n
  <2>1. i \in DOMAIN map /\ Put(map, n, version[n])[i] = map[i]
    BY <1>2 DEF Put
  <2> QED BY <2>1
<1> QED BY <1>1, <1>2

(* The line in hand, where the counters stand when its file has no remarks. *)
LEMMA LineInHand ==
  ASSUME IInv, stage = "lines", line \in DOMAIN file.hunks[hunk].lines
  PROVE  /\ at \in DOMAIN event.files /\ hunk \in DOMAIN file.hunks
         /\ file.hunks[hunk].header /\ line \in Nat /\ hunk \in Nat
         /\ file.hunks[hunk].lines \in Seq(Line) /\ current \in Line
         /\ ~Marked(file) =>
              /\ current.op # "other"
              /\ LineIsTrue(current, file.before, file.after)
              /\ InOld(current) => old_line = current.old
              /\ InNew(current) => new_line = current.new
<1>1. /\ at \in DOMAIN event.files /\ hunk \in DOMAIN file.hunks
      /\ file.hunks[hunk].header /\ line \in Nat /\ hunk \in Nat
  BY DEF IInv, TypeOK, Placed
<1>2. file.hunks[hunk].lines \in Seq(Line) /\ current \in Line
  BY <1>1, FileInHand DEF IInv, current
<1>3. HunkIsTrue(file.hunks[hunk].lines, file.hunks[hunk], file.before, file.after)
  BY <1>1, FileInHand DEF IInv, TrueTo
<1>4. LineIsTrue(current, file.before, file.after)
  BY <1>3 DEF HunkIsTrue, current
<1>5. ASSUME ~Marked(file)
      PROVE  /\ current.op # "other"
             /\ InOld(current) => old_line = current.old
             /\ InNew(current) => new_line = current.new
  BY <1>1, <1>5 DEF IInv, InStep, Marked, current
<1> QED BY <1>1, <1>2, <1>4, <1>5

(* The numbers go on as the line says. *)
LEMMA ReadLineKeepsStep ==
  ASSUME IInv, stage = "lines", line \in DOMAIN file.hunks[hunk].lines,
         UNCHANGED <<event, stage, at, hunk>>, line' = line + 1,
         ~Marked(file) => /\ old_line' = old_line + (IF InOld(current) THEN 1 ELSE 0)
                          /\ new_line' = new_line + (IF InNew(current) THEN 1 ELSE 0)
  PROVE  InStep'
<1> DEFINE lines == file.hunks[hunk].lines
<1>1. file' = file /\ line \in DOMAIN lines
  BY DEF file
<1>2. SUFFICES ASSUME ~Marked(file), line + 1 \in DOMAIN lines
               PROVE  /\ (\E k \in DOMAIN lines : InOld(lines[k])) => old_line' = lines[line + 1].old
                      /\ (\E k \in DOMAIN lines : InNew(lines[k])) => new_line' = lines[line + 1].new
  BY <1>1 DEF InStep, current
<1>3. HunkIsTrue(lines, file.hunks[hunk], file.before, file.after)
  BY LineInHand, FileInHand DEF IInv, TrueTo
<1>4. /\ lines[line + 1].old = lines[line].old + (IF InOld(lines[line]) THEN 1 ELSE 0)
      /\ lines[line + 1].new = lines[line].new + (IF InNew(lines[line]) THEN 1 ELSE 0)
  BY <1>1, <1>2, <1>3 DEF HunkIsTrue
<1>5. /\ (\E k \in DOMAIN lines : InOld(lines[k])) => old_line = lines[line].old
      /\ (\E k \in DOMAIN lines : InNew(lines[k])) => new_line = lines[line].new
  BY <1>1, <1>2 DEF IInv, InStep, current
<1> QED BY <1>2, <1>4, <1>5 DEF current

LEMMA ReadLineKeepsPlace ==
  ASSUME IInv, stage = "lines", line \in DOMAIN file.hunks[hunk].lines,
         UNCHANGED <<event, stage, at, hunk, files_changed>>, line' = line + 1,
         old_line' \in Nat, new_line' \in Nat,
         all_changed' \subseteq Nat, old_changed' \subseteq Nat
  PROVE  /\ TypeOK' /\ Sequential' /\ Placed' /\ file' = file
         /\ \A h \in DOMAIN file.hunks : \A k \in DOMAIN file.hunks[h].lines :
              IsRead(h, k)' <=> IsRead(h, k) \/ (h = hunk /\ k = line)
<1>1. file' = file
  BY DEF file
<1>2. TypeOK' /\ Sequential'
  BY TypesStay DEF IInv, TypeOK
<1>3. file.hunks[hunk].lines \in Seq(Line) /\ file.hunks[hunk].header /\ line \in Nat
  BY LineInHand
<1>4. Placed'
  BY <1>1, <1>3 DEF IInv, Placed, Skipped
<1>5. ASSUME NEW h \in DOMAIN file.hunks, NEW k \in DOMAIN file.hunks[h].lines
      PROVE  IsRead(h, k)' <=> IsRead(h, k) \/ (h = hunk /\ k = line)
  <2>1. k \in Nat
    BY LineInHand, FileInHand DEF IInv
  <2> QED BY <1>1, <1>3, <2>1 DEF IsRead
<1> QED BY <1>1, <1>2, <1>4, <1>5

LEMMA ReadAddedInv ==
  ASSUME IInv, stage = "lines", line \in DOMAIN file.hunks[hunk].lines, ReadAdded,
         UNCHANGED <<event, stage, at, hunk, files_changed>>, line' = line + 1
  PROVE  IInv'
<1>1. /\ current.op = "+" /\ InNew(current) /\ ~InOld(current)
      /\ all_changed' = all_changed \cup {new_line}
      /\ new_line_map' = Put(new_line_map, new_line, current.text)
      /\ new_line' = new_line + 1
      /\ UNCHANGED <<old_line, old_changed, old_line_map>>
  BY DEF ReadAdded, InOld, InNew
<1>2. old_line \in Nat /\ new_line \in Nat /\ all_changed \subseteq Nat /\ old_changed \subseteq Nat
  BY DEF IInv, Placed, TypeOK
<1>3. all_changed' \subseteq Nat /\ old_changed' \subseteq Nat /\ old_line' \in Nat /\ new_line' \in Nat
  BY <1>1, <1>2
<1>4. /\ TypeOK' /\ Sequential' /\ Placed' /\ file' = file
      /\ \A h \in DOMAIN file.hunks : \A k \in DOMAIN file.hunks[h].lines :
           IsRead(h, k)' <=> IsRead(h, k) \/ (h = hunk /\ k = line)
  BY <1>3, ReadLineKeepsPlace
<1>5. old_line' = old_line + 0
  BY <1>1, <1>2
<1>6. InStep'
  BY <1>1, <1>5, ReadLineKeepsStep
<1>7. ASSUME ~Marked(file)
      PROVE  OldIsTrue' /\ NewIsTrue' /\ NothingIsMissed' /\ RemovedWasRead'
  <2>1. OldIsTrue /\ NewIsTrue /\ NothingIsMissed /\ RemovedWasRead
    BY <1>7 DEF IInv, NumbersAreTrue
  <2>2. new_line = current.new /\ new_line \in DOMAIN file.after /\ current.text = file.after[new_line]
    BY <1>1, <1>7, LineInHand DEF LineIsTrue
  <2>3. OldIsTrue'
    BY <1>1, <1>4, <2>1 DEF OldIsTrue
  <2>4. NewIsTrue'
    BY <1>1, <1>4, <2>1, <2>2, PutTrueLine DEF NewIsTrue
  <2>5. DOMAIN new_line_map' = DOMAIN new_line_map \cup {new_line}
    BY <1>1, PutMap
  <2>6. NothingIsMissed'
    BY <1>1, <1>4, <2>1, <2>2, <2>5 DEF NothingIsMissed, current
  <2>7. RemovedWasRead'
    BY <1>1, <1>4, <2>1 DEF RemovedWasRead
  <2> QED BY <2>3, <2>4, <2>6, <2>7
<1> QED BY <1>4, <1>6, <1>7 DEF IInv, NumbersAreTrue

LEMMA ReadRemovedInv ==
  ASSUME IInv, stage = "lines", line \in DOMAIN file.hunks[hunk].lines, ReadRemoved,
         UNCHANGED <<event, stage, at, hunk, files_changed>>, line' = line + 1
  PROVE  IInv'
<1>1. /\ current.op = "-" /\ InOld(current) /\ ~InNew(current)
      /\ all_changed' = all_changed \cup {new_line}
      /\ old_changed' = old_changed \cup {old_line}
      /\ old_line_map' = Put(old_line_map, old_line, current.text)
      /\ old_line' = old_line + 1
      /\ UNCHANGED <<new_line, new_line_map>>
  BY DEF ReadRemoved, InOld, InNew
<1>2. old_line \in Nat /\ new_line \in Nat /\ all_changed \subseteq Nat /\ old_changed \subseteq Nat
  BY DEF IInv, Placed, TypeOK
<1>3. all_changed' \subseteq Nat /\ old_changed' \subseteq Nat /\ old_line' \in Nat /\ new_line' \in Nat
  BY <1>1, <1>2
<1>4. /\ TypeOK' /\ Sequential' /\ Placed' /\ file' = file
      /\ \A h \in DOMAIN file.hunks : \A k \in DOMAIN file.hunks[h].lines :
           IsRead(h, k)' <=> IsRead(h, k) \/ (h = hunk /\ k = line)
  BY <1>3, ReadLineKeepsPlace
<1>5. new_line' = new_line + 0
  BY <1>1, <1>2
<1>6. InStep'
  BY <1>1, <1>5, ReadLineKeepsStep
<1>7. ASSUME ~Marked(file)
      PROVE  OldIsTrue' /\ NewIsTrue' /\ NothingIsMissed' /\ RemovedWasRead'
  <2>1. OldIsTrue /\ NewIsTrue /\ NothingIsMissed /\ RemovedWasRead
    BY <1>7 DEF IInv, NumbersAreTrue
  <2>2. /\ old_line = current.old /\ old_line \in DOMAIN file.before
        /\ current.text = file.before[old_line]
    BY <1>1, <1>7, LineInHand DEF LineIsTrue
  <2>3. OldIsTrue'
    BY <1>1, <1>4, <2>1, <2>2, PutTrueLine DEF OldIsTrue
  <2>4. NewIsTrue'
    BY <1>1, <1>4, <2>1 DEF NewIsTrue
  <2>5. DOMAIN old_line_map' = DOMAIN old_line_map \cup {old_line}
    BY <1>1, PutMap
  <2>6. NothingIsMissed'
    BY <1>1, <1>4, <2>1, <2>2, <2>5 DEF NothingIsMissed, current
  <2>7. RemovedWasRead'
    <3> SUFFICES ASSUME NEW n \in old_changed'
                 PROVE  \E h \in DOMAIN file.hunks : \E k \in DOMAIN file.hunks[h].lines :
                          /\ IsRead(h, k)'
                          /\ file.hunks[h].lines[k].op = "-" /\ file.hunks[h].lines[k].old = n
      BY <1>4 DEF RemovedWasRead
    <3>1. CASE n \in old_changed
      BY <1>4, <2>1, <3>1 DEF RemovedWasRead
    <3>2. CASE n = old_line
      BY <1>1, <1>4, <2>2, <3>2, LineInHand DEF current
    <3> QED BY <1>1, <3>1, <3>2
  <2> QED BY <2>3, <2>4, <2>6, <2>7
<1> QED BY <1>4, <1>6, <1>7 DEF IInv, NumbersAreTrue

LEMMA ReadContextInv ==
  ASSUME IInv, stage = "lines", line \in DOMAIN file.hunks[hunk].lines, ReadContext,
         UNCHANGED <<event, stage, at, hunk, files_changed>>, line' = line + 1
  PROVE  IInv'
<1>1. /\ current.op \notin {"+", "-"}
      /\ new_line_map' = Put(new_line_map, new_line, current.text)
      /\ old_line_map' = Put(old_line_map, old_line, current.text)
      /\ new_line' = new_line + 1
      /\ old_line' = old_line + 1
      /\ UNCHANGED <<all_changed, old_changed>>
  BY DEF ReadContext
<1>2. old_line \in Nat /\ new_line \in Nat /\ all_changed \subseteq Nat /\ old_changed \subseteq Nat
  BY DEF IInv, Placed, TypeOK
<1>3. all_changed' \subseteq Nat /\ old_changed' \subseteq Nat /\ old_line' \in Nat /\ new_line' \in Nat
  BY <1>1, <1>2
<1>4. /\ TypeOK' /\ Sequential' /\ Placed' /\ file' = file
      /\ \A h \in DOMAIN file.hunks : \A k \in DOMAIN file.hunks[h].lines :
           IsRead(h, k)' <=> IsRead(h, k) \/ (h = hunk /\ k = line)
  BY <1>3, ReadLineKeepsPlace
<1>5. ~Marked(file) => InOld(current) /\ InNew(current)
  BY <1>1, LineInHand DEF Line, InOld, InNew
<1>6. InStep'
  BY <1>1, <1>5, ReadLineKeepsStep
<1>7. ASSUME ~Marked(file)
      PROVE  OldIsTrue' /\ NewIsTrue' /\ NothingIsMissed' /\ RemovedWasRead'
  <2>1. OldIsTrue /\ NewIsTrue /\ NothingIsMissed /\ RemovedWasRead
    BY <1>7 DEF IInv, NumbersAreTrue
  <2>2. /\ old_line = current.old /\ old_line \in DOMAIN file.before
        /\ current.text = file.before[old_line]
        /\ new_line = current.new /\ new_line \in DOMAIN file.after
        /\ current.text = file.after[new_line]
    BY <1>5, <1>7, LineInHand DEF LineIsTrue
  <2>3. OldIsTrue'
    <3>1. old_line_map' = Put(old_line_map, old_line, file.before[old_line])
      BY <1>1, <2>2
    <3> QED BY <1>4, <2>1, <2>2, <3>1, PutTrueLine DEF OldIsTrue
  <2>4. NewIsTrue'
    <3>1. new_line_map' = Put(new_line_map, new_line, file.after[new_line])
      BY <1>1, <2>2
    <3> QED BY <1>4, <2>1, <2>2, <3>1, PutTrueLine DEF NewIsTrue
  <2>5. /\ DOMAIN old_line_map' = DOMAIN old_line_map \cup {old_line}
        /\ DOMAIN new_line_map' = DOMAIN new_line_map \cup {new_line}
    BY <1>1, PutMap
  <2>6. NothingIsMissed'
    <3> SUFFICES ASSUME NEW h \in DOMAIN file.hunks, NEW k \in DOMAIN file.hunks[h].lines,
                        IsRead(h, k)'
                 PROVE  LET l == file.hunks[h].lines[k]
                        IN  /\ InOld(l) => l.old \in DOMAIN old_line_map'
                            /\ InNew(l) => l.new \in DOMAIN new_line_map'
                            /\ l.op = "-" => l.old \in old_changed'
                            /\ l.op = "+" => l.new \in all_changed'
      BY <1>4 DEF NothingIsMissed
    <3>1. CASE IsRead(h, k)
      BY <1>1, <2>1, <2>5, <3>1 DEF NothingIsMissed
    <3>2. CASE h = hunk /\ k = line
      BY <1>1, <2>2, <2>5, <3>2 DEF current
    <3> QED BY <1>4, <3>1, <3>2
  <2>7. RemovedWasRead'
    BY <1>1, <1>4, <2>1 DEF RemovedWasRead
  <2> QED BY <2>3, <2>4, <2>6, <2>7
<1> QED BY <1>4, <1>6, <1>7 DEF IInv, NumbersAreTrue

LEMMA ReadLineInv == ASSUME IInv, ReadLine PROVE IInv'
<1>1. /\ stage = "lines" /\ line \in DOMAIN file.hunks[hunk].lines
      /\ UNCHANGED <<event, stage, at, hunk, files_changed>> /\ line' = line + 1
  BY DEF ReadLine
<1>2. CASE ReadAdded
  BY <1>1, <1>2, ReadAddedInv
<1>3. CASE ReadRemoved
  BY <1>1, <1>3, ReadRemovedInv
<1>4. CASE ReadContext
  BY <1>1, <1>4, ReadContextInv
<1> QED BY <1>2, <1>3, <1>4 DEF ReadLine

----------------------------------------------------------------------------
(* The invariant *)

LEMMA EndParseInv == ASSUME IInv, EndParse PROVE IInv'
<1> DEFINE functions == IF all_changed = {} THEN {} ELSE Blamed
<1>1. /\ stage = "hunks" /\ List(functions)
      /\ UNCHANGED <<event, hunk, line, old_line, new_line, all_changed, old_changed>>
  BY DEF EndParse, position, reading
<1>2. at \in DOMAIN event.files /\ ~Skipped
  BY <1>1 DEF IInv, TypeOK, Placed
<1> HIDE DEF functions
<1>3. TypeOK' /\ Sequential'
  BY <1>1, <1>2, ListKeepsOrder
<1>4. stage' = "files"
  BY <1>1 DEF List
<1>5. Placed' /\ InStep' /\ NumbersAreTrue'
  BY <1>1, <1>4 DEF IInv, Placed, InStep, NumbersAreTrue
<1> QED BY <1>3, <1>5 DEF IInv

LEMMA StutterInv == ASSUME IInv, UNCHANGED vars PROVE IInv'
<1>1. /\ UNCHANGED <<event, stage, at, hunk, line, old_line, new_line, all_changed, old_changed,
                     old_line_map, new_line_map, files_changed>>
      /\ file' = file /\ current' = current
  BY DEF vars, position, reading, file, current
<1>2. TypeOK' /\ Sequential'
  BY <1>1, TypesStay DEF IInv, TypeOK
<1>3. Placed' /\ InStep'
  BY <1>1 DEF IInv, Placed, InStep, Skipped, Marked
<1>4. NumbersAreTrue'
  BY <1>1 DEF IInv, NumbersAreTrue, OldIsTrue, NewIsTrue, NothingIsMissed, RemovedWasRead,
              IsRead, Marked
<1> QED BY <1>2, <1>3, <1>4 DEF IInv

LEMMA TakeFileInv == ASSUME IInv, TakeFile PROVE IInv'
<1>1. stage = "files" /\ at \in DOMAIN event.files /\ event' = event
  BY DEF TakeFile
<1>2. CASE SkipFile
  BY <1>1, <1>2, SkipFileInv
<1>3. CASE ~Skipped /\ ListFile
  BY <1>1, <1>3, ListFileInv
<1>4. CASE ~Skipped /\ StartParse
  BY <1>1, <1>4, StartParseInv
<1> QED BY <1>2, <1>3, <1>4 DEF TakeFile

LEMMA Invariance == Spec => []IInv
<1>1. Init => IInv
  BY InitInv
<1>2. IInv /\ [Next]_vars => IInv'
  BY MetadataInv, TakeFileInv, EndFilesInv, OpenHunkInv, ReadLineInv, EndHunkInv, EndParseInv,
     StutterInv DEF Next
<1> QED BY <1>1, <1>2, PTL DEF Spec

(* Of every commit: a file is listed at most once, in order, only if there is a diff, and
   parsed only if it can be and still exists (ingest_raw_diff). *)
THEOREM TypeCorrect == Spec => []TypeOK
BY Invariance, PTL DEF IInv

(* Of every diff, however many its hunks and lines: what parse_diff rebuilds of the two
   versions has their numbers and their text, misses no line that was shown, and counts
   as removed the lines that were. *)
THEOREM NumbersStayTrue == Spec => []NumbersAreTrue
BY Invariance, PTL DEF IInv

----------------------------------------------------------------------------
(* Blame *)

(* What tree-sitter finds in lines that are true begins at a definition of the version
   itself: an empty line stands for those that were not shown. *)
LEMMA FoundIsDefinition ==
  ASSUME NEW map, NEW version,
         \A n \in DOMAIN map : n \in DOMAIN version /\ map[n] = version[n],
         NEW f \in Functions(Content(map))
  PROVE  /\ IsDefinition(version, f.start, f.name)
         /\ IsOf(Code(map, f), f.start, version)
<1>1. PICK d \in DOMAIN Content(map) :
        /\ Content(map)[d].kind = "def"
        /\ f.start = d /\ f.name = Content(map)[d].name
  <2> DEFINE content == Content(map)
  <2>1. PICK d \in DOMAIN content :
          /\ content[d].kind = "def"
          /\ f = [name |-> content[d].name, start |-> d, end |-> Max(Body(content, d) \cup {d})]
    <3> HIDE DEF content
    <3>1. f \in Functions(content)
      BY DEF content
    <3> QED BY <3>1 DEF Functions
  <2> QED BY <2>1
<1>2. Content(map)[d] = Shown(map, d)
  BY <1>1 DEF Content
<1>3. d \in DOMAIN map /\ Shown(map, d) = map[d]
  BY <1>1, <1>2 DEF Shown, Blank
<1>4. IsDefinition(version, f.start, f.name)
  BY <1>1, <1>2, <1>3 DEF IsDefinition
<1>5. ASSUME NEW k \in DOMAIN Code(map, f)
      PROVE  Code(map, f)[k] = Blank \/ Code(map, f)[k] = version[f.start + k - 1]
  <2>1. Code(map, f)[k] = Shown(map, f.start + k - 1)
    BY DEF Code
  <2> DEFINE n == f.start + k - 1
  <2>2. Shown(map, n) = Blank \/ Shown(map, n) = version[n]
    <3> HIDE DEF n
    <3> QED BY DEF Shown
  <2> QED BY <2>1, <2>2
<1> QED BY <1>4, <1>5 DEF IsOf

(* A non-empty set of numbers up to n has a greatest element. *)
LEMMA GreatestUpTo ==
  ASSUME NEW n \in Nat, NEW S, S \subseteq 1..n, S # {}
  PROVE  \E x \in S : \A y \in S : y <= x
<1> DEFINE R == OpToRel(<, Nat)
<1>1. IsWellFoundedOn(R, Nat)
  BY NatLessThanWellFounded
<1>2. \A x, y \in Nat : x < y => <<x, y>> \in R
  BY DEF OpToRel
<1> HIDE DEF R
<1> DEFINE T == {n - x : x \in S}
<1>3. T \subseteq Nat /\ T # {}
  OBVIOUS
<1> HIDE DEF T
<1>4. PICK t \in T : \A u \in T : <<u, t>> \notin R
  BY <1>1, <1>3, WFMin
<1>5. PICK x \in S : t = n - x
  BY <1>4 DEF T
<1>6. ASSUME NEW y \in S PROVE y <= x
  <2>1. x \in Nat /\ y \in Nat /\ n - y \in T /\ x <= n /\ y <= n
    BY DEF T
  <2>2. ~(n - y < n - x)
    BY <1>2, <1>3, <1>4, <1>5, <2>1
  <2> QED BY <2>1, <2>2
<1> QED BY <1>6

(* Of the functions of a name there is a last one. *)
LEMMA LastOfName ==
  ASSUME NEW n \in Nat, DOMAIN file.before = 1..n, OldIsTrue,
         NEW name, \E g \in Functions(Content(old_line_map)) : g.name = name
  PROVE  \E f \in Functions(Content(old_line_map)) :
           f.name = name /\ \A g \in Functions(Content(old_line_map)) : g.name = name => g.start <= f.start
<1> DEFINE named == {g \in Functions(Content(old_line_map)) : g.name = name}
<1> DEFINE starts == {g.start : g \in named}
<1>1. starts \subseteq 1..n
  <2> SUFFICES ASSUME NEW g \in Functions(Content(old_line_map)) PROVE g.start \in 1..n
    OBVIOUS
  <2> QED BY FoundIsDefinition DEF IsDefinition, OldIsTrue
<1>2. starts # {}
  OBVIOUS
<1> HIDE DEF starts
<1>3. PICK x \in starts : \A y \in starts : y <= x
  BY <1>1, <1>2, GreatestUpTo
<1>4. PICK f \in named : f.start = x
  BY DEF starts
<1>5. \A g \in named : g.start \in starts
  BY DEF starts
<1> QED BY <1>3, <1>4, <1>5

(* What is blamed points at definitions, if the versions rebuilt are true. *)
LEMMA BlamedPoints ==
  ASSUME NEW n \in Nat, DOMAIN file.before = 1..n, OldIsTrue, NewIsTrue, NEW r \in Blamed
  PROVE  PointsAtDefinition(r, file.before, file.after)
<1> DEFINE olds == Functions(Content(old_line_map))
           news == Functions(Content(new_line_map))
<1>1. \A f \in olds : /\ IsDefinition(file.before, f.start, f.name)
                      /\ IsOf(Code(old_line_map, f), f.start, file.before)
  BY FoundIsDefinition DEF OldIsTrue
<1>2. \A f \in news : /\ IsDefinition(file.after, f.start, f.name)
                      /\ IsOf(Code(new_line_map, f), f.start, file.after)
  BY FoundIsDefinition DEF NewIsTrue
<1>3. \/ \E f \in news : r = Changed(f, olds)
      \/ \E f \in olds : r = Deleted(f)
  BY DEF Blamed, Find
<1>4. ASSUME NEW f \in news, r = Changed(f, olds)
      PROVE  PointsAtDefinition(r, file.before, file.after)
  <2>1. /\ r.name = f.name /\ r.start = f.start /\ r.change_type \in {"modified", "added"}
        /\ r.new_code = Code(new_line_map, f)
    BY <1>4 DEF Changed
  <2>2. IsDefinition(file.after, r.start, r.name) /\ IsOf(r.new_code, r.start, file.after)
    BY <1>2, <2>1
  <2>3. ASSUME r.change_type = "modified"
        PROVE  \E d \in DOMAIN file.before :
                 IsDefinition(file.before, d, r.name) /\ IsOf(r.old_code, d, file.before)
    <3>1. (\E g \in olds : g.name = f.name) /\ r.old_code = OldCode(olds, f.name)
      BY <1>4, <2>3 DEF Changed
    <3>2. \E g \in olds : g.name = f.name /\ \A h \in olds : h.name = f.name => h.start <= g.start
      BY <3>1, LastOfName
    <3>3. PICK g \in olds : g.name = f.name /\ OldCode(olds, f.name) = Code(old_line_map, g)
      <4> HIDE DEF olds
      <4> QED BY <3>2 DEF OldCode
    <3>4. IsDefinition(file.before, g.start, f.name) /\ IsOf(r.old_code, g.start, file.before)
      BY <1>1, <3>1, <3>3
    <3> QED BY <2>1, <3>4 DEF IsDefinition
  <2> QED BY <2>1, <2>2, <2>3 DEF PointsAtDefinition
<1>5. ASSUME NEW f \in olds, r = Deleted(f)
      PROVE  PointsAtDefinition(r, file.before, file.after)
  BY <1>1, <1>5 DEF Deleted, PointsAtDefinition
<1> QED BY <1>3, <1>4, <1>5

(* A list that is longer by the file in hand speaks as truly as before if that does. *)
LEMMA ListKeepsPoints ==
  ASSUME IInv, RecordsPointAtDefinitions, NEW functions, List(functions), event' = event,
         at \in DOMAIN event.files,
         ~Marked(file) => \A r \in functions : PointsAtDefinition(r, file.before, file.after)
  PROVE  RecordsPointAtDefinitions'
<1>1. PICK S : files_changed \in Seq([file : Nat, functions : S])
  BY DEF IInv, Sequential
<1> DEFINE new == [file |-> at, functions |-> functions]
<1>2. files_changed' = Append(files_changed, new) /\ new.file = at /\ new.functions = functions
  BY DEF List
<1> HIDE DEF new
<1>3. /\ DOMAIN files_changed' = 1..(Len(files_changed) + 1)
      /\ \A i \in DOMAIN files_changed : files_changed'[i] = files_changed[i]
      /\ files_changed'[Len(files_changed) + 1] = new
      /\ Len(files_changed) \in Nat /\ DOMAIN files_changed = 1..Len(files_changed)
  BY <1>1, <1>2
<1> SUFFICES ASSUME NEW i \in Said', NEW r \in files_changed'[i].functions
             PROVE  PointsAtDefinition(r, event.files[files_changed'[i].file].before,
                                          event.files[files_changed'[i].file].after)
  BY DEF RecordsPointAtDefinitions
<1>4. i \in DOMAIN files_changed' /\ ~Marked(event.files[files_changed'[i].file])
  BY DEF Said, Marked
<1>5. CASE i \in DOMAIN files_changed
  BY <1>3, <1>4, <1>5 DEF RecordsPointAtDefinitions, Said
<1>6. CASE i = Len(files_changed) + 1
  BY <1>2, <1>3, <1>4, <1>6 DEF file
<1> QED BY <1>3, <1>4, <1>5, <1>6

(* Of every commit whose diffs have no remarks between their lines: each record of a
   function names the line at which one of that name begins in the version it speaks of,
   and the code it quotes stands there (parse_diff, on which _score_frame_match and the
   questions to the language model rest). *)
THEOREM RecordsPoint == Spec => []RecordsPointAtDefinitions
<1>1. Init => RecordsPointAtDefinitions
  BY DEF Init, RecordsPointAtDefinitions, Said
<1>2. ASSUME IInv, RecordsPointAtDefinitions, [Next]_vars
      PROVE  RecordsPointAtDefinitions'
  <2>1. CASE UNCHANGED <<event, files_changed>>
    BY <1>2, <2>1 DEF RecordsPointAtDefinitions, Said, Marked
  <2>2. CASE TakeFile /\ ListFile
    <3>1. List({}) /\ event' = event /\ at \in DOMAIN event.files
      BY <2>2 DEF TakeFile, ListFile
    <3> QED BY <1>2, <3>1, ListKeepsPoints
  <2>3. CASE EndParse
    <3> DEFINE functions == IF all_changed = {} THEN {} ELSE Blamed
    <3>1. List(functions) /\ event' = event /\ stage = "hunks"
      BY <2>3 DEF EndParse
    <3>2. at \in DOMAIN event.files
      BY <1>2, <3>1 DEF IInv, TypeOK
    <3>3. ASSUME ~Marked(file), NEW r \in functions
          PROVE  PointsAtDefinition(r, file.before, file.after)
      <4>1. OldIsTrue /\ NewIsTrue
        BY <1>2, <3>1, <3>3 DEF IInv, NumbersAreTrue
      <4>2. file.before \in Seq(Text)
        BY <1>2, <3>2, FileInHand DEF IInv, File
      <4>3. Len(file.before) \in Nat /\ DOMAIN file.before = 1..Len(file.before)
        BY <4>2
      <4> QED BY <3>3, <4>1, <4>3, BlamedPoints
    <3> HIDE DEF functions
    <3> QED BY <1>2, <3>1, <3>2, <3>3, ListKeepsPoints
  <2>4. CASE Next /\ ~EndParse /\ ~(TakeFile /\ ListFile)
    BY <2>1, <2>4 DEF Next, ReadMetadata, TakeFile, SkipFile, StartParse, EndFiles, OpenHunk,
                      ReadLine, EndHunk
  <2> QED BY <1>2, <2>1, <2>2, <2>3, <2>4 DEF vars
<1> QED BY <1>1, <1>2, Invariance, PTL DEF Spec
----------------------------------------------------------------------------
(* Nothing shown is overlooked *)

(* A version rebuilt is as long as the greatest number shown. *)
LEMMA ContentOfMap ==
  ASSUME NEW n \in Nat, NEW map, DOMAIN map \subseteq 1..n
  PROVE  /\ DOMAIN map \subseteq DOMAIN Content(map) /\ DOMAIN Content(map) \subseteq 1..n
         /\ \E k \in Nat : DOMAIN Content(map) = 1..k
         /\ \A i \in DOMAIN Content(map) : Content(map)[i] = Shown(map, i)
<1> DEFINE S == DOMAIN map \cup {0}
<1>1. \E x \in S : \A y \in S : y <= x
  <2>1. CASE DOMAIN map = {}
    BY <2>1
  <2>2. CASE DOMAIN map # {}
    <3>1. PICK x \in DOMAIN map : \A y \in DOMAIN map : y <= x
      BY <2>2, GreatestUpTo
    <3> QED BY <3>1
  <2> QED BY <2>1, <2>2
<1>2. Max(S) \in S /\ \A y \in S : y <= Max(S)
  <2> HIDE DEF S
  <2> QED BY <1>1 DEF Max
<1>3. Max(S) \in 0..n
  BY <1>2
<1>4. Content(map) = [i \in 1..Max(S) |-> Shown(map, i)]
  BY DEF Content
<1> HIDE DEF S
<1>5. DOMAIN Content(map) = 1..Max(S)
  BY <1>4
<1>6. ASSUME NEW i \in DOMAIN map PROVE i \in 1..Max(S)
  BY <1>2 DEF S
<1> QED BY <1>3, <1>4, <1>5, <1>6

(* A line of the body of a function whose definition is shown is, if it is shown, in the
   function that tree-sitter finds there. *)
LEMMA FoundAround ==
  ASSUME NEW map, NEW version \in Seq(Text),
         \A i \in DOMAIN map : i \in DOMAIN version /\ map[i] = version[i],
         NEW d \in DOMAIN map, version[d].kind = "def",
         NEW m \in DOMAIN map, m \in Body(version, d)
  PROVE  \E f \in Functions(Content(map)) :
           f.name = version[d].name /\ f.start = d /\ d <= m /\ m <= f.end
<1> DEFINE content == Content(map)
<1> DEFINE n == Len(version)
<1>1. n \in Nat /\ DOMAIN version = 1..n
  OBVIOUS
<1>2. DOMAIN map \subseteq 1..n
  BY <1>1
<1> HIDE DEF n
<1>3. /\ DOMAIN map \subseteq DOMAIN content /\ DOMAIN content \subseteq 1..n
      /\ \E k \in Nat : DOMAIN content = 1..k
      /\ \A i \in DOMAIN content : content[i] = Shown(map, i)
  BY <1>1, <1>2, ContentOfMap
<1> HIDE DEF content
<1>4. \A i \in DOMAIN content : content[i] = Blank \/ (i \in DOMAIN version /\ content[i] = version[i])
  BY <1>3 DEF Shown
<1>5. content[d] = version[d] /\ content[m] = version[m] /\ d \in 1..n /\ m \in 1..n
  BY <1>2, <1>3 DEF Shown
<1>6. /\ d < m /\ version[m].kind = "body"
      /\ \A i \in (d + 1)..m : version[i].kind \in {"body", "blank"}
  BY DEF Body
<1>8. m \in Body(content, d)
  <2>1. ASSUME NEW i \in (d + 1)..m PROVE content[i].kind \in {"body", "blank"}
    <3>1. i \in DOMAIN content
      BY <1>3, <1>5
    <3> QED BY <1>4, <1>6, <2>1, <3>1 DEF Blank
  <2> QED BY <1>3, <1>5, <1>6, <2>1 DEF Body
<1> DEFINE S == Body(content, d) \cup {d}
<1>9. S \subseteq 1..n /\ m \in S
  BY <1>3, <1>5, <1>8 DEF Body
<1>10. m <= Max(S)
  <2> HIDE DEF S
  <2>1. \E x \in S : \A y \in S : y <= x
    BY <1>1, <1>9, GreatestUpTo
  <2> QED BY <1>9, <2>1 DEF Max
<1> HIDE DEF S
<1> DEFINE found == [name |-> content[d].name, start |-> d, end |-> Max(S)]
<1>11. found \in Functions(content)
  <2>1. d \in {x \in DOMAIN content :
                 content[x].kind = "def" /\ (event.lenient \/ Body(content, x) # {})}
    BY <1>3, <1>5, <1>8
  <2> QED BY <2>1 DEF Functions, S
<1>12. found.name = version[d].name /\ found.start = d /\ d <= m /\ m <= found.end
  BY <1>5, <1>6, <1>10
<1> QED BY <1>11, <1>12 DEF content

(* A line removed marks one of the new version as well. *)
RemovedMarks == old_changed # {} => all_changed # {}

LEMMA RemovalMarks == Spec => []RemovedMarks
<1>1. Init => RemovedMarks
  BY DEF Init, RemovedMarks
<1>2. ASSUME RemovedMarks, [Next]_vars
      PROVE  RemovedMarks'
  <2>1. CASE UNCHANGED <<all_changed, old_changed>>
    BY <1>2, <2>1 DEF RemovedMarks
  <2>2. CASE TakeFile
    BY <1>2, <2>2 DEF RemovedMarks, TakeFile, SkipFile, ListFile, StartParse, reading
  <2>3. CASE ReadLine
    BY <1>2, <2>3 DEF RemovedMarks, ReadLine, ReadAdded, ReadRemoved, ReadContext
  <2>4. CASE Next /\ ~TakeFile /\ ~ReadLine
    BY <2>1, <2>4 DEF Next, ReadMetadata, EndFiles, OpenHunk, EndHunk, EndParse, reading
  <2> QED BY <1>2, <2>1, <2>2, <2>3, <2>4 DEF vars, reading
<1> QED BY <1>1, <1>2, PTL DEF Spec

(* What ShownChangesAreReported says of the records of one file. *)
Reported(f, records) ==
  \A l \in ShownLines(f), def \in ShownLines(f) :
    def.text.kind = "def" =>
      /\ l.op = "+" /\ InNew(def) /\ l.new \in Body(f.after, def.new) =>
           \E r \in records :
             /\ r.name = def.text.name /\ r.change_type # "deleted"
             /\ r.start = def.new /\ l.new <= r.end
      /\ l.op = "-" /\ InOld(def) /\ l.old \in Body(f.before, def.old) =>
           \E r \in records : r.name = def.text.name

(* A function found and changed is among what is blamed, one found in the old version
   and changed there gives its name to something blamed. *)
LEMMA FoundIsBlamed ==
  /\ \A f \in Find(Functions(Content(new_line_map)), all_changed) :
       \E r \in Blamed : /\ r.name = f.name /\ r.change_type # "deleted"
                         /\ r.start = f.start /\ r.end = f.end
  /\ \A f \in Find(Functions(Content(old_line_map)), old_changed) :
       \E r \in Blamed : r.name = f.name
<1> DEFINE olds == Functions(Content(old_line_map))
           changed == Find(Functions(Content(new_line_map)), all_changed)
<1>1. \A f : /\ Changed(f, olds).name = f.name /\ Changed(f, olds).start = f.start
             /\ Changed(f, olds).end = f.end /\ Changed(f, olds).change_type # "deleted"
             /\ Deleted(f).name = f.name
  BY DEF Changed, Deleted
<1>2. \A f \in changed : Changed(f, olds) \in Blamed
  BY DEF Blamed
<1>3. ASSUME NEW f \in Find(olds, old_changed)
      PROVE  \E r \in Blamed : r.name = f.name
  <2>1. CASE \A g \in changed : g.name # f.name
    <3>1. Deleted(f) \in Blamed
      BY <2>1 DEF Blamed
    <3> QED BY <1>1, <3>1
  <2>2. CASE \E g \in changed : g.name = f.name
    <3>1. PICK g \in changed : g.name = f.name
      BY <2>2
    <3>2. Changed(g, olds) \in Blamed /\ Changed(g, olds).name = f.name
      BY <1>1, <1>2, <3>1
    <3> QED BY <3>2
  <2> QED BY <2>1, <2>2
<1> HIDE DEF olds, changed
<1>4. ASSUME NEW f \in changed
      PROVE  \E r \in Blamed : /\ r.name = f.name /\ r.change_type # "deleted"
                               /\ r.start = f.start /\ r.end = f.end
  <2>1. Changed(f, olds) \in Blamed
    BY <1>2
  <2> QED BY <1>1, <2>1
<1> QED BY <1>3, <1>4 DEF olds, changed

(* Once all hunks have been read, the functions blamed cover what was shown. *)
LEMMA BlamedReports ==
  ASSUME IInv, RemovedMarks, stage = "hunks", hunk \notin DOMAIN file.hunks, ~Marked(file)
  PROVE  Reported(file, IF all_changed = {} THEN {} ELSE Blamed)
<1>1. at \in DOMAIN event.files /\ hunk \in Nat /\ hunk > 0
  BY DEF IInv, TypeOK, Placed
<1>2. /\ file.hunks \in Seq(Hunk) /\ file.before \in Seq(Text) /\ file.after \in Seq(Text)
      /\ TrueTo(file)
  BY <1>1, FileInHand DEF IInv, File
<1>3. OldIsTrue /\ NewIsTrue /\ NothingIsMissed
  BY DEF IInv, NumbersAreTrue
<1>4. \A h \in DOMAIN file.hunks : h < hunk
  <2>1. Len(file.hunks) \in Nat /\ DOMAIN file.hunks = 1..Len(file.hunks)
    BY <1>2
  <2> QED BY <1>1, <2>1
<1>5. ASSUME NEW l \in ShownLines(file)
      PROVE  /\ InOld(l) => l.old \in DOMAIN old_line_map /\ l.text = file.before[l.old]
             /\ InNew(l) => l.new \in DOMAIN new_line_map /\ l.text = file.after[l.new]
             /\ l.op = "-" => l.old \in old_changed
             /\ l.op = "+" => l.new \in all_changed
  <2>1. PICK h \in DOMAIN file.hunks :
          file.hunks[h].header /\ l \in {file.hunks[h].lines[k] : k \in DOMAIN file.hunks[h].lines}
    BY DEF ShownLines
  <2>2. PICK k \in DOMAIN file.hunks[h].lines : l = file.hunks[h].lines[k]
    BY <2>1
  <2>3. IsRead(h, k)
    BY <1>4, <2>1 DEF IsRead
  <2>4. HunkIsTrue(file.hunks[h].lines, file.hunks[h], file.before, file.after)
    BY <1>2 DEF TrueTo
  <2>5. LineIsTrue(l, file.before, file.after)
    BY <2>2, <2>4 DEF HunkIsTrue
  <2> QED BY <1>3, <2>2, <2>3, <2>5 DEF NothingIsMissed, LineIsTrue
<1> DEFINE records == IF all_changed = {} THEN {} ELSE Blamed
<1>6. records = Blamed \/ (all_changed = {} /\ old_changed = {})
  BY DEF RemovedMarks
<1> HIDE DEF records
<1> SUFFICES ASSUME NEW l \in ShownLines(file), NEW def \in ShownLines(file), def.text.kind = "def"
             PROVE  /\ l.op = "+" /\ InNew(def) /\ l.new \in Body(file.after, def.new) =>
                         \E r \in records :
                           /\ r.name = def.text.name /\ r.change_type # "deleted"
                           /\ r.start = def.new /\ l.new <= r.end
                    /\ l.op = "-" /\ InOld(def) /\ l.old \in Body(file.before, def.old) =>
                         \E r \in records : r.name = def.text.name
  BY DEF Reported, records
<1>7. ASSUME l.op = "+", InNew(def), l.new \in Body(file.after, def.new)
      PROVE  \E r \in records :
               /\ r.name = def.text.name /\ r.change_type # "deleted"
               /\ r.start = def.new /\ l.new <= r.end
  <2>1. /\ l.new \in DOMAIN new_line_map /\ l.new \in all_changed
        /\ def.new \in DOMAIN new_line_map /\ def.text = file.after[def.new]
    BY <1>5, <1>7 DEF InNew
  <2>2. PICK f \in Functions(Content(new_line_map)) :
          f.name = def.text.name /\ f.start = def.new /\ def.new <= l.new /\ l.new <= f.end
    BY <1>2, <1>3, <1>7, <2>1, FoundAround DEF NewIsTrue
  <2>3. f \in Find(Functions(Content(new_line_map)), all_changed)
    BY <2>1, <2>2 DEF Find
  <2>4. records = Blamed
    BY <1>6, <2>1
  <2> QED BY <2>2, <2>3, <2>4, FoundIsBlamed
<1>8. ASSUME l.op = "-", InOld(def), l.old \in Body(file.before, def.old)
      PROVE  \E r \in records : r.name = def.text.name
  <2>1. /\ l.old \in DOMAIN old_line_map /\ l.old \in old_changed
        /\ def.old \in DOMAIN old_line_map /\ def.text = file.before[def.old]
    BY <1>5, <1>8 DEF InOld
  <2>2. PICK f \in Functions(Content(old_line_map)) :
          f.name = def.text.name /\ f.start = def.old /\ def.old <= l.old /\ l.old <= f.end
    BY <1>2, <1>3, <1>8, <2>1, FoundAround DEF OldIsTrue
  <2>3. f \in Find(Functions(Content(old_line_map)), old_changed)
    BY <2>1, <2>2 DEF Find
  <2>4. records = Blamed
    BY <1>6, <2>1
  <2> QED BY <2>2, <2>3, <2>4, FoundIsBlamed
<1> QED BY <1>7, <1>8

(* ShownChangesAreReported speaks of each file by itself. *)
LEMMA AllReported ==
  /\ ShownChangesAreReported <=>
       \A i \in Said :
         LET f == event.files[files_changed[i].file]
         IN  f.language \in Parsers /\ f.change_type \in {"modified", "added"} =>
               Reported(f, files_changed[i].functions)
  /\ ShownChangesAreReported' <=>
       \A i \in Said' :
         LET f == event'.files[files_changed'[i].file]
         IN  f.language \in Parsers /\ f.change_type \in {"modified", "added"} =>
               Reported(f, files_changed'[i].functions)
<1>1. ShownChangesAreReported <=>
       \A i \in Said :
         LET f == event.files[files_changed[i].file]
         IN  f.language \in Parsers /\ f.change_type \in {"modified", "added"} =>
               Reported(f, files_changed[i].functions)
  BY Zenon DEF ShownChangesAreReported, Reported
<1>2. ShownChangesAreReported' <=>
       \A i \in Said' :
         LET f == event'.files[files_changed'[i].file]
         IN  f.language \in Parsers /\ f.change_type \in {"modified", "added"} =>
               Reported(f, files_changed'[i].functions)
  BY Zenon DEF ShownChangesAreReported, Reported
<1> QED BY <1>1, <1>2

(* A list that is longer by the file in hand leaves out as little as before if that does. *)
LEMMA ListKeepsReports ==
  ASSUME IInv, ShownChangesAreReported, NEW functions, List(functions), event' = event,
         at \in DOMAIN event.files,
         ~Marked(file) /\ Parsed => Reported(file, functions)
  PROVE  ShownChangesAreReported'
<1>1. PICK S : files_changed \in Seq([file : Nat, functions : S])
  BY DEF IInv, Sequential
<1> DEFINE new == [file |-> at, functions |-> functions]
<1>2. files_changed' = Append(files_changed, new) /\ new.file = at /\ new.functions = functions
  BY DEF List
<1> HIDE DEF new
<1>3. /\ DOMAIN files_changed' = 1..(Len(files_changed) + 1)
      /\ \A i \in DOMAIN files_changed : files_changed'[i] = files_changed[i]
      /\ files_changed'[Len(files_changed) + 1] = new
      /\ Len(files_changed) \in Nat /\ DOMAIN files_changed = 1..Len(files_changed)
  BY <1>1, <1>2
<1> DEFINE F(i) == event.files[files_changed'[i].file]
<1>4. ASSUME NEW i \in Said', F(i).language \in Parsers, F(i).change_type \in {"modified", "added"}
      PROVE  Reported(F(i), files_changed'[i].functions)
  <2>1. i \in DOMAIN files_changed' /\ ~Marked(F(i))
    BY DEF Said, Marked
  <2>2. CASE i \in DOMAIN files_changed
    <3>1. files_changed'[i] = files_changed[i] /\ i \in Said
      BY <1>3, <2>1, <2>2 DEF Said
    <3> QED BY <1>4, <3>1 DEF ShownChangesAreReported, Reported
  <2>3. CASE i = Len(files_changed) + 1
    <3>1. F(i) = file /\ files_changed'[i].functions = functions
      BY <1>2, <1>3, <2>3 DEF file
    <3> QED BY <1>4, <2>1, <3>1 DEF Parsed
  <2> QED BY <1>3, <2>1, <2>2, <2>3
<1> HIDE DEF F
<1>5. \A i \in Said' : LET f == event'.files[files_changed'[i].file] IN F(i) = f
  BY DEF F
<1> QED BY <1>4, <1>5, AllReported

(* Of every commit whose diffs have no remarks between their lines, however long and in
   whatever order its hunks: no line added to or removed from the body of a function
   whose definition is shown is overlooked (parse_diff, _find_functions_in_range). *)
THEOREM NothingShownIsOverlooked == Spec => []ShownChangesAreReported
<1>1. Init => ShownChangesAreReported
  BY DEF Init, ShownChangesAreReported, Said
<1>2. ASSUME IInv, RemovedMarks, ShownChangesAreReported, [Next]_vars
      PROVE  ShownChangesAreReported'
  <2>1. CASE UNCHANGED <<event, files_changed>>
    BY <1>2, <2>1, AllReported DEF Said, Marked
  <2>2. CASE TakeFile /\ ListFile
    <3>1. List({}) /\ event' = event /\ at \in DOMAIN event.files
      BY <2>2 DEF TakeFile, ListFile
    <3>2. ASSUME Parsed PROVE Reported(file, {})
      <4>1. file.hunks = <<>>
        BY <2>2, <3>2 DEF ListFile
      <4>2. ShownLines(file) = {}
        BY <4>1 DEF ShownLines
      <4> QED BY <4>2 DEF Reported
    <3> QED BY <1>2, <3>1, <3>2, ListKeepsReports
  <2>3. CASE EndParse
    <3> DEFINE functions == IF all_changed = {} THEN {} ELSE Blamed
    <3>1. /\ List(functions) /\ event' = event /\ stage = "hunks"
          /\ hunk \notin DOMAIN file.hunks
      BY <2>3 DEF EndParse
    <3>2. at \in DOMAIN event.files
      BY <1>2, <3>1 DEF IInv, TypeOK
    <3>3. ~Marked(file) => Reported(file, functions)
      BY <1>2, <3>1, BlamedReports
    <3> HIDE DEF functions
    <3> QED BY <1>2, <3>1, <3>2, <3>3, ListKeepsReports
  <2>4. CASE Next /\ ~EndParse /\ ~(TakeFile /\ ListFile)
    BY <2>1, <2>4 DEF Next, ReadMetadata, TakeFile, SkipFile, StartParse, EndFiles, OpenHunk,
                      ReadLine, EndHunk
  <2> QED BY <1>2, <2>1, <2>2, <2>3, <2>4 DEF vars
<1> QED BY <1>1, <1>2, Invariance, RemovalMarks, PTL DEF Spec
=============================================================================
