---------------------------- MODULE CodeIngester ----------------------------
(***************************************************************************)
(* ingestion/code_ingester.py: the functions that a commit has changed, as *)
(* read from the unified diffs of its files.                               *)
(*                                                                         *)
(* parse_diff never sees the files.  It rebuilds from the hunks what they  *)
(* show of the two versions, each line at its number and nothing in        *)
(* between, has tree-sitter find functions in that, and blames those on    *)
(* whose lines changes fall.  The model carries the true versions along,   *)
(* and the true numbers of each line, so that what is rebuilt and blamed   *)
(* can be compared with them.  Of a text there remains what decides where  *)
(* functions begin and end, in a language with the layout of Python.       *)
(***************************************************************************)
EXTENDS Integers, Sequences, FiniteSetsExt

CONSTANTS
  Name,      \* of functions, and of other texts to tell them apart
  Language,  \* of the extensions in _EXTENSION_TO_LANGUAGE
  Parsers,   \* the languages of which tree-sitter has a grammar
  Events     \* the commits that may come in

Blank == [kind |-> "blank", name |-> "none"]
Text == [kind : {"def", "body", "top"}, name : Name] \cup {Blank}

(* op: the first character, or "" for an empty line, or "other": git's remark on a
   missing newline, or what splitlines tears off a line at a form feed.  old, new: the
   number of the line in that version or, if it is not in it, of the next that is. *)
Line == [op : {" ", "+", "-", "", "other"}, text : Text, old : Nat, new : Nat]

(* header: what _parse_hunk_header makes of the header, if anything. *)
Hunk == [header : BOOLEAN, old : Nat, new : Nat, lines : Seq(Line)]

(* language: none of Language if the extension is unknown.  raw: there is a diff; it may
   have no hunks.  broken: no dict. *)
File ==
  [language : Language \cup {"unknown"}, change_type : STRING, broken : BOOLEAN,
   raw : BOOLEAN, hunks : Seq(Hunk), before : Seq(Text), after : Seq(Text)]

(* complete: everything required is there and the timestamp can be parsed.
   lenient: the parser takes a definition without a body for a function. *)
Event == [complete : BOOLEAN, lenient : BOOLEAN, files : Seq(File)]

InOld(l) == l.op \in {" ", "-", ""}
InNew(l) == l.op \in {" ", "+", ""}

(* The hunks are those of a diff between the two versions.  A header names the first
   line of its hunk in a version, or the one before if it shows none of it. *)
LineIsTrue(l, before, after) ==
  /\ InOld(l) => l.old \in DOMAIN before /\ l.text = before[l.old]
  /\ InNew(l) => l.new \in DOMAIN after /\ l.text = after[l.new]
  /\ l.op = "" => l.text = Blank

HunkIsTrue(lines, start, before, after) ==
  /\ lines # <<>>
  /\ (\E k \in DOMAIN lines : InOld(lines[k])) => start.old = lines[1].old
  /\ (\E k \in DOMAIN lines : InNew(lines[k])) => start.new = lines[1].new
  /\ \A k \in DOMAIN lines :
       /\ LineIsTrue(lines[k], before, after)
       /\ k + 1 \in DOMAIN lines =>
            /\ lines[k + 1].old = lines[k].old + (IF InOld(lines[k]) THEN 1 ELSE 0)
            /\ lines[k + 1].new = lines[k].new + (IF InNew(lines[k]) THEN 1 ELSE 0)

TrueTo(f) ==
  \A h \in DOMAIN f.hunks : HunkIsTrue(f.hunks[h].lines, f.hunks[h], f.before, f.after)

ASSUME IngesterAssumption ==
  /\ Parsers \subseteq Language /\ "unknown" \notin Language
  /\ \A e \in Events : e \in Event /\ \A i \in DOMAIN e.files : TrueTo(e.files[i])

VARIABLES
  event,          \* what comes in
  stage,          \* where ingest_raw_diff is
  at,             \* the file in hand
  hunk, line,     \* the hunk and the line of it that are next
  old_line, new_line,          \* their numbers as counted
  all_changed, old_changed,    \* numbers at which lines were added or removed, and removed
  old_line_map, new_line_map,  \* the versions as far as they were shown
  files_changed   \* the FileChanges so far

position == <<hunk, line, old_line, new_line>>
reading == <<all_changed, old_changed, old_line_map, new_line_map>>
vars == <<event, stage, at, position, reading, files_changed>>

file == event.files[at]

Init ==
  /\ event \in Events
  /\ stage = "metadata"
  /\ at = 1
  /\ hunk = 1 /\ line = 1 /\ old_line = 0 /\ new_line = 0
  /\ all_changed = {} /\ old_changed = {}
  /\ old_line_map = <<>> /\ new_line_map = <<>>
  /\ files_changed = <<>>

----------------------------------------------------------------------------
(* Metadata and files *)

(* ingest_github and ingest_gitlab put the metadata together, ingest_raw_diff checks it.
   What is missing makes the event None. *)
ReadMetadata ==
  /\ stage = "metadata"
  /\ stage' = IF event.complete THEN "files" ELSE "none"
  /\ UNCHANGED <<event, at, position, reading, files_changed>>

(* The FileChange of the file in hand. *)
List(functions) ==
  /\ files_changed' = Append(files_changed, [file |-> at, functions |-> functions])
  /\ at' = at + 1
  /\ stage' = "files"

(* Mutant: an empty diff is listed as well. *)
SkippedBroken == file.broken

Skipped == file.broken \/ ~file.raw

SkipFile ==
  /\ Skipped
  /\ at' = at + 1
  /\ UNCHANGED <<stage, position, reading, files_changed>>

Parsed == file.language \in Parsers /\ file.change_type \in {"modified", "added"}

ListFile ==
  /\ ~Parsed \/ file.hunks = <<>>
  /\ List({})
  /\ UNCHANGED <<position, reading>>

StartParse ==
  /\ Parsed /\ file.hunks # <<>>
  /\ hunk' = 1
  /\ all_changed' = {} /\ old_changed' = {}
  /\ old_line_map' = <<>> /\ new_line_map' = <<>>
  /\ stage' = "hunks"
  /\ UNCHANGED <<at, line, old_line, new_line, files_changed>>

TakeFile ==
  /\ stage = "files" /\ at \in DOMAIN event.files
  /\ SkipFile \/ (~Skipped /\ (ListFile \/ StartParse))
  /\ UNCHANGED event

EndFiles ==
  /\ stage = "files" /\ at \notin DOMAIN event.files
  /\ stage' = "done"
  /\ UNCHANGED <<event, at, position, reading, files_changed>>

----------------------------------------------------------------------------
(* Hunks and lines *)

OpenHunk ==
  /\ stage = "hunks" /\ hunk \in DOMAIN file.hunks
  /\ IF file.hunks[hunk].header
     THEN /\ old_line' = file.hunks[hunk].old
          /\ new_line' = file.hunks[hunk].new
          /\ line' = 1
          /\ stage' = "lines"
          /\ UNCHANGED hunk
     ELSE /\ hunk' = hunk + 1
          /\ UNCHANGED <<stage, line, old_line, new_line>>
  /\ UNCHANGED <<event, at, reading, files_changed>>

(* The line in hand, and map[n] = text. *)
current == file.hunks[hunk].lines[line]

Put(map, n, text) ==
  [i \in DOMAIN map \cup {n} |-> IF i = n THEN text ELSE map[i]]

ReadAdded ==
  /\ current.op = "+"
  /\ all_changed' = all_changed \cup {new_line}
  /\ new_line_map' = Put(new_line_map, new_line, current.text)
  /\ new_line' = new_line + 1
  /\ UNCHANGED <<old_line, old_changed, old_line_map>>

(* Mutant: a removed line is counted in the new version, too. *)
ReadRemovedCounting ==
  /\ current.op = "-"
  /\ all_changed' = all_changed \cup {new_line}
  /\ old_changed' = old_changed \cup {old_line}
  /\ old_line_map' = Put(old_line_map, old_line, current.text)
  /\ old_line' = old_line + 1
  /\ new_line' = new_line + 1
  /\ UNCHANGED new_line_map

(* all_changed gets the number that has been reached in the new version: of the line
   that follows, or of the one before if the hunk shows none of it. *)
ReadRemoved ==
  /\ current.op = "-"
  /\ all_changed' = all_changed \cup {new_line}
  /\ old_changed' = old_changed \cup {old_line}
  /\ old_line_map' = Put(old_line_map, old_line, current.text)
  /\ old_line' = old_line + 1
  /\ UNCHANGED <<new_line, new_line_map>>

(* An empty line, and one that begins with anything else, is taken for context. *)
ReadContext ==
  /\ current.op \notin {"+", "-"}
  /\ new_line_map' = Put(new_line_map, new_line, current.text)
  /\ old_line_map' = Put(old_line_map, old_line, current.text)
  /\ new_line' = new_line + 1
  /\ old_line' = old_line + 1
  /\ UNCHANGED <<all_changed, old_changed>>

ReadLine ==
  /\ stage = "lines" /\ line \in DOMAIN file.hunks[hunk].lines
  /\ ReadAdded \/ ReadRemoved \/ ReadContext
  /\ line' = line + 1
  /\ UNCHANGED <<event, stage, at, hunk, files_changed>>

EndHunk ==
  /\ stage = "lines" /\ line \notin DOMAIN file.hunks[hunk].lines
  /\ hunk' = hunk + 1
  /\ stage' = "hunks"
  /\ UNCHANGED <<event, at, line, old_line, new_line, reading, files_changed>>

----------------------------------------------------------------------------
(* Blame *)

(* Mutant: the lines that are shown, without the gaps. *)
ContentClosedUp(map) ==
  [i \in 1..Cardinality(DOMAIN map) |->
     map[CHOOSE n \in DOMAIN map : Cardinality({m \in DOMAIN map : m <= n}) = i]]

(* _build_content: a line that is not shown is empty. *)
Shown(map, n) == IF n \in DOMAIN map THEN map[n] ELSE Blank
Content(map) == [n \in 1..Max(DOMAIN map \cup {0}) |-> Shown(map, n)]

(* What tree-sitter finds: a function goes from its definition to the last line of its
   body, before anything that is not indented. *)
Body(content, d) ==
  {n \in DOMAIN content :
     /\ d < n /\ content[n].kind = "body"
     /\ \A i \in (d + 1)..n : content[i].kind \in {"body", "blank"}}

Functions(content) ==
  {[name |-> content[d].name, start |-> d, end |-> Max(Body(content, d) \cup {d})] :
     d \in {d \in DOMAIN content :
              content[d].kind = "def" /\ (event.lenient \/ Body(content, d) # {})}}

(* Mutant: the last line of a function does not belong to it. *)
FindExceptLast(functions, changed) ==
  {f \in functions : \E n \in changed : f.start <= n /\ n < f.end}

(* _find_functions_in_range *)
Find(functions, changed) ==
  {f \in functions : \E n \in changed : f.start <= n /\ n <= f.end}

Code(map, f) == [i \in 1..(f.end - f.start + 1) |-> Shown(map, f.start + i - 1)]

(* old_func_by_name holds the last function of each name. *)
OldCode(olds, name) ==
  LET f == CHOOSE f \in olds : f.name = name /\ \A g \in olds : g.name = name => g.start <= f.start
  IN  Code(old_line_map, f)

NoCode == <<>>

Changed(f, olds) ==
  LET known == \E g \in olds : g.name = f.name
  IN  [name |-> f.name, start |-> f.start, end |-> f.end,
       change_type |-> IF known THEN "modified" ELSE "added",
       old_code |-> IF known THEN OldCode(olds, f.name) ELSE NoCode,
       new_code |-> Code(new_line_map, f)]

Deleted(f) ==
  [name |-> f.name, start |-> f.start, end |-> f.end, change_type |-> "deleted",
   old_code |-> Code(old_line_map, f), new_code |-> NoCode]

(* The FunctionChanges of the file in hand, in the order of their lines in the code. *)
Blamed ==
  LET olds == Functions(Content(old_line_map))
      changed == Find(Functions(Content(new_line_map)), all_changed)
      gone == {f \in Find(olds, old_changed) : \A g \in changed : g.name # f.name}
  IN  {Changed(f, olds) : f \in changed} \cup {Deleted(f) : f \in gone}

EndParse ==
  /\ stage = "hunks" /\ hunk \notin DOMAIN file.hunks
  /\ List(IF all_changed = {} THEN {} ELSE Blamed)
  /\ UNCHANGED <<event, position, reading>>

Next ==
  \/ ReadMetadata \/ TakeFile \/ EndFiles
  \/ OpenHunk \/ ReadLine \/ EndHunk \/ EndParse

Spec == Init /\ [][Next]_vars
----------------------------------------------------------------------------
(* Properties *)

(* A file is listed at most once, in order, only if there is a diff, and functions are
   sought only in files that can be parsed and still exist. *)
TypeOK ==
  /\ event \in Events
  /\ stage \in {"metadata", "none", "files", "hunks", "lines", "done"}
  /\ at \in 1..(Len(event.files) + 1)
  /\ stage \in {"hunks", "lines"} => at \in DOMAIN event.files /\ Parsed
  /\ all_changed \subseteq Nat /\ old_changed \subseteq Nat
  /\ \A i \in DOMAIN files_changed :
       /\ files_changed[i].file < at
       /\ event.files[files_changed[i].file].raw
       /\ ~event.files[files_changed[i].file].broken
       /\ i > 1 => files_changed[i - 1].file < files_changed[i].file

Marked(f) ==
  \E h \in DOMAIN f.hunks : \E k \in DOMAIN f.hunks[h].lines : f.hunks[h].lines[k].op = "other"

(* Line k of hunk h has been read. *)
IsRead(h, k) ==
  /\ file.hunks[h].header
  /\ h < hunk \/ (h = hunk /\ stage = "lines" /\ k < line)

OldIsTrue ==
  \A n \in DOMAIN old_line_map : n \in DOMAIN file.before /\ old_line_map[n] = file.before[n]

NewIsTrue ==
  \A n \in DOMAIN new_line_map : n \in DOMAIN file.after /\ new_line_map[n] = file.after[n]

NothingIsMissed ==
  \A h \in DOMAIN file.hunks : \A k \in DOMAIN file.hunks[h].lines :
    LET l == file.hunks[h].lines[k]
    IN  IsRead(h, k) =>
          /\ InOld(l) => l.old \in DOMAIN old_line_map
          /\ InNew(l) => l.new \in DOMAIN new_line_map
          /\ l.op = "-" => l.old \in old_changed
          /\ l.op = "+" => l.new \in all_changed

RemovedWasRead ==
  \A n \in old_changed :
    \E h \in DOMAIN file.hunks : \E k \in DOMAIN file.hunks[h].lines :
      /\ IsRead(h, k)
      /\ file.hunks[h].lines[k].op = "-" /\ file.hunks[h].lines[k].old = n

(* The lines rebuilt have the numbers, and the text, that they have in the two versions,
   whatever the number of hunks and wherever lines come and go; none is missed that was
   shown; and the numbers called changed are those of the lines added and removed
   (parse_diff, its two passes over each hunk).  Remarks between the lines are excepted:
   the code counts them. *)
NumbersAreTrue ==
  stage \in {"hunks", "lines"} /\ ~Marked(file) =>
    OldIsTrue /\ NewIsTrue /\ NothingIsMissed /\ RemovedWasRead

(* What has been said of a file whose diff has no remarks. *)
Said == {i \in DOMAIN files_changed : ~Marked(event.files[files_changed[i].file])}

IsDefinition(content, d, name) ==
  d \in DOMAIN content /\ content[d].kind = "def" /\ content[d].name = name

(* The code is what the version has from line start on, as far as it was shown. *)
IsOf(code, start, version) ==
  \A k \in DOMAIN code : code[k] = Blank \/ code[k] = version[start + k - 1]

PointsAtDefinition(r, before, after) ==
  IF r.change_type = "deleted"
  THEN IsDefinition(before, r.start, r.name) /\ IsOf(r.old_code, r.start, before)
  ELSE /\ IsDefinition(after, r.start, r.name) /\ IsOf(r.new_code, r.start, after)
       /\ r.change_type = "modified" =>
            \E d \in DOMAIN before :
              IsDefinition(before, d, r.name) /\ IsOf(r.old_code, d, before)

(* A record names the line at which a function of its name begins, in the version it
   speaks of; the service engine compares stack frames with that line (service.py:
   _score_frame_match).  Its code is what that version has at these lines, as far as
   it was shown. *)
RecordsPointAtDefinitions ==
  \A i \in Said : \A r \in files_changed[i].functions :
    LET f == event.files[files_changed[i].file]
    IN  PointsAtDefinition(r, f.before, f.after)

ShownLines(f) ==
  UNION {{f.hunks[h].lines[k] : k \in DOMAIN f.hunks[h].lines} :
         h \in {h \in DOMAIN f.hunks : f.hunks[h].header}}

(* A change in the body of a function whose definition is shown, by the same hunk or
   another, is not overlooked: a line added is within a record of that function, a line
   removed gives it one (parse_diff, _find_functions_in_range). *)
ShownChangesAreReported ==
  \A i \in Said :
    LET f == event.files[files_changed[i].file]
        records == files_changed[i].functions
    IN  f.language \in Parsers /\ f.change_type \in {"modified", "added"} =>
          \A l \in ShownLines(f), def \in ShownLines(f) :
            def.text.kind = "def" =>
              /\ l.op = "+" /\ InNew(def) /\ l.new \in Body(f.after, def.new) =>
                   \E r \in records :
                     /\ r.name = def.text.name /\ r.change_type # "deleted"
                     /\ r.start = def.new /\ l.new <= r.end
              /\ l.op = "-" /\ InOld(def) /\ l.old \in Body(f.before, def.old) =>
                   \E r \in records : r.name = def.text.name

(* What the docstring of parse_diff says: its records are of modified functions.  A line
   removed marks the line after it, which may begin the next function. *)
ReportedMeansModified ==
  \A i \in Said : \A r \in files_changed[i].functions :
    LET f == event.files[files_changed[i].file]
        Versions(content) ==
          {SubSeq(content, g.start, g.end) : g \in {g \in Functions(content) : g.name = r.name}}
    IN  r.change_type = "modified" => Versions(f.before) # Versions(f.after)
=============================================================================
