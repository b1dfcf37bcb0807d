------------------------------- MODULE PatchText -------------------------------
(***************************************************************************)
(* What a patch says and what it makes of the text of files: the parser,   *)
(* the matching of hunks and the newlines of roboagent/tool/apply_patch.py. *)
(* (ApplyPatch is about the files themselves.)                             *)
(*                                                                         *)
(* A text is a sequence of letters.  A file is the sequence of its lines,  *)
(* each with its ending: "lf", "crlf", or "none" for the last.  A patch is *)
(* the sequence of its sections; the container, the headers and the form   *)
(* of paths are left out, and so are separators of lines but the newlines. *)
(***************************************************************************)
EXTENDS Integers, Sequences, FiniteSets, SequencesExt

CONSTANTS
    Patches,       \* inputs
    Workspaces     \* inputs: the lines of the files, by path

VARIABLE patched   \* the patch that was applied, and the files before and after

Absent == <<[text |-> <<>>, ending |-> "absent"]>>
Marker == "no newline"

\* Only the last line of a file has no ending.
ASSUME PatchTextAssumption ==
    LET Listed(s) == Len(s) \in Nat /\ DOMAIN s = 1..Len(s) IN
    /\ \A files \in Workspaces : \A path \in DOMAIN files :
         /\ Listed(files[path])
         /\ files[path] # Absent =>
              \A i \in DOMAIN files[path] : files[path][i].ending = "none" => i = Len(files[path])
    /\ \A patch \in Patches : \A i \in DOMAIN patch :
         /\ Listed(patch[i].body)
         /\ \A files \in Workspaces : patch[i].path \in DOMAIN files

NotPatched == [patch |-> <<>>, before |-> <<>>, after |-> <<>>]
PatchTextInit == patched = NotPatched

-----------------------------------------------------------------------------
\* _parse_add: added lines, and a marker after the last at most.
AddParsed(body) ==
    \A i \in DOMAIN body :
       \/ body[i].kind = "+"
       \/ body[i].kind = Marker /\ i = Len(body) /\ i > 1

\* _parse_hunks: hunks that hold something, and a marker after a line only.
HunksParsed(body) ==
    /\ body # <<>> /\ body[1].kind = "@@"
    /\ \A i \in DOMAIN body :
         /\ body[i].kind \in {"@@", Marker, " ", "-", "+"}
         /\ body[i].kind = "@@" => i < Len(body) /\ body[i + 1].kind # "@@"
         /\ body[i].kind = Marker => body[i - 1].kind \in {" ", "-", "+"}

\* _parse_patch, whose sections have different targets.
Parsed(patch) ==
    /\ patch # <<>>
    /\ \A i, j \in DOMAIN patch : patch[i].path = patch[j].path => i = j
    /\ \A i \in DOMAIN patch :
         CASE patch[i].operation = "added" -> AddParsed(patch[i].body)
           [] patch[i].operation = "deleted" -> patch[i].body = <<>>
           [] OTHER -> HunksParsed(patch[i].body)

\* A hunk is named by the index of its "@@": the indexes of its lines, those of them on
\* one side (what was there, "-", or will be there, "+"), and where a line is among them.
Lines(body, at) ==
    {i \in DOMAIN body : /\ at < i /\ body[i].kind \notin {"@@", Marker}
                         /\ \A k \in (at + 1)..i : body[k].kind # "@@"}
Side(body, at, sign) == {i \in Lines(body, at) : body[i].kind \in {" ", sign}}
Place(side, i) == Cardinality({k \in side : k < i}) + 1

\* A marker follows the line.
Bare(body, i) == i < Len(body) /\ body[i + 1].kind = Marker

-----------------------------------------------------------------------------
\* _apply_update.

NewLine(body, i, newline) ==
    [text |-> body[i].text, ending |-> IF Bare(body, i) THEN "none" ELSE newline]

Count(lines, ending) == Cardinality({i \in DOMAIN lines : lines[i].ending = ending})

\* _dominant_newline; of as many the first.
Dominant(lines) ==
    LET ended == {i \in DOMAIN lines : lines[i].ending # "none"} IN
    CASE Count(lines, "lf") > Count(lines, "crlf") -> "lf"
      [] Count(lines, "crlf") > Count(lines, "lf") -> "crlf"
      [] OTHER -> IF ended = {} THEN "lf"
                  ELSE lines[CHOOSE i \in ended : \A j \in ended : i <= j].ending

\* Where the lines that a hunk keeps or removes are found, one after the other.
FoundAt(lines, body, at) ==
    LET old == Side(body, at, "-") IN
    {start \in 0..(Len(lines) - Cardinality(old)) :
        \A i \in old :
          LET line == lines[start + Place(old, i)] IN
          line.text = body[i].text /\ (Bare(body, i) <=> line.ending = "none")}

\* Variant: a hunk goes to the first place where it is found.
FoundFirst(places) == places # {}

\* The only place where a hunk is found.
Located(places) == Cardinality(places) = 1

\* A hunk is put in its place: what it keeps stays as it was, with its ending.
Replaced(lines, body, at, start, newline) ==
    LET old == Side(body, at, "-")
        new == Side(body, at, "+")
        grown == Cardinality(new) - Cardinality(old)
    IN [n \in 1..(Len(lines) + grown) |->
          IF n <= start THEN lines[n]
          ELSE IF n > start + Cardinality(new) THEN lines[n - grown]
          ELSE LET i == CHOOSE i \in new : start + Place(new, i) = n IN
               IF body[i].kind = " " THEN lines[start + Place(old, i)]
               ELSE NewLine(body, i, newline)]

\* One hunk, on what the ones before it have made.
Hunk(lines, body, at, newline) ==
    LET places == FoundAt(lines, body, at) IN
    IF lines # Absent /\ Located(places)
    THEN Replaced(lines, body, at, CHOOSE p \in places : \A q \in places : p <= q, newline)
    ELSE Absent

Updated(file, body) ==
    LET lines[n \in 0..Len(body)] ==
          IF n = 0 THEN file
          ELSE IF body[n].kind = "@@" THEN Hunk(lines[n - 1], body, n, Dominant(file))
          ELSE lines[n - 1]
    IN lines[Len(body)]

\* What was written as lines, as the lines it is read as: a line without an ending and
\* the one after it are one line.
Reread(lines) ==
    LET Read(read, line) ==
          IF read # <<>> /\ read[Len(read)].ending = "none"
          THEN [read EXCEPT ![Len(read)] = [text |-> @.text \o line.text, ending |-> line.ending]]
          ELSE Append(read, line)
    IN FoldLeft(Read, <<>>, lines)

-----------------------------------------------------------------------------
\* _prepare: the content of the target of a section afterwards, and whether its
\* operation fits the file and its hunks are found.
Fitting(section, file) ==
    CASE section.operation = "added" -> file = Absent
      [] section.operation = "deleted" -> file # Absent
      [] OTHER -> file # Absent /\ Updated(file, section.body) # Absent

Content(section, file) ==
    CASE section.operation = "added" ->
           [n \in 1..Cardinality({i \in DOMAIN section.body : section.body[i].kind = "+"}) |->
              NewLine(section.body, n, "lf")]
      [] section.operation = "deleted" -> Absent
      [] OTHER -> Reread(Updated(file, section.body))

Applicable(patch, files) ==
    Parsed(patch) /\ \A i \in DOMAIN patch : Fitting(patch[i], files[patch[i].path])

Applied(patch, files) ==
    [path \in DOMAIN files |->
        IF \E i \in DOMAIN patch : patch[i].path = path
        THEN Content(patch[CHOOSE i \in DOMAIN patch : patch[i].path = path], files[path])
        ELSE files[path]]

\* A patch that is not applicable changes nothing, and no patch leaves anything behind
\* but the files: one is looked at.
ApplyText ==
    /\ patched = NotPatched
    /\ \E patch \in Patches, files \in Workspaces :
         /\ Applicable(patch, files)
         /\ patched' = [patch |-> patch, before |-> files, after |-> Applied(patch, files)]

PatchTextNext == ApplyText

PatchTextSpec == PatchTextInit /\ [][PatchTextNext]_patched

-----------------------------------------------------------------------------
\* Properties.

\* The hunks the other way round, the last first; a file's lines as lines to add.
Turned(body) ==
    [i \in DOMAIN body |->
        [kind |-> CASE body[i].kind = "+" -> "-" [] body[i].kind = "-" -> "+" [] OTHER -> body[i].kind,
         text |-> body[i].text]]
Restored(file, body) ==
    LET lines[n \in 0..Len(body)] ==
          LET at == Len(body) + 1 - n IN
          IF n = 0 THEN file
          ELSE IF body[at].kind = "@@" THEN Hunk(lines[n - 1], Turned(body), at, Dominant(file))
          ELSE lines[n - 1]
    IN lines[Len(body)]

AsAdded(file) ==
    [n \in 1..(Len(file) + (IF Len(file) > 0 /\ file[Len(file)].ending = "none" THEN 1 ELSE 0)) |->
        IF n <= Len(file) THEN [kind |-> "+", text |-> file[n].text]
        ELSE [kind |-> Marker, text |-> <<>>]]

SameText(f, g) ==
    /\ f = Absent <=> g = Absent
    /\ Len(f) = Len(g)
    /\ \A i \in DOMAIN f : f[i].text = g[i].text /\ (f[i].ending = "none" <=> g[i].ending = "none")

\* Every line but the last was written with an ending.  (A hunk may say of any line
\* that it has none, 381-385, and a line put before another then merges with it.)
LinesKeptApart(lines) == Reread(lines) = lines

\* apply_patch.py:405-443: a hunk goes where it is found, once, and nowhere else, and
\* what it does not name it leaves alone: turned round and applied, if they are applicable,
\* to the files as they are read again, the hunks give back every line that was there
\* before, and so do the lines of a file that was deleted, if they are added again.
TextReverts ==
    patched # NotPatched =>
      \A i \in DOMAIN patched.patch :
        LET section == patched.patch[i]
            before == patched.before[section.path]
            after == patched.after[section.path]
        IN CASE section.operation = "added" -> before = Absent
             [] section.operation = "deleted" ->
                  LET adding == [operation |-> "added", body |-> AsAdded(before)] IN
                  AddParsed(adding.body) /\ SameText(Content(adding, after), before)
             [] OTHER ->
                  LET undone == Restored(after, section.body) IN
                  LinesKeptApart(Updated(before, section.body)) /\ undone # Absent
                     => SameText(undone, before)
=============================================================================
