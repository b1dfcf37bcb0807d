------------------------------- MODULE FileTools -------------------------------
(***************************************************************************)
(* The workspace file Tools (roboagent/tool/filesystem.py): bounded        *)
(* listings, and files that are written as a whole.  A call never awaits,  *)
(* but other processes write to the same file between its system calls,    *)
(* any of which may fail.                                                  *)
(*                                                                         *)
(* A tree is a set of paths with their kinds; a path is the sequence of    *)
(* the names on it.  A text is a sequence of letters.                      *)
(***************************************************************************)
EXTENDS Integers, Sequences, FiniteSets, SequencesExt

CONSTANTS
    Trees,        \* inputs: workspaces, as functions from paths to kinds
    NameOrder,    \* order of names
    Hidden,       \* names that start with a dot
    Texts,        \* inputs: what a file may hold
    OldTexts,     \* inputs: old_text of edit_file
    MaxResults,   \* max_list_results, max_search_results
    MaxOutput,    \* max_list_output_bytes, max_search_bytes
    MaxDepth

ASSUME FileToolsAssumption ==
    /\ MaxResults \in Nat \ {0} /\ MaxOutput \in Nat \ {0} /\ MaxDepth \in Nat \ {0}
    /\ \A name \in DOMAIN NameOrder : NameOrder[name] \in Nat
    /\ \A a, b \in DOMAIN NameOrder : NameOrder[a] = NameOrder[b] => a = b
    /\ \A paths \in {DOMAIN t : t \in Trees} :
         IsFiniteSet(paths) /\ \A p \in paths : p \in Seq(DOMAIN NameOrder) /\ p # <<>>
    /\ \A text \in Texts \cup OldTexts : Len(text) \in Nat
    /\ \A old \in OldTexts : Len(old) # 0

VARIABLES
    tree, listing,    \* the workspace, and the last listing
    file,            \* the target of the writing Tools
    temporary,       \* the temporary file of the last write, beside it
    write            \* the last write: where it is, what it replaces, what it writes

listingVars == <<tree, listing>>
fileVars == <<listingVars, file, temporary, write>>

NoText == <<"absent">>
NoListing == [items |-> <<>>, truncated |-> FALSE, all |-> <<>>]
NoWrite == [pc |-> "idle", read |-> NoText, old |-> NoText, text |-> NoText, outcome |-> "none",
            undeleted |-> FALSE]    \* history: the removal of its temporary file failed

FileInit ==
    /\ tree \in Trees /\ listing = NoListing
    /\ file \in Texts \cup {NoText} /\ temporary = NoText
    /\ write = NoWrite

-----------------------------------------------------------------------------
\* The Tools that read: list_files, find_files and search_files.

Visible(p) == Last(p) \notin Hidden
Folder(p) == IF p = <<>> THEN TRUE ELSE tree[p] = "directory"
Under(base, p) == Len(p) > Len(base) /\ SubSeq(p, 1, Len(base)) = base

\* _walk descends into what is visible, not a link, and not too deep.
Descended(base, p) ==
    \A n \in (Len(base) + 1)..(Len(p) - 1) :
       LET folder == SubSeq(p, 1, n) IN
       Folder(folder) /\ Visible(folder) /\ n - Len(base) <= MaxDepth

\* A link to a directory is never named; a directory below the depth is not either.
Walked(base) ==
    {p \in DOMAIN tree : Under(base, p) /\ Descended(base, p) /\ Visible(p)
                         /\ tree[p] # "linkToDirectory"
                         /\ (tree[p] = "directory" => Len(p) - Len(base) <= MaxDepth)}

\* Paths are in order name by name.  (The code compares whole paths, which is the same
\* where no name begins with another.)
Before(p, q) ==
    \E n \in 1..Len(q) :
       /\ \A i \in 1..(n - 1) : i <= Len(p) /\ p[i] = q[i]
       /\ n > Len(p) \/ NameOrder[p[n]] < NameOrder[q[n]]
Ordered(paths) ==
    [n \in 1..Cardinality(paths) |->
        CHOOSE p \in paths : Cardinality({q \in paths : Before(q, p)}) = n - 1]

\* An item takes room for its names and, but for the first, a comma; _fits renders the
\* answer with "truncated": true, which is one byte shorter than false.
Rendered(items, truncated) ==
    LET bytes[n \in 0..Len(items)] == IF n = 0 THEN 0 ELSE bytes[n - 1] + Len(items[n])
    IN bytes[Len(items)]
       + (IF items = <<>> THEN 0 ELSE Len(items) - 1) + (IF truncated THEN 0 ELSE 1)

FitsIn(items) == Len(items) <= MaxResults /\ Rendered(items, TRUE) <= MaxOutput

\* Take items in order until one does not fit.
Bounded(all) ==
    LET n == CHOOSE n \in 0..Len(all) :
                /\ \A m \in 1..n : FitsIn(SubSeq(all, 1, m))
                /\ n = Len(all) \/ ~FitsIn(SubSeq(all, 1, n + 1))
    IN [items |-> SubSeq(all, 1, n), truncated |-> n < Len(all), all |-> all]

Answers(all) == listing' = Bounded(all) /\ UNCHANGED <<tree, file, temporary, write>>

\* list_files: the direct children, links among them.
ListFiles(base) ==
    /\ Folder(base)
    /\ Answers(Ordered({<<Last(p)>> : p \in {p \in DOMAIN tree :
                  Under(base, p) /\ Len(p) = Len(base) + 1 /\ Visible(p)}}))

\* find_files: what was walked and matches the pattern.
FindFiles(base, matching) ==
    /\ Folder(base)
    /\ Answers(Ordered(Walked(base) \cap matching))

\* search_files: the regular files among those that can be read and hold the text, once.
SearchFiles(base, holding) ==
    /\ Folder(base)
    /\ Answers(Ordered({p \in Walked(base) \cap holding : tree[p] = "file"}))

-----------------------------------------------------------------------------
\* The Tools that write: write_file, edit_file, and _atomic_write.

Occurrences(old, text) ==
    {i \in 1..(Len(text) + 1 - Len(old)) : SubSeq(text, i, i + Len(old) - 1) = old}

\* str.count: from the left, none overlapping the one before.
Counted(old, text) ==
    LET scan[i \in 0..(Len(text) + 1)] ==
          IF i = 0 THEN [count |-> 0, from |-> 1]
          ELSE IF i \in Occurrences(old, text) /\ i >= scan[i - 1].from
          THEN [count |-> scan[i - 1].count + 1, from |-> i + Len(old)]
          ELSE scan[i - 1]
    IN scan[Len(text) + 1].count

\* Every write has a temporary file of its own, with a name of its own.
NewWrite(w) == write' = w /\ temporary' = NoText
WriteEnds(code) == write' = [write EXCEPT !.pc = "idle", !.outcome = code]

\* Variant: the first occurrence is replaced, whether or not it is the only one.
AnyOccurrence(old, text) == Counted(old, text) >= 1

OneOccurrence(old, text) == Counted(old, text) = 1

\* edit_file reads the text and replaces the only occurrence in it.  (Bound: it edits
\* a file that was not edited before.)
EditFile(old, new) ==
    /\ write.pc = "idle" /\ file \in Texts \cup {NoText}
    /\ IF file # NoText /\ OneOccurrence(old, file)
       THEN LET i == CHOOSE i \in Occurrences(old, file) :
                        \A j \in Occurrences(old, file) : i <= j IN
            NewWrite([NoWrite EXCEPT !.pc = "writing", !.read = file, !.old = old, !.text =
                       SubSeq(file, 1, i - 1) \o new
                       \o SubSeq(file, i + Len(old), Len(file))])
       ELSE NewWrite([NoWrite EXCEPT !.outcome = "refused"])
    /\ UNCHANGED <<listingVars, file>>

\* write_file does not read what it replaces.
WriteWhole(text) ==
    /\ write.pc = "idle"
    /\ NewWrite([NoWrite EXCEPT !.pc = "writing", !.read = file, !.text = text])
    /\ UNCHANGED <<listingVars, file>>

\* The temporary file takes the content, wholly or not, and is synced.
FillTemporary ==
    /\ write.pc = "writing" /\ temporary = NoText
    /\ \/ temporary' = write.text /\ write' = [write EXCEPT !.pc = "filled"]
       \/ \E n \in 0..Len(write.text) :
             /\ temporary' = SubSeq(write.text, 1, n)
             /\ write' = [write EXCEPT !.pc = "failed"]
       \/ UNCHANGED temporary /\ write' = [write EXCEPT !.pc = "failed"]
    /\ UNCHANGED <<listingVars, file>>

\* os.replace
Replace ==
    /\ write.pc = "filled"
    /\ \/ /\ file' = write.text /\ temporary' = NoText
          /\ WriteEnds("ok")
       \/ /\ write' = [write EXCEPT !.pc = "failed"]
          /\ UNCHANGED <<file, temporary>>
    /\ UNCHANGED listingVars

\* finally: the temporary file of a write that failed is removed, or the system refuses
\* that too, which is ignored.
RemoveTemporary ==
    /\ write.pc = "failed"
    /\ \E undeleted \in BOOLEAN :
         /\ undeleted => temporary # NoText
         /\ temporary' = IF undeleted THEN temporary ELSE NoText
         /\ write' = [write EXCEPT !.pc = "idle", !.outcome = "write_error", !.undeleted = undeleted]
    /\ UNCHANGED <<listingVars, file>>

SomebodyWrites ==
    /\ file' \in Texts \cup {NoText}
    /\ UNCHANGED <<listingVars, temporary, write>>

\* (Bound: one listing.)
ListingNext ==
    /\ listing = NoListing
    /\ \E base \in DOMAIN tree \cup {<<>>}, matching \in SUBSET DOMAIN tree :
          ListFiles(base) \/ FindFiles(base, matching) \/ SearchFiles(base, matching)

WritingNext ==
    \/ \E text \in Texts : WriteWhole(text) \/ \E old \in OldTexts : EditFile(old, text)
    \/ FillTemporary \/ Replace \/ RemoveTemporary \/ SomebodyWrites

FileNext == ListingNext \/ WritingNext

FileSpec == FileInit /\ [][FileNext]_fileVars

-----------------------------------------------------------------------------
\* Properties.

\* A listing is as much of what there is, in order, as the limits allow, and says so
\* when something is missing.  (One that is complete may be a byte over its limit: the
\* code measures it with "truncated": true.)
ListingExact ==
    LET n == Len(listing.items) IN
    /\ IsPrefix(listing.items, listing.all)
    /\ listing.truncated <=> listing.items # listing.all
    /\ n <= MaxResults /\ Rendered(listing.items, listing.truncated)
                           <= MaxOutput + (IF listing.truncated THEN 0 ELSE 1)
    /\ listing.truncated =>
          n = MaxResults \/ Rendered(SubSeq(listing.all, 1, n + 1), TRUE) > MaxOutput

\* At any moment the file holds a whole text, of the Tool or of somebody else.  A write
\* that is over has left nothing beside it, whatever failed, unless the removal of its
\* temporary file failed as well, and then it said that it failed.
FileWhole ==
    /\ file \in Texts \cup {NoText, write.read, write.text}
    /\ write.pc = "idle" /\ temporary # NoText =>
         write.undeleted /\ write.outcome = "write_error"

\* An edit goes on only if the places where old_text is found overlap one another:
\* no two separate ones, of which it would silently take the first.
EditUnambiguous ==
    write.pc # "idle" /\ write.old # NoText =>
       /\ Occurrences(write.old, write.read) # {}
       /\ \A i, j \in Occurrences(write.old, write.read) : i - j < Len(write.old)

FileToolsSound == ListingExact /\ FileWhole /\ EditUnambiguous
=============================================================================
