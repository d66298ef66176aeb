---------------------------- MODULE XlsxPreflight ----------------------------
(***************************************************************************)
(* XlsxPackageValidator: the XML of a workbook is read as a stream of      *)
(* elements, before openpyxl loads it, to refuse packages that are too     *)
(* large or that openpyxl would read otherwise than they look.             *)
(*                                                                         *)
(* What a part holds is chosen while it is read: any element of the small  *)
(* sets Elements may start where one may, and any open one may end. Names  *)
(* with their namespaces are tags; "other" stands for any other tag.       *)
(***************************************************************************)
EXTENDS Integers, Sequences, FiniteSets, SequencesExt, FiniteSetsExt

CONSTANTS
    Archives,         \* [members, size, encrypted, names, withRels]: the zip files looked at
    Elements,         \* Elements[stage]: what may start in parts of that kind
    MaxElements,      \* MaxElements[stage]: elements in one part (bounds the model)
    MaxDepth,         \* depth of a part (bounds the model)
    MaxMembers, MaxSize, MaxCells, MaxWorksheets,   \* limits of the validator
    MaxRows, MaxColumns                             \* limits of Excel

VARIABLES
    archive,
    stage,          \* the kind of part that is read, or how it ended
    stack, read,    \* open tags; what was started in this part: [path, element]
    inList, sawList,   \* inside of the container of entries, and whether there was one
    workbooks,      \* Override entries of workbooks
    ids,            \* relationships of the sheets
    relations,      \* the entries of the part of relationships that is read
    budget,         \* relationships that worksheets may still have
    worksheets, comments,   \* names of parts found
    at,             \* number of the worksheet or comments part that is read
    rowAt, columnAt,
    cells,          \* cells that are represented so far
    loaded          \* [cells, relations] of the parts that ended, from what was in them
vars == <<archive, stage, stack, read, inList, sawList, workbooks, ids, relations, budget,
          worksheets, comments, at, rowAt, columnAt, cells, loaded>>

found == <<workbooks, ids, budget, worksheets, comments>>

Reading == {"types", "workbook", "workbookRels", "sheetRels", "worksheet", "comments"}
Root(kind) == CASE kind = "types" -> "Types" [] kind = "workbook" -> "workbook"
                [] kind \in {"workbookRels", "sheetRels"} -> "Relationships"
                [] kind = "comments" -> "comments" [] OTHER -> "worksheet"
Depth == Len(stack)
Parent == IF stack = <<>> THEN "" ELSE Last(stack)

Init ==
    /\ archive \in Archives
    /\ stage = "archive" /\ stack = <<>> /\ read = <<>> /\ inList = FALSE /\ sawList = FALSE
    /\ workbooks = <<>> /\ ids = {} /\ relations = <<>> /\ budget = MaxMembers
    /\ worksheets = <<>> /\ comments = <<>> /\ at = 1
    /\ rowAt = 0 /\ columnAt = 0 /\ cells = 0 /\ loaded = [cells |-> 0, relations |-> 0]

\* Another part: its parser starts from nothing.
Open(kind, number) ==
    /\ stage' = kind /\ at' = number
    /\ stack' = <<>> /\ read' = <<>> /\ inList' = FALSE /\ sawList' = FALSE /\ relations' = <<>>
    /\ rowAt' = 0 /\ columnAt' = 0

\* An error: nothing that was read is kept.
Reject ==
    /\ Open("rejected", 1)
    /\ workbooks' = <<>> /\ ids' = {} /\ worksheets' = <<>> /\ comments' = <<>>
    /\ budget' = MaxMembers /\ cells' = 0 /\ loaded' = [cells |-> 0, relations |-> 0]
    /\ UNCHANGED archive

Required == {"types", "workbook", "rels"}

CheckArchive ==
    /\ stage = "archive"
    /\ IF \/ archive.members > MaxMembers \/ archive.size > MaxSize
          \/ archive.encrypted \/ ~(Required \subseteq archive.names)
       THEN Reject
       ELSE Open("types", 1) /\ UNCHANGED <<archive, found, cells, loaded>>

(***************************************************************************)
(* Elements. Push is common to all parts.                                  *)
(***************************************************************************)
May(e) ==
    /\ e \in Elements[stage]
    /\ stack # <<>> \/ read = <<>>
    /\ Len(read) < MaxElements[stage] /\ Depth < MaxDepth

Push(e) ==
    /\ stack' = Append(stack, e.tag)
    /\ read' = Append(read, [path |-> stack, element |-> e])

WrongRoot(e) == Depth = 0 /\ e.tag # Root(stage)
Entries == Cardinality({i \in DOMAIN read : Len(read[i].path) = 1})

StartType(e) ==
    /\ stage = "types" /\ May(e)
    /\ IF \/ WrongRoot(e) \/ Depth > 1
          \/ Depth = 1 /\ (e.tag \notin {"Default", "Override"} \/ Entries + 1 > MaxMembers)
       THEN Reject
       ELSE /\ Push(e)
            /\ workbooks' = IF Depth = 1 /\ e.workbook # "no" THEN Append(workbooks, e) ELSE workbooks
            /\ UNCHANGED <<archive, stage, inList, sawList, ids, relations, budget, worksheets, comments,
                           at, rowAt, columnAt, cells, loaded>>

\* Shared by the sheets of a workbook and the list of comments.
OpensList(e, container) == ~inList /\ Depth = 1 /\ e.tag = container
List(e, container) ==
    /\ inList' = (inList \/ OpensList(e, container))
    /\ sawList' = (sawList \/ OpensList(e, container))

SheetRefused(e) ==
    \/ Depth # 2 \/ e.tag # "sheet"
    \/ Cardinality(ids) + 1 > MaxWorksheets
    \/ Cardinality(e.ids) # 1 \/ e.ids \subseteq ids

StartSheet(e) ==
    /\ stage = "workbook" /\ May(e)
    /\ IF \/ WrongRoot(e)
          \/ OpensList(e, "sheets") /\ sawList
          \/ inList /\ SheetRefused(e)
       THEN Reject
       ELSE /\ Push(e)
            /\ List(e, "sheets")
            /\ ids' = IF inList THEN ids \cup e.ids ELSE ids
            /\ UNCHANGED <<archive, stage, workbooks, relations, budget, worksheets, comments,
                           at, rowAt, columnAt, cells, loaded>>

StartRelation(e) ==
    /\ stage \in {"workbookRels", "sheetRels"} /\ May(e)
    /\ LET limit == IF stage = "sheetRels" THEN budget ELSE MaxMembers
       IN IF \/ WrongRoot(e) \/ Depth > 1
             \/ Depth = 1 /\ \/ e.tag # "Relationship" \/ Len(relations) + 1 > limit
                             \/ e.id = "" \/ \E i \in DOMAIN relations : relations[i].id = e.id
          THEN Reject
          ELSE /\ Push(e)
               /\ relations' = IF Depth = 1 THEN Append(relations, e) ELSE relations
               /\ UNCHANGED <<archive, stage, inList, sawList, found, at, rowAt, columnAt, cells, loaded>>

\* What an element of a worksheet stands for: an area of 0 is not valid.
RowOf(e) == IF e.r # 0 THEN e.r ELSE rowAt + 1
ColumnOf(e) == IF e.c # 0 THEN e.c ELSE columnAt + 1
IsArea(e) == e.tag \in {"mergeCell", "hyperlink"}
Adds(e) == IF Parent = "row" THEN 1 ELSE IF IsArea(e) THEN e.area ELSE 0

CellRefused(e) ==
    IF e.tag = "row" THEN Parent # "sheetData" \/ RowOf(e) \notin 1..MaxRows
    ELSE IF Parent = "row" THEN e.tag # "c" \/ ColumnOf(e) \notin 1..MaxColumns
    ELSE \/ e.tag = "c" \/ Parent = "hyperlink"
         \/ IsArea(e) /\ e.area = 0
         \/ e.tag = "col" /\ ~e.valid

StartCell(e) ==
    /\ stage = "worksheet" /\ May(e)
    /\ IF CellRefused(e) \/ cells + Adds(e) > MaxCells THEN Reject
       ELSE /\ Push(e)
            /\ cells' = cells + Adds(e)
            /\ rowAt' = IF e.tag = "row" THEN RowOf(e) ELSE rowAt
            /\ columnAt' = IF e.tag = "row" THEN 0 ELSE IF Parent = "row" THEN ColumnOf(e) ELSE columnAt
            /\ UNCHANGED <<archive, stage, inList, sawList, found, relations, at, loaded>>

CommentRefused(e) ==
    \/ Depth = 2 /\ (e.tag # "comment" \/ ~e.valid)
    \/ Depth = 3 /\ Parent = "comment" /\ e.tag = "ref"

StartComment(e) ==
    /\ stage = "comments" /\ May(e)
    /\ LET more == IF inList /\ Depth = 2 THEN 1 ELSE 0
       IN IF \/ WrongRoot(e)
             \/ OpensList(e, "commentList") /\ sawList
             \/ inList /\ (CommentRefused(e) \/ cells + more > MaxCells)
          THEN Reject
          ELSE /\ Push(e) /\ List(e, "commentList") /\ cells' = cells + more
               /\ UNCHANGED <<archive, stage, found, relations, at, rowAt, columnAt, loaded>>

EndElement ==
    /\ stage \in Reading /\ stack # <<>>
    /\ stack' = Front(stack)
    /\ inList' = (inList /\ Depth # 2)
    /\ UNCHANGED <<archive, stage, read, sawList, found, relations, at, rowAt, columnAt, cells, loaded>>

Malformed == stage \in Reading /\ Reject

(***************************************************************************)
(* The end of a part.                                                      *)
(***************************************************************************)
Ended(kind) == stage = kind /\ stack = <<>> /\ read # <<>>

EndTypes ==
    /\ Ended("types")
    /\ IF Len(workbooks) # 1 \/ workbooks[1].tag = "Default" \/ workbooks[1].workbook # "standard"
       THEN Reject
       ELSE Open("workbook", 1) /\ UNCHANGED <<archive, found, cells, loaded>>

EndWorkbook ==
    /\ Ended("workbook")
    /\ IF ids = {} THEN Reject
       ELSE Open("workbookRels", 1) /\ UNCHANGED <<archive, found, cells, loaded>>

Unresolvable(rel) == ~rel.external /\ rel.target = "not canonical"
Missing(rel) == rel.external \/ rel.target \notin archive.names

WorkbookRelsRefused ==
    LET used == {i \in DOMAIN relations : relations[i].id \in ids}
    IN \/ \E i \in DOMAIN relations : Unresolvable(relations[i])
       \/ \E i \in used : Missing(relations[i]) \/ relations[i].type \notin {"worksheet", "chartsheet"}
       \/ \E i, j \in used : i # j /\ relations[i].target = relations[j].target
       \/ ids # {relations[i].id : i \in used}

HasRels(names) == {i \in DOMAIN names : names[i] \in archive.withRels}
FirstAfter(S, n) == Min({i \in S : i > n} \cup {99})

\* After the worksheet numbered n: the next one with relationships, or the cells.
NextRels(names, n) ==
    IF FirstAfter(HasRels(names), n) # 99 THEN Open("sheetRels", FirstAfter(HasRels(names), n))
    ELSE IF names # <<>> THEN Open("worksheet", 1) ELSE Open("accepted", 1)

EndWorkbookRels ==
    /\ Ended("workbookRels")
    /\ IF WorkbookRelsRefused THEN Reject
       ELSE LET sheets == SelectSeq(relations, LAMBDA rel : rel.id \in ids /\ rel.type = "worksheet")
                names == [i \in DOMAIN sheets |-> sheets[i].target]
            IN /\ worksheets' = names
               /\ NextRels(names, 0)
               /\ UNCHANGED <<archive, workbooks, ids, budget, comments, cells, loaded>>

\* Bug variant: each worksheet may have as many relationships as the limit says.
SpentOnce(n) == 0
Spent(n) == n

EndSheetRels ==
    /\ Ended("sheetRels")
    /\ LET notes == SelectSeq(relations, LAMBDA rel : rel.type = "comments")
       IN IF \/ \E i \in DOMAIN relations : Unresolvable(relations[i])
             \/ \E i \in DOMAIN notes : Missing(notes[i])
          THEN Reject
          ELSE /\ comments' = comments \o [i \in DOMAIN notes |-> notes[i].target]
               /\ budget' = budget - Spent(Len(relations))
               /\ NextRels(worksheets, at)
               /\ loaded' = [loaded EXCEPT !.relations = @ + Entries]
               /\ UNCHANGED <<archive, workbooks, ids, worksheets, cells>>

\* What a part makes the loader keep: cells that elements place, or cover.
Placed(kind, r) ==
    LET e == r.element
        inside == r.path # <<>> /\ Last(r.path) = "row"
    IN IF kind = "worksheet"
       THEN IF e.tag = "c" \/ inside THEN 1 ELSE IF e.tag \in {"mergeCell", "hyperlink"} THEN e.area ELSE 0
       ELSE IF kind = "comments" /\ r.path # <<>> /\ Last(r.path) = "commentList" /\ Len(r.path) = 2
            THEN 1 ELSE 0
Weight(kind) == FoldLeft(LAMBDA sum, r : sum + Placed(kind, r), 0, read)

EndCells ==
    /\ Ended("worksheet") \/ Ended("comments")
    /\ loaded' = [loaded EXCEPT !.cells = @ + Weight(stage)]
    /\ IF at < Len(IF stage = "worksheet" THEN worksheets ELSE comments) THEN Open(stage, at + 1)
       ELSE IF stage = "worksheet" /\ comments # <<>> THEN Open("comments", 1)
       ELSE Open("accepted", 1)
    /\ UNCHANGED <<archive, found, cells>>

Next ==
    \/ CheckArchive
    \/ stage \in Reading /\ \E e \in Elements[stage] :
          StartType(e) \/ StartSheet(e) \/ StartRelation(e) \/ StartCell(e) \/ StartComment(e)
    \/ EndElement \/ Malformed
    \/ EndTypes \/ EndWorkbook \/ EndWorkbookRels \/ EndSheetRels \/ EndCells

Spec == Init /\ [][Next]_vars

-----------------------------------------------------------------------------
TypeOK ==
    /\ stage \in Reading \cup {"archive", "accepted", "rejected"}
    /\ rowAt \in 0..MaxRows /\ columnAt \in 0..MaxColumns
    /\ cells \in Nat /\ budget <= MaxMembers

\* What the loader keeps of a package that is let through is within the limits,
\* summed over all of its worksheets and comments parts: cells that exist or
\* that ranges cover (max_cells), and relationships (max_archive_members). The
\* sheets are parts of the package, each used once.
PackageBounded ==
    /\ TypeOK
    /\ stage \in Reading => loaded.cells + Weight(stage) <= MaxCells
    /\ stage = "accepted" =>
          /\ loaded.cells <= MaxCells /\ loaded.relations <= MaxMembers
          /\ Cardinality(ids) \in 1..MaxWorksheets /\ Len(worksheets) <= Cardinality(ids)
          /\ ToSet(worksheets) \subseteq archive.names /\ Cardinality(ToSet(worksheets)) = Len(worksheets)
          /\ ToSet(comments) \subseteq archive.names

\* The loader takes every child of a container for an entry and lets elements
\* below an entry override it: in what was read the containers hold entries
\* only, and no entry that names a part or a range holds an element.
IsIn(r, container) == Len(r.path) = 2 /\ r.path[2] = container
IsBelow(r, container) == Len(r.path) > 2 /\ r.path[2] = container
NothingHidden ==
    stage \in Reading => \A i \in DOMAIN read :
        LET r == read[i] IN
        CASE stage \in {"types", "workbookRels", "sheetRels"} ->
               Len(r.path) = 0 \/ (Len(r.path) = 1 /\ r.element.tag \in {"Default", "Override", "Relationship"})
          [] stage = "workbook" ->
               ~IsBelow(r, "sheets") /\ (IsIn(r, "sheets") => r.element.tag = "sheet" /\ r.element.ids \subseteq ids)
          [] stage = "comments" ->
               /\ IsIn(r, "commentList") => r.element.tag = "comment"
               /\ IsBelow(r, "commentList") /\ Len(r.path) = 3 => r.element.tag # "ref"
          [] OTHER ->
               /\ r.element.tag = "c" => r.path # <<>> /\ Last(r.path) = "row"
               /\ r.element.tag = "row" => r.path # <<>> /\ Last(r.path) = "sheetData"
               /\ "hyperlink" \notin ToSet(r.path)

\* What is let through is what the loader will read, and within the limits.
PackageRight == PackageBounded /\ NothingHidden

=============================================================================
