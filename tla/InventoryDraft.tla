---------------------------- MODULE InventoryDraft ----------------------------
(***************************************************************************)
(* The merging of the drafts of one asset when a task is archived          *)
(* (pkg/inventorydraft) and the normal forms of the strings it compares    *)
(* (pkg/strnorm).                                                          *)
(*                                                                         *)
(* An entry is a draft: its operator, its cells and the time it was        *)
(* written.  The cells are the location and one more text, notes, which    *)
(* stands for the three others the code compares in the same way.  A text  *)
(* is a sequence of characters, of which four are told apart: a space, an  *)
(* ideographic space, a letter and the same letter in full width.          *)
(***************************************************************************)
EXTENDS Integers, Sequences, FiniteSets

Space == " "
WideSpace == "U+3000"
Letter == "a"
WideLetter == "U+FF41"
Character == {Space, WideSpace, Letter, WideLetter}

-------------------------------------------------------------------------------
(***************************************************************************)
(* Texts                                                                   *)
(***************************************************************************)
HalfWidth(c) == CASE c = WideSpace -> Space [] c = WideLetter -> Letter [] OTHER -> c

ToHalfWidth(s) == [i \in DOMAIN s |-> HalfWidth(s[i])]

\* strings.TrimSpace: a space of either width is white space.
TrimSpace(s) ==
  LET ink == {i \in DOMAIN s : HalfWidth(s[i]) # Space}
  IN IF ink = {} THEN << >>
     ELSE SubSeq(s, CHOOSE i \in ink : \A j \in ink : i <= j,
                    CHOOSE i \in ink : \A j \in ink : i >= j)

\* Of a run of spaces only the first is kept.
MergeSpaces(s) ==
  LET merged[i \in 0 .. Len(s)] ==
        IF i = 0 THEN << >>
        ELSE IF i > 1 /\ s[i] = Space /\ s[i - 1] = Space THEN merged[i - 1]
        ELSE Append(merged[i - 1], s[i])
  IN merged[Len(s)]

\* Mutant: only the ends are trimmed, full width characters stay.
LocationTrimOnly(s) == MergeSpaces(TrimSpace(s))

Location(s) == MergeSpaces(ToHalfWidth(TrimSpace(s)))

Normalize(s) == TrimSpace(ToHalfWidth(s))

SameLocation(s, t) == Location(s) = Location(t)

EntryKey(e) == <<Location(e.cells.location), Normalize(e.cells.notes)>>

-------------------------------------------------------------------------------
(***************************************************************************)
(* Entries.  The code keeps them in a slice in the order Mongo returns     *)
(* them and in a map whose order is random; where two are equally new,     *)
(* which one wins depends on that order.  The operators below return the   *)
(* set of entries that some order yields.                                  *)
(***************************************************************************)
Newest(entries) == {e \in entries : \A f \in entries : f.at <= e.at}

\* uk_task_asset_operator leaves one draft for each operator, which makes
\* LatestPerOperator the identity.
LatestPerOperator(entries) ==
  {e \in entries : \A f \in entries : f.operator = e.operator => f.at <= e.at}

AssigneeEntries(entries, assignees) ==
  {e \in LatestPerOperator(entries) : e.operator \in assignees}

HasAssigneeConflict(entries, assignees) ==
  LET assignee == AssigneeEntries(entries, assignees)
  IN Cardinality(assignee) >= 2 /\ Cardinality({EntryKey(e) : e \in assignee}) > 1

PickForArchive(entries, assignees) ==
  LET filtered == {e \in entries : e.operator \in assignees}
  IN Newest(IF filtered = {} THEN entries ELSE filtered)

\* Mutant: the newest draft wins, whoever wrote it.
PickNewest(entries, assignees) == Newest(entries)

PickConsensus(entries, assignees) ==
  LET assignee == AssigneeEntries(entries, assignees)
  IN IF assignee = {} THEN PickForArchive(entries, assignees) ELSE Newest(assignee)
===============================================================================
