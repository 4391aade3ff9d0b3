-------------------------- MODULE TransactionForm --------------------------
(***************************************************************************)
(* The sidebar that edits one posting (TransactionDetailsSidebar): the     *)
(* draft taken from the row the list holds, which may be older than the    *)
(* posting; the save in one or two requests, linking a receipt, and        *)
(* closing at any time.  The server's side is the posting with its         *)
(* allocations, its note, tags and date; the flag "extraordinary" is kept  *)
(* and sent as the note is.                                                *)
(*                                                                         *)
(* Notes, tags and dates are 0 (none; the booking date), 1 (typed here) or *)
(* 2 (written by another member).  Amounts are those of an income; those   *)
(* of an expense have the other sign.                                      *)
(***************************************************************************)
EXTENDS Integers, Sequences, SequencesExt

CONSTANTS
    Amount,       \* the posting's amount
    MaxRows,      \* bound: rows of the draft
    MaxTyping     \* bound: what is typed here, and written by others

ASSUME FormAssumption == Amount \in Nat \ {0} /\ MaxRows \in Nat \ {0} /\ MaxTyping \in Nat

Category == {"c0", "c1"}
Text == 0..2

VARIABLES
    server,       \* the posting as stored
    listed,       \* its row in the list, as last read
    shown,        \* the sidebar is open
    base,         \* the posting it was opened with
    draft,        \* its fields
    save,         \* the save on its way
    link,         \* the linking of a receipt on its way
    meddled,      \* history: someone else wrote since the save was started
    typing

formVars == <<server, listed, shown, base, draft, save, link, meddled, typing>>

Total(rows) == FoldLeft(LAMBDA sum, r : sum + r.amt, 0, rows)

Unsplit == <<[amt |-> Amount, cat |-> "c0"]>>
Receipt == <<[amt |-> 1, cat |-> "c1"], [amt |-> Amount - 1, cat |-> "c0"]>>

\* "attached": the sidebar that sent it is still mounted, so that its
\* callbacks run.
NoSave == [phase |-> "none", attached |-> FALSE, fields |-> {}, rows |-> <<>>,
           vals |-> <<>>, was |-> 0]
NoLink == [phase |-> "none", attached |-> FALSE]

Fresh(posting) ==
    [split |-> Len(posting.parts) > 1, rows |-> posting.parts,
     note |-> posting.note, tags |-> posting.tags, date |-> posting.date]

Blank == [parts |-> Unsplit, note |-> 0, tags |-> 0, date |-> 0]

FormInit ==
    /\ server = Blank
    /\ listed = server
    /\ shown = FALSE
    /\ base = server
    /\ draft = Fresh(server)
    /\ save = NoSave
    /\ link = NoLink
    /\ meddled = FALSE
    /\ typing = 0

-----------------------------------------------------------------------------
(* Opening, closing, editing.                                               *)

OpenForm ==
    /\ ~shown
    /\ shown' = TRUE
    /\ base' = listed
    /\ draft' = Fresh(listed)
    /\ UNCHANGED <<server, listed, save, link, meddled, typing>>

\* The list is read anew, after a save or at any other time.  An open sidebar
\* keeps the row it was opened with.
ListRead ==
    /\ listed # server
    /\ listed' = server
    /\ UNCHANGED <<server, shown, base, draft, save, link, meddled, typing>>

Detached(request) == [request EXCEPT !.attached = FALSE]

\* A sidebar that closes is gone with its state.
Discards ==
    IF shown' THEN UNCHANGED <<base, draft>> ELSE base' = Blank /\ draft' = Fresh(Blank)

\* The cross, the backdrop, a search for similar postings, or onClose of a
\* request: what is on its way goes on without its callbacks.
CloseForm ==
    /\ shown
    /\ shown' = FALSE
    /\ save' = Detached(save)
    /\ link' = Detached(link)
    /\ Discards
    /\ UNCHANGED <<server, listed, meddled, typing>>

Typed ==
    /\ shown
    /\ typing < MaxTyping
    /\ typing' = typing + 1
    /\ UNCHANGED <<server, listed, shown, base, save, link, meddled>>

TypeText(field) ==
    /\ Typed
    /\ \E v \in {0, 1} : draft' = [draft EXCEPT ![field] = v]

ToggleSplit == Typed /\ draft' = [draft EXCEPT !.split = ~@]

\* What is no number counts as 0.
TypeAmount ==
    /\ Typed /\ draft.split
    /\ \E i \in DOMAIN draft.rows, a \in 0..Amount :
         draft' = [draft EXCEPT !.rows[i].amt = a]

\* The picker of a row; without a split there is one, for the first row.
PickCategory ==
    /\ Typed
    /\ \E i \in IF draft.split THEN DOMAIN draft.rows ELSE {1}, c \in Category :
         draft' = [draft EXCEPT !.rows[i].cat = c]

PickMaster ==
    /\ Typed /\ draft.split
    /\ \E c \in Category :
         draft' = [draft EXCEPT !.rows = [i \in DOMAIN @ |-> [@[i] EXCEPT !.cat = c]]]

\* A new row proposes what is missing, which may be negative.
AddRow ==
    /\ Typed /\ draft.split /\ Len(draft.rows) < MaxRows
    /\ draft' = [draft EXCEPT !.rows =
                   Append(@, [amt |-> Amount - Total(@), cat |-> base.parts[1].cat])]

\* Mutant: the last row can be removed.
RemoveAnyRow ==
    /\ Typed /\ draft.split
    /\ \E i \in DOMAIN draft.rows : draft' = [draft EXCEPT !.rows = RemoveAt(@, i)]

RemoveRow ==
    /\ Typed /\ draft.split /\ Len(draft.rows) > 1
    /\ \E i \in DOMAIN draft.rows : draft' = [draft EXCEPT !.rows = RemoveAt(@, i)]

-----------------------------------------------------------------------------
(* Saving.                                                                  *)

Pending == (save.phase # "none" /\ save.attached) \/ (link.phase # "none" /\ link.attached)

\* Mutant: the whole form is sent.
PatchAll == {"tags", "note", "date"}

\* The fields of the patch: tags always, the date unless it is the bank's, the
\* others where they differ from what was shown.
Patch ==
    {"tags"}
    \cup {f \in {"note"} : draft.note # base.note}
    \cup {f \in {"date"} : draft.date # 0}
    \cup {f \in {"cat"} : ~draft.split /\ draft.rows[1].cat # base.parts[1].cat}

\* Mutant: the rows are sent as they are.
FilledNot(rows) == rows

\* What the rows leave over is sent as a row of its own.
Filled(rows) ==
    IF Total(rows) = Amount THEN rows
    ELSE Append(rows, [amt |-> Amount - Total(rows), cat |-> base.parts[1].cat])

\* Bound: one save at a time is on its way, also after the sidebar was closed.
Save ==
    /\ shown
    /\ ~Pending
    /\ save = NoSave
    /\ save' = [phase |-> IF draft.split THEN "split" ELSE "update", attached |-> TRUE,
                fields |-> Patch, vals |-> draft, was |-> base.note,
                rows |-> IF draft.split THEN Filled(draft.rows) ELSE <<>>]
    /\ meddled' = FALSE
    /\ UNCHANGED <<server, listed, shown, base, draft, link, typing>>

\* split_allocation: every allocation is replaced, with what they carried.  Rows
\* with another sum it refuses; SplitsAddUp says that none are sent.
Replaced(rows) == [server EXCEPT !.parts = rows, !.note = 0, !.tags = 0]

SplitStored ==
    /\ save.phase = "split"
    /\ Total(save.rows) = Amount
    /\ server' = Replaced(save.rows)
    /\ save' = [save EXCEPT !.phase = "splitStored"]
    /\ UNCHANGED <<listed, shown, base, draft, link, meddled, typing>>

\* Mutant: the sidebar is done when the split is.
SplitAnsweredCloses ==
    /\ save.phase = "splitStored"
    /\ save' = [save EXCEPT !.phase = "updateStored"]
    /\ UNCHANGED <<server, listed, shown, base, draft, link, meddled, typing>>

\* The callback of mutate: only while the sidebar is mounted does the rest follow.
SplitAnswered ==
    /\ save.phase = "splitStored"
    /\ save' = IF save.attached THEN [save EXCEPT !.phase = "update"] ELSE NoSave
    /\ UNCHANGED <<server, listed, shown, base, draft, link, meddled, typing>>

\* update_transactions: the patch, on the posting and its first allocation.
Patched(posting, fields, vals) ==
    [ note  |-> IF "note" \in fields THEN vals.note ELSE posting.note,
      tags  |-> IF "tags" \in fields THEN vals.tags ELSE posting.tags,
      date  |-> IF "date" \in fields THEN vals.date ELSE posting.date,
      parts |-> IF "cat" \in fields THEN [posting.parts EXCEPT ![1].cat = vals.rows[1].cat]
                ELSE posting.parts ]

UpdateStored ==
    /\ save.phase = "update"
    /\ server' = Patched(server, save.fields, save.vals)
    /\ save' = [save EXCEPT !.phase = "updateStored"]
    /\ UNCHANGED <<listed, shown, base, draft, link, meddled, typing>>

UpdateAnswered ==
    /\ save.phase = "updateStored"
    /\ shown' = (shown /\ ~save.attached)
    /\ save' = NoSave
    /\ link' = IF save.attached THEN Detached(link) ELSE link
    /\ Discards
    /\ UNCHANGED <<server, listed, meddled, typing>>

\* A request, or its answer, is lost: the sidebar stays open with its draft.
SaveLost ==
    /\ save # NoSave
    /\ save' = NoSave
    /\ UNCHANGED <<server, listed, shown, base, draft, link, meddled, typing>>

-----------------------------------------------------------------------------
(* Linking a receipt, and the other members.                                *)

\* The button waits for another link only, not for a save.
Link ==
    /\ shown
    /\ link = NoLink
    /\ typing < MaxTyping
    /\ typing' = typing + 1
    /\ link' = [phase |-> "sent", attached |-> TRUE]
    /\ UNCHANGED <<server, listed, shown, base, draft, save, meddled>>

LinkStored ==
    /\ link.phase = "sent"
    /\ server' = Replaced(Receipt)
    /\ link' = [link EXCEPT !.phase = "stored"]
    /\ meddled' = TRUE
    /\ UNCHANGED <<listed, shown, base, draft, save, typing>>

LinkAnswered ==
    /\ link.phase = "stored"
    /\ shown' = (shown /\ ~link.attached)
    /\ save' = IF link.attached THEN Detached(save) ELSE save
    /\ link' = NoLink
    /\ Discards
    /\ UNCHANGED <<server, listed, meddled, typing>>

\* Another member saves his note, tags or date.
OthersSave ==
    /\ typing < MaxTyping
    /\ typing' = typing + 1
    /\ \E f \in {"note", "tags", "date"} :
         server' = [server EXCEPT ![f] = 2]
    /\ meddled' = TRUE
    /\ UNCHANGED <<listed, shown, base, draft, save, link>>

FormNext ==
    \/ OpenForm \/ ListRead \/ CloseForm
    \/ \E f \in {"note", "tags", "date"} : TypeText(f)
    \/ ToggleSplit \/ TypeAmount \/ PickCategory \/ PickMaster \/ AddRow \/ RemoveRow
    \/ Save \/ SplitStored \/ SplitAnswered \/ UpdateStored \/ UpdateAnswered
    \/ SaveLost \/ Link \/ LinkStored \/ LinkAnswered \/ OthersSave

FormSpec == FormInit /\ [][FormNext]_formVars

-----------------------------------------------------------------------------
(* Properties.                                                              *)

FormRow == [amt: Int, cat: Category]

\* A posting and a draft always have a first row, which the pickers, the patch
\* and the list rely on.
FormTypeOK ==
    /\ \A rows \in {server.parts, listed.parts, base.parts, draft.rows} : rows # <<>>
    /\ \A i \in DOMAIN draft.rows : draft.rows[i] \in FormRow
    /\ {server.note, server.tags, server.date, draft.note, draft.tags, draft.date} \subseteq Text
    /\ save.phase \in {"none", "split", "splitStored", "update", "updateStored"}
    /\ link.phase \in {"none", "sent", "stored"}

\* Whatever was typed into the rows, the split that is sent adds up to the
\* posting, and so do the allocations stored.
SplitsAddUp ==
    /\ Total(server.parts) = Amount
    /\ save.phase = "split" => Total(save.rows) = Amount

\* When the sidebar closes because the save is done, all of the save is stored:
\* the rows as well as the tags, date and note of the second request.
Closes == UpdateAnswered /\ shown /\ ~shown'

SavedWhenClosed ==
    [][ Closes /\ ~meddled =>
          /\ server.tags = save.vals.tags
          /\ save.rows # <<>> => server.parts = save.rows
          /\ save.vals.date # 0 => server.date = save.vals.date
          /\ save.vals.note # save.was => server.note = save.vals.note ]_formVars

\* A note another member has written, before or after the list was read, goes
\* only with a save in which the user has changed the note, or with a split or
\* a linked receipt.  These replace the allocation that held it, and nothing
\* writes it again (NoteFollowsSplit).
OthersNoteStays ==
    [][ server.note = 2 /\ server'.note # 2 =>
          \/ UpdateStored /\ save.vals.note # save.was
          \/ SplitStored
          \/ LinkStored ]_formVars

\* "Apply tags, notes, etc. after splitting" (TransactionDetailsSidebar.tsx:178):
\* the note shown when a split was saved is the posting's note afterwards.
NoteFollowsSplit ==
    [][ Closes /\ ~meddled /\ save.rows # <<>> => server.note = save.vals.note ]_formVars
=============================================================================
