--------------------------- MODULE Screens_proofs ---------------------------
(***************************************************************************)
(* What the pages of the web app guarantee for any files, rows, months,    *)
(* payments, budgets and loans, not those of MCScreens: first what they    *)
(* hold and send, page by page, then what they add up.                     *)
(***************************************************************************)
EXTENDS Screens, Sums

\* Every page but p: nothing is said of it.
On(p, P) == page = p => P

----------------------------------------------------------------------------
(* The upload page.  A preview that arrives is shown only while the page   *)
(* still watches for it, and what it watches for was asked of the file     *)
(* that is picked: the invariant follows that file from the request over   *)
(* the answer to the screen.                                               *)

\* A request and the page have the fields the page reads.
UploadCall(c) ==
    /\ {"kind", "file", "try", "shown", "answer"} \subseteq DOMAIN c
    /\ c.try \in Nat \ {0} /\ c.try <= view.try
UploadView ==
    /\ "rows" \in DOMAIN server
    /\ {"file", "preview", "watching", "try"} \subseteq DOMAIN view
    /\ view.try \in Nat /\ view.watching \in Nat /\ view.watching <= view.try

\* What the server finds of a file names rows of that file.
FoundIn(d, f) == d.file = f /\ d.changed \union d.new \subseteq DOMAIN Files[f].rows
\* The answer of a preview is about its file.
AnsweredOfItsFile(c) == c.kind = "preview" /\ c.answer # None => FoundIn(c.answer, c.file)
\* The preview the page waits for was asked of the file that is picked.
WatchedOfPickedFile(c) == c.kind = "preview" /\ c.try = view.watching => c.file = view.file
ConfirmedAsShown(c) == c.kind = "confirm" => FoundIn(c.shown, c.file)
\* The preview on screen is of the file that is picked.
PreviewOfPickedFile == view.preview # None => FoundIn(view.preview, view.file)

UploadInv ==
    /\ UploadView
    /\ \A c \in calls : /\ UploadCall(c) /\ AnsweredOfItsFile(c)
                        /\ WatchedOfPickedFile(c) /\ ConfirmedAsShown(c)
    /\ PreviewOfPickedFile

\* The page opens with no file and no request.
LEMMA UploadInit == Upload!Init => UploadInv
BY DEF Upload!Init, UploadInv, UploadView, PreviewOfPickedFile

(* The steps of the user: the file, the ticks, the buttons.                *)
LEMMA UploadUserStep ==
    ASSUME UploadInv,
           \/ \E f \in DOMAIN Files : Upload!SelectFile(f) \/ Upload!HeadersRead(f)
           \/ \E i \in DOMAIN Imported : Upload!Toggle(i)
           \/ \E accept \in BOOLEAN : Upload!ToggleAll(accept)
           \/ Upload!Preview \/ Upload!Confirm \/ Upload!Back \/ Upload!Reset
    PROVE  UploadInv'
<1> USE DEF UploadInv, UploadView, UploadCall, AnsweredOfItsFile, WatchedOfPickedFile,
            ConfirmedAsShown, PreviewOfPickedFile, FoundIn
<1>1. ASSUME NEW f, Upload!SelectFile(f) PROVE UploadInv'
  <2>1. /\ view'.file = f /\ view'.preview = None /\ view'.watching = 0
        /\ view'.try = view.try /\ DOMAIN view' = DOMAIN view
    BY <1>1 DEF Upload!SelectFile, Upload!Cleared
  <2>2. calls' = calls /\ server' = server
    BY <1>1 DEF Upload!SelectFile
  <2> QED BY <2>1, <2>2
<1>8. ASSUME NEW f, Upload!HeadersRead(f) PROVE UploadInv'
  BY <1>8 DEF Upload!HeadersRead
<1>2. CASE \E i \in DOMAIN Imported : Upload!Toggle(i)
  BY <1>2 DEF Upload!Toggle
<1>3. CASE \E accept \in BOOLEAN : Upload!ToggleAll(accept)
  BY <1>3 DEF Upload!ToggleAll
<1>4. CASE Upload!Preview
  BY <1>4 DEF Upload!Preview, Upload!Request, Upload!Cleared
<1>5. CASE Upload!Confirm
  <2> DEFINE asked == [Upload!Request("confirm") EXCEPT !.accepted = view.accepted,
                                                         !.shown = view.preview]
  <2>1. /\ calls' = calls \cup {asked}
        /\ view' = [view EXCEPT !.try = @ + 1, !.watching = view.try + 1, !.failed = FALSE]
        /\ view.preview # None /\ server' = server
    BY <1>5 DEF Upload!Confirm, Upload!Shows
  <2>2. /\ {"kind", "file", "try", "shown", "answer"} \subseteq DOMAIN asked
        /\ asked.kind = "confirm" /\ asked.file = view.file /\ asked.try = view.try + 1
        /\ asked.shown = view.preview
    BY DEF Upload!Request
  <2>3. /\ view'.file = view.file /\ view'.preview = view.preview
        /\ view'.watching = view.try + 1 /\ view'.try = view.try + 1
        /\ DOMAIN view' = DOMAIN view
    BY <2>1
  <2> HIDE DEF asked
  <2> QED BY <2>1, <2>2, <2>3
<1>6. CASE Upload!Back
  BY <1>6 DEF Upload!Back, Upload!Cleared
<1>7. CASE Upload!Reset
  BY <1>7 DEF Upload!Reset, Upload!Cleared
<1> QED BY <1>1, <1>2, <1>3, <1>4, <1>5, <1>6, <1>7, <1>8

(* The steps of answers, of the server, and of another tab.                *)
LEMMA UploadServerStep ==
    ASSUME UploadInv,
           \/ \E f \in DOMAIN Files : Upload!Elsewhere(f)
           \/ \E c \in calls : \/ Upload!PreviewArrives(c) \/ Upload!ConfirmArrives(c)
                               \/ Upload!ServerPreviews(c) \/ Upload!ServerImports(c)
                               \/ Upload!ServerRefuses(c)
    PROVE  UploadInv'
<1> USE DEF UploadInv, UploadView, UploadCall, AnsweredOfItsFile, WatchedOfPickedFile,
            ConfirmedAsShown, PreviewOfPickedFile, FoundIn
<1>1. CASE \E f \in DOMAIN Files : Upload!Elsewhere(f)
  BY <1>1 DEF Upload!Elsewhere
<1>2. ASSUME NEW c \in calls, Upload!PreviewArrives(c) PROVE UploadInv'
  BY <1>2 DEF Upload!PreviewArrives
<1>3. ASSUME NEW c \in calls, Upload!ConfirmArrives(c) PROVE UploadInv'
  BY <1>3 DEF Upload!ConfirmArrives
<1>4. ASSUME NEW c \in calls, Upload!ServerPreviews(c) PROVE UploadInv'
  BY <1>4 DEF Upload!ServerPreviews, Upload!Diff
<1>5. ASSUME NEW c \in calls, Upload!ServerImports(c) PROVE UploadInv'
  BY <1>5 DEF Upload!ServerImports
<1>6. ASSUME NEW c \in calls, Upload!ServerRefuses(c) PROVE UploadInv'
  BY <1>6 DEF Upload!ServerRefuses
<1> QED BY <1>1, <1>2, <1>3, <1>4, <1>5, <1>6

\* Every step of the upload page keeps its invariant.
LEMMA UploadStep == UploadInv /\ Upload!Next => UploadInv'
BY UploadUserStep, UploadServerStep DEF Upload!Next

\* So it holds whenever that page is open.
LEMMA UploadInvariant == Spec => []On("upload", UploadInv)
<1> DEFINE Inv == On("upload", UploadInv)
<1>1. Init => Inv
  BY UploadInit DEF Init, On
<1>2. Inv /\ [Next]_vars => Inv'
  <2> SUFFICES ASSUME Inv, page = "upload", [Next]_vars PROVE On("upload", UploadInv)'
    BY DEF Next, On, vars
  <2>1. page' = page
    BY DEF Next, vars
  <2>2. CASE Upload!Next
    BY <2>2, UploadStep DEF On
  <2>3. CASE UNCHANGED vars
    BY <2>3 DEF vars, On, UploadInv, UploadView, UploadCall, AnsweredOfItsFile,
                WatchedOfPickedFile, ConfirmedAsShown, PreviewOfPickedFile, FoundIn
  <2> QED BY <2>1, <2>2, <2>3 DEF Next
<1> QED BY <1>1, <1>2, PTL DEF Spec

(* The file imported is the one whose preview is on screen; which of its     *)
(* changes are ticked is not part of it (UploadPage.tsx).                    *)
THEOREM ShownIsConfirmed == Spec => []ConfirmsWhatWasShown
<1>1. On("upload", UploadInv) => ConfirmsWhatWasShown
  BY DEF On, UploadInv, ConfirmedAsShown, FoundIn, ConfirmsWhatWasShown,
         Upload!ConfirmsWhatWasShown
<1> QED BY <1>1, UploadInvariant, PTL

(* A changed row that the confirmation does not accept keeps its version     *)
(* through the import, and no new row is left out of it (UploadPage.tsx,     *)
(* upload_csv.py).                                                           *)
THEOREM RejectedRowsKept == Spec => RejectedKeepsItsVersion
<1>1. ASSUME On("upload", UploadInv), page = "upload" PROVE Upload!KeepsRejected
  <2> SUFFICES ASSUME NEW c \in calls, c.kind = "confirm", Upload!ServerImports(c)
               PROVE  /\ \A i \in c.shown.changed \ c.accepted :
                            i \in DOMAIN server.rows => server'.rows[i] = server.rows[i]
                      /\ \A i \in c.shown.new : i \in DOMAIN server'.rows
    BY DEF Upload!KeepsRejected
  <2>1. c.shown.changed \union c.shown.new \subseteq DOMAIN Files[c.file].rows
    BY <1>1 DEF On, UploadInv, ConfirmedAsShown, FoundIn
  <2>2. server'.rows = Upload!Merged(c.file, server.rows, c.accepted)
    BY <1>1 DEF Upload!ServerImports, On, UploadInv, UploadView
  <2> QED BY <2>1, <2>2 DEF Upload!Merged
<1>2. On("upload", UploadInv) /\ [Next]_vars => [page = "upload" => Upload!KeepsRejected]_vars
  BY <1>1
<1> QED BY <1>2, UploadInvariant, PTL DEF Spec, RejectedKeepsItsVersion

----------------------------------------------------------------------------
(* The row editor.  What may be sent depends on the row on screen, what is *)
(* accepted on the row as it is stored; a request names fields of the form *)
(* only, so no save changes the kind of a row.                             *)
EditorRow ==
    /\ {"row", "locked", "elsewhere"} \subseteq DOMAIN server
    /\ {"amount", "notes", "split", "shares", "joint", "original"} \subseteq DOMAIN server.row
    /\ server.row.joint \in BOOLEAN
EditorInv ==
    /\ EditorRow
    /\ Editor!SplitFitsRow
    /\ \A c \in calls : c.fields \subseteq Editor!Fields

\* The editor opens with the rows as stored and no draft.
LEMMA EditorInit == Editor!Init => EditorInv
<1> SUFFICES ASSUME Editor!Init PROVE EditorInv
  OBVIOUS
<1> DEFINE row == [amount |-> 0, notes |-> 0, split |-> 0, shares |-> 0, joint |-> FALSE,
                   original |-> None]
<1>1. server = [row |-> row, locked |-> FALSE, elsewhere |-> 0] /\ calls = {}
  BY DEF Editor!Init
<1>2. /\ {"amount", "notes", "split", "shares", "joint", "original"} \subseteq DOMAIN row
      /\ row.joint = FALSE /\ row.shares = 0
  OBVIOUS
<1> HIDE DEF row
<1>3. server.row = row /\ {"row", "locked", "elsewhere"} \subseteq DOMAIN server
  BY <1>1
<1> QED BY <1>1, <1>2, <1>3 DEF EditorInv, EditorRow, Editor!SplitFitsRow

(* A save of allowed fields keeps the row's kind, the split its kind has   *)
(* not, and the amount it was imported with.                               *)
LEMMA EditorWritten ==
    ASSUME EditorInv, NEW c, c.fields \subseteq Editor!Fields,
           Editor!Allowed(server.row, c.fields),
           NEW new, new = Editor!Written(server.row, c)
    PROVE  /\ DOMAIN new = DOMAIN server.row /\ new.joint = server.row.joint
           /\ new.joint => new.split = server.row.split
           /\ ~new.joint => new.shares = server.row.shares
           /\ server.row.original # None => new.original = server.row.original
<1> DEFINE saved == [f \in DOMAIN server.row |->
                        IF f \in c.fields THEN c.values[f] ELSE server.row[f]]
<1>1. new = [saved EXCEPT !.original = Editor!Original(server.row, saved)]
  BY DEF Editor!Written
<1>2. DOMAIN saved = DOMAIN server.row
  OBVIOUS
<1>3. saved.joint = server.row.joint
  BY DEF EditorInv, EditorRow, Editor!Fields
<1>4. /\ server.row.joint => saved.split = server.row.split
      /\ ~server.row.joint => saved.shares = server.row.shares
  BY DEF Editor!Allowed, EditorInv, EditorRow
<1>5. server.row.original # None =>
          Editor!Original(server.row, saved) = server.row.original
  BY DEF Editor!Original
<1> HIDE DEF saved
<1> QED BY <1>1, <1>2, <1>3, <1>4, <1>5 DEF EditorInv, EditorRow

(* What a step of the editor or of the partner does to the stored row.     *)
LEMMA EditorStep ==
    ASSUME EditorInv, Editor!Next
    PROVE  EditorInv' /\ Editor!KeepsOriginal
<1>1. CASE UNCHANGED <<server, calls>>
  BY <1>1 DEF EditorInv, EditorRow, Editor!SplitFitsRow, Editor!KeepsOriginal, Editor!Fields
<1>2. CASE Editor!Save
  BY <1>2 DEF Editor!Save, Editor!Sent, Editor!Differing, Editor!Fields,
              EditorInv, EditorRow, Editor!SplitFitsRow, Editor!KeepsOriginal
<1>3. ASSUME NEW c \in calls, Editor!Refuse(c) PROVE EditorInv' /\ Editor!KeepsOriginal
  BY <1>3 DEF Editor!Refuse, EditorInv, EditorRow, Editor!SplitFitsRow, Editor!KeepsOriginal,
              Editor!Fields
<1>4. ASSUME NEW new, server'.row = new, DOMAIN server' = DOMAIN server, calls' \subseteq calls,
             /\ DOMAIN new = DOMAIN server.row /\ new.joint = server.row.joint
             /\ new.joint => new.split = server.row.split
             /\ ~new.joint => new.shares = server.row.shares
             /\ server.row.original # None => new.original = server.row.original
      PROVE  EditorInv' /\ Editor!KeepsOriginal
  BY <1>4 DEF EditorInv, EditorRow, Editor!SplitFitsRow, Editor!KeepsOriginal, Editor!Fields
<1>5. ASSUME NEW c \in calls, Editor!Accept(c) PROVE EditorInv' /\ Editor!KeepsOriginal
  <2>1. /\ server'.row = Editor!Written(server.row, c) /\ DOMAIN server' = DOMAIN server
        /\ calls' \subseteq calls /\ c.fields \subseteq Editor!Fields
        /\ Editor!Allowed(server.row, c.fields)
    BY <1>5 DEF Editor!Accept, EditorInv, EditorRow
  <2> QED BY <2>1, <1>4, EditorWritten
<1>6. ASSUME NEW f \in Editor!Fields, NEW v \in Typed, Editor!PartnerEdits(f, v)
      PROVE  EditorInv' /\ Editor!KeepsOriginal
  <2> DEFINE edit == [fields |-> {f}, values |-> [g \in Editor!Fields |-> v]]
  <2>1. /\ server'.row = Editor!Written(server.row, edit) /\ DOMAIN server' = DOMAIN server
        /\ calls' = calls
        /\ Editor!Allowed(server.row, edit.fields) /\ edit.fields \subseteq Editor!Fields
    BY <1>6 DEF Editor!PartnerEdits, Editor!Elsewhere, EditorInv, EditorRow
  <2> HIDE DEF edit
  <2> QED BY <2>1, <1>4, EditorWritten
<1>7. CASE Editor!AccountFlips
  <2>1. /\ server'.row.joint = ~server.row.joint /\ server'.row.original = server.row.original
        /\ server'.row.split = server.row.shares /\ server'.row.shares = server.row.split
        /\ DOMAIN server' = DOMAIN server /\ DOMAIN server'.row = DOMAIN server.row
        /\ calls' = calls
    BY <1>7 DEF Editor!AccountFlips, Editor!Elsewhere, EditorInv, EditorRow
  <2> QED BY <2>1 DEF EditorInv, EditorRow, Editor!SplitFitsRow, Editor!KeepsOriginal,
                      Editor!Fields
<1>8. CASE Editor!MonthFlips
  <2>1. server'.row = server.row /\ DOMAIN server' = DOMAIN server /\ calls' = calls
    BY <1>8 DEF Editor!MonthFlips, Editor!Elsewhere, EditorInv, EditorRow
  <2> QED BY <2>1 DEF EditorInv, EditorRow, Editor!SplitFitsRow, Editor!KeepsOriginal,
                      Editor!Fields
<1>9. \/ UNCHANGED <<server, calls>> \/ Editor!Save \/ Editor!AccountFlips \/ Editor!MonthFlips
      \/ \E f \in Editor!Fields, v \in Typed : Editor!PartnerEdits(f, v)
      \/ \E c \in calls : Editor!Accept(c) \/ Editor!Refuse(c)
  BY DEF Editor!Next, Editor!Toggle, Editor!Cancel, Editor!Filter, Editor!TickExpires,
         Editor!Poll, Editor!Type
<1> QED BY <1>1, <1>2, <1>3, <1>5, <1>6, <1>7, <1>8, <1>9

\* So it holds whenever the editor is open.
LEMMA EditorInvariant == Spec => []On("editor", EditorInv)
<1> DEFINE Inv == On("editor", EditorInv)
<1>1. Init => Inv
  BY EditorInit DEF Init, On
<1>2. Inv /\ [Next]_vars => Inv'
  <2> SUFFICES ASSUME Inv, page = "editor", [Next]_vars PROVE On("editor", EditorInv)'
    BY DEF Next, On, vars
  <2>1. CASE Editor!Next
    BY <2>1, EditorStep DEF On
  <2>2. CASE UNCHANGED vars
    BY <2>2 DEF vars, On, EditorInv, EditorRow, Editor!SplitFitsRow, Editor!Fields
  <2> QED BY <2>1, <2>2 DEF Next
<1> QED BY <1>1, <1>2, PTL DEF Spec

(* A row has the split of its kind only (TransactionEditor.tsx,              *)
(* bulk_update_transactions.py).                                             *)
THEOREM SplitAlwaysFits == Spec => []SplitFitsRow
<1>1. On("editor", EditorInv) => SplitFitsRow
  BY DEF On, EditorInv, SplitFitsRow
<1> QED BY <1>1, EditorInvariant, PTL

(* The amount a row was imported with survives any number of edits           *)
(* (bulk_update_transactions.py).                                            *)
THEOREM OriginalNeverLost == Spec => OriginalKept
<1>1. On("editor", EditorInv) /\ [Next]_vars => [page = "editor" => Editor!KeepsOriginal]_vars
  BY EditorStep DEF On, Next
<1> QED BY <1>1, EditorInvariant, PTL DEF Spec, OriginalKept

----------------------------------------------------------------------------
(* The house page.  The server reads, checks and writes one request at a   *)
(* time, so what a request has in hand is still what is stored when it     *)
(* writes: the row it checked pays nothing else, the obligation it names   *)
(* is the one with that id.                                                *)

HouseTypes ==
    /\ {"obligations", "loans", "next", "elsewhere"} \subseteq DOMAIN server
    /\ server.next \in Nat
    /\ \A o \in server.obligations : /\ {"id", "due", "for", "paid"} \subseteq DOMAIN o
                                     /\ o.id \in Nat /\ o.id < server.next
    /\ \A o, x \in server.obligations : o.id = x.id => o = x

\* A request that has read still has what it read.
HeldMark(c) ==
    c.kind = "mark" =>
        /\ c.read = House!Named(c)
        /\ c.row # None => c.row \notin House!PaidByOthers(server.obligations, c.id)
HeldEdit(c) == c.kind = "edit" => c.read = House!Named(c)
HeldAdd(c) == c.kind = "add" => \A m, n \in c.read : m = n
HouseCalls ==
    /\ \A c \in calls : "read" \in DOMAIN c
    /\ \A c, d \in calls : c.read # None /\ d.read # None => c = d
    /\ \A c \in calls : c.read # None => HeldMark(c) /\ HeldEdit(c) /\ HeldAdd(c)

HouseInv == HouseTypes /\ House!RowPaysOne /\ HouseCalls

\* The house page opens with the loans as saved.
LEMMA HouseInit == House!Init => HouseInv
<1> SUFFICES ASSUME House!Init PROVE HouseInv
  OBVIOUS
<1>1. /\ {"obligations", "loans", "next", "elsewhere"} \subseteq DOMAIN server
      /\ server.next = 3 /\ server.obligations = {House!Bill(1), House!Bill(2)} /\ calls = {}
  BY DEF House!Init
<1>2. \A i \in {1, 2} : /\ {"id", "due", "for", "paid"} \subseteq DOMAIN House!Bill(i)
                        /\ House!Bill(i).id = i /\ House!Bill(i).paid = None
  BY DEF House!Bill
<1>3. HouseTypes
  BY <1>1, <1>2 DEF HouseTypes
<1> QED BY <1>1, <1>2, <1>3 DEF HouseInv, House!RowPaysOne, HouseCalls

\* The page's own steps and the requests that are sent: nothing is stored,
\* and a request that was just sent has read nothing.
LEMMA HouseQuiet ==
    ASSUME HouseInv,
           DOMAIN server' = DOMAIN server, server'.obligations = server.obligations,
           server'.next = server.next,
           \A c \in calls' : c \in calls \/ (c.read = None /\ "read" \in DOMAIN c)
    PROVE  HouseInv'
BY DEF HouseInv, HouseTypes, House!RowPaysOne, HouseCalls, HeldMark, HeldEdit, HeldAdd,
       House!Named, House!PaidByOthers

\* A loan has one next due month at most.
LEMMA NextDueIsOne == \A l : \A m, n \in House!OpenDue(l) : m = n
BY DuesAreMonths DEF House!OpenDue

\* What a request reads is what the server stores.
LEMMA HouseRead ==
    ASSUME HouseInv, NEW c \in calls, House!Read(c) PROVE HouseInv'
<1> DEFINE held == [c EXCEPT !.read = House!Found(c)]
<1>1. /\ held.read = House!Found(c) /\ held.kind = c.kind /\ held.id = c.id /\ held.row = c.row
      /\ "read" \in DOMAIN held
  BY DEF HouseInv, HouseCalls
<1>2. calls' = (calls \ {c}) \cup {held} /\ server' = server /\ House!Accepts(c)
  BY DEF House!Read
<1>3. \A d \in calls : d.read = None
  BY DEF House!Read
<1> HIDE DEF held
<1>4. House!Named(held) = House!Named(c)
  BY <1>1 DEF House!Named
<1>5. HeldMark(held)
  BY <1>1, <1>2, <1>4 DEF HeldMark, House!Found, House!Accepts
<1>6. HeldEdit(held)
  BY <1>1, <1>4 DEF HeldEdit, House!Found
<1>7. HeldAdd(held)
  <2> SUFFICES ASSUME c.kind = "add" PROVE House!Found(c) = House!OpenDue(c.loan)
    BY <1>1, NextDueIsOne DEF HeldAdd
  <2> QED BY DEF House!Found
<1>8. HouseTypes' /\ House!RowPaysOne'
  BY <1>2 DEF HouseInv, HouseTypes, House!RowPaysOne
<1>9. HouseCalls'
  BY <1>1, <1>2, <1>3, <1>5, <1>6, <1>7
     DEF HouseInv, HouseCalls, HeldMark, HeldEdit, HeldAdd, House!Named, House!PaidByOthers
<1> QED BY <1>8, <1>9 DEF HouseInv

(* What a request in hand leaves stored: unique ids, and one obligation a  *)
(* row.                                                                    *)
Stored(c) ==
    /\ \A o \in House!Saved(c) : /\ {"id", "due", "for", "paid"} \subseteq DOMAIN o
                                 /\ o.id \in Nat
                                 /\ o.id < (IF c.kind \in {"record", "add"} THEN server.next + 1
                                            ELSE server.next)
    /\ \A o, x \in House!Saved(c) : o.id = x.id => o = x
    /\ \A o, x \in House!Saved(c) : o.paid # None /\ o.paid = x.paid => o = x

\* A request that has read is about something stored.
LEMMA HouseSaved == ASSUME HouseInv, NEW c \in calls, c.read # None PROVE Stored(c)
<1> USE DEF HouseInv, HouseTypes, House!RowPaysOne
<1>1. CASE c.kind = "record"
  <2> DEFINE new == [id |-> server.next, due |-> c.due, for |-> c.for, paid |-> None]
  <2>1. House!Saved(c) = server.obligations \cup {new}
    BY <1>1 DEF House!Saved
  <2>2. /\ {"id", "due", "for", "paid"} \subseteq DOMAIN new
        /\ new.id = server.next /\ new.paid = None
    OBVIOUS
  <2> HIDE DEF new
  <2> QED BY <2>1, <2>2, <1>1 DEF Stored
<1>2. CASE c.kind = "add"
  <2> DEFINE new(m) == [id |-> server.next, due |-> m,
                        for |-> [loan |-> c.loan, kind |-> "loan_payment"], paid |-> None]
  <2>1. House!Saved(c) = server.obligations \cup {new(m) : m \in c.read}
    BY <1>2 DEF House!Saved
  <2>2. \A m : /\ {"id", "due", "for", "paid"} \subseteq DOMAIN new(m)
               /\ new(m).id = server.next /\ new(m).paid = None
    OBVIOUS
  <2>3. \A m, n \in c.read : m = n
    BY <1>2 DEF HouseCalls, HeldAdd
  <2> HIDE DEF new
  <2> QED BY <2>1, <2>2, <2>3, <1>2 DEF Stored
<1>3. CASE c.kind = "edit"
  <2> DEFINE without == {o \in server.obligations : o.id # c.id}
             edited(o) == [o EXCEPT !.due = c.due, !.for = c.for]
  <2>1. House!Saved(c) = without \cup {edited(o) : o \in c.read}
    BY <1>3 DEF House!Saved
  <2>2. \A o \in server.obligations :
            DOMAIN edited(o) = DOMAIN o /\ edited(o).id = o.id /\ edited(o).paid = o.paid
    OBVIOUS
  <2>3. c.read = {o \in server.obligations : o.id = c.id}
    BY <1>3 DEF HouseCalls, HeldEdit, House!Named
  <2> HIDE DEF edited
  <2> QED BY <2>1, <2>2, <2>3, <1>3 DEF Stored
<1>4. CASE c.kind = "mark"
  <2> DEFINE without == {o \in server.obligations : o.id # c.id}
             marked(o) == [o EXCEPT !.paid = c.row]
  <2>1. House!Saved(c) = without \cup {marked(o) : o \in c.read}
    BY <1>4 DEF House!Saved
  <2>2. \A o \in server.obligations :
            DOMAIN marked(o) = DOMAIN o /\ marked(o).id = o.id /\ marked(o).paid = c.row
    OBVIOUS
  <2>3. /\ c.read = {o \in server.obligations : o.id = c.id}
        /\ c.row # None => \A o \in without : o.paid # c.row
    BY <1>4 DEF HouseCalls, HeldMark, House!Named, House!PaidByOthers
  <2> HIDE DEF marked
  <2> QED BY <2>1, <2>2, <2>3, <1>4 DEF Stored
<1>5. CASE c.kind \notin {"record", "add", "edit", "mark"}
  <2>1. House!Saved(c) \subseteq server.obligations
    <3>1. CASE c.kind = "delete"
      BY <3>1 DEF House!Saved
    <3>2. CASE c.kind \in {"close", "replace"}
      BY <3>2 DEF House!Saved
    <3>3. CASE c.kind \notin {"delete", "close", "replace"}
      BY <1>5, <3>3 DEF House!Saved
    <3> QED BY <3>1, <3>2, <3>3
  <2> QED BY <2>1, <1>5 DEF Stored
<1> QED BY <1>1, <1>2, <1>3, <1>4, <1>5

\* A write, after which no other request has read.
LEMMA HouseWrite == ASSUME HouseInv, NEW c \in calls, House!Write(c) PROVE HouseInv'
<1>1. /\ c.read # None /\ calls' = calls \ {c} /\ DOMAIN server' = DOMAIN server
      /\ server'.obligations = House!Saved(c)
      /\ server'.next = IF c.kind \in {"record", "add"} THEN server.next + 1 ELSE server.next
  BY DEF House!Write, House!Answer, HouseInv, HouseTypes
<1>2. Stored(c)
  BY <1>1, HouseSaved
<1>3. \A d \in calls' : d \in calls /\ d.read = None
  BY <1>1 DEF HouseInv, HouseCalls
<1>4. HouseTypes' /\ House!RowPaysOne'
  BY <1>1, <1>2 DEF Stored, HouseInv, HouseTypes, House!RowPaysOne
<1>5. HouseCalls'
  BY <1>3 DEF HouseInv, HouseCalls
<1> QED BY <1>4, <1>5 DEF HouseInv

\* Every step of the house page keeps its invariant.
LEMMA HouseStep == HouseInv /\ House!Next => HouseInv'
<1> SUFFICES ASSUME HouseInv, House!Next PROVE HouseInv'
  OBVIOUS
<1>1. CASE UNCHANGED <<server, calls>>
  BY <1>1, HouseQuiet
<1>2. ASSUME NEW call, NEW new, House!Send(call, new) PROVE HouseInv'
  BY <1>2, HouseQuiet DEF House!Send, House!Request
<1>3. ASSUME NEW call, House!PartnerSends(call) PROVE HouseInv'
  <2>1. /\ DOMAIN server' = DOMAIN server /\ server'.obligations = server.obligations
        /\ server'.next = server.next
    BY <1>3 DEF House!PartnerSends, HouseInv, HouseTypes
  <2> QED BY <1>3, <2>1, HouseQuiet DEF House!PartnerSends, House!Request
<1>4. ASSUME NEW c \in calls, House!Refuse(c) PROVE HouseInv'
  BY <1>4, HouseQuiet DEF House!Refuse, House!Answer
<1>5. \/ UNCHANGED <<server, calls>>
      \/ \E call, new : House!Send(call, new)
      \/ \E call : House!PartnerSends(call)
      \/ \E c \in calls : House!Read(c) \/ House!Write(c) \/ House!Refuse(c)
  BY DEF House!Next, House!Arrive, House!Record, House!Close, House!FindRows, House!Submit,
         House!Edit, House!MarkPaid, House!Delete, House!Unmark, House!AddPayments,
         House!LoanAction, House!PickMonth, House!Draft, House!PickRow, House!OpenDialog,
         House!Change
<1> QED BY <1>1, <1>2, <1>3, <1>4, <1>5, HouseRead, HouseWrite

\* So it holds whenever that page is open.
LEMMA HouseInvariant == Spec => []On("house", HouseInv)
<1> DEFINE Inv == On("house", HouseInv)
<1>1. Init => Inv
  BY HouseInit DEF Init, On
<1>2. Inv /\ [Next]_vars => Inv'
  <2> SUFFICES ASSUME Inv, page = "house", [Next]_vars PROVE On("house", HouseInv)'
    BY DEF Next, On, vars
  <2>1. CASE House!Next
    BY <2>1, HouseStep DEF On
  <2>2. CASE UNCHANGED vars
    BY <2>2, HouseQuiet DEF vars, On
  <2> QED BY <2>1, <2>2 DEF Next
<1> QED BY <1>1, <1>2, PTL DEF Spec

(* A bank row pays one obligation at most, when requests do not overlap      *)
(* (mark_obligation_paid.py, domain/obligations.py).                         *)
THEOREM RowsPayOnce == Spec => []RowPaysOne
<1>1. On("house", HouseInv) => RowPaysOne
  BY DEF On, HouseInv, RowPaysOne
<1> QED BY <1>1, HouseInvariant, PTL

\* Cardinality in the editor's module is that of FiniteSets.
LEMMA EditorCardinality == \A S : Editor!Cardinality(S) = Cardinality(S)
BY DEF Editor!Cardinality, Cardinality

\* A draft belongs to an open row and has every field of the form.
DraftIsOpen ==
    /\ {"row", "locked", "shown", "open", "draft", "saving", "saved", "try"} \subseteq DOMAIN view
    /\ view.shown \in BOOLEAN /\ view.open \in BOOLEAN
    /\ view.draft # None => view.open
    /\ view.open /\ view.shown => DOMAIN view.draft = Editor!Fields

(* What a step of the page, of an answer or of the partner does to a draft. *)
LEMMA DraftStep ==
    ASSUME DraftIsOpen, Editor!Next
    PROVE  DraftIsOpen' /\ Editor!KeepsDraft
<1> USE DEF DraftIsOpen, Editor!KeepsDraft
<1>1. CASE Editor!Toggle
  <2>1. DOMAIN Editor!DraftOf(view.row) = Editor!Fields
    BY DEF Editor!DraftOf
  <2>2. /\ DOMAIN view' = DOMAIN view /\ view'.shown = view.shown /\ view'.open = ~view.open
        /\ view'.draft = IF view.open THEN None ELSE Editor!DraftOf(view.row)
    BY <1>1 DEF Editor!Toggle
  <2> QED BY <2>1, <2>2
<1>2. CASE Editor!Filter
  <2>1. DOMAIN Editor!DraftOf(view.row) = Editor!Fields
    BY DEF Editor!DraftOf
  <2>2. /\ DOMAIN view' = DOMAIN view /\ view'.shown = ~view.shown /\ view'.open = view.open
        /\ view'.draft = IF view.open /\ ~view.shown THEN Editor!DraftOf(view.row) ELSE None
    BY <1>2 DEF Editor!Filter
  <2> QED BY <2>1, <2>2
<1>3. CASE Editor!Cancel \/ Editor!Save
  <2>1. DOMAIN view' = DOMAIN view /\ view'.shown = view.shown /\ view'.open = FALSE
        /\ view'.draft = None
    BY <1>3 DEF Editor!Cancel, Editor!Save
  <2> QED BY <2>1
<1>4. ASSUME NEW f \in Editor!Fields, NEW v, Editor!Type(f, v)
      PROVE  DraftIsOpen' /\ Editor!KeepsDraft
  <2>1. /\ DOMAIN view' = DOMAIN view /\ view'.shown = view.shown /\ view'.open = view.open
        /\ view'.draft = [view.draft EXCEPT ![f] = v] /\ view'.row = view.row
        /\ view.draft[f] # v /\ server' = server /\ view.open /\ view.shown
    BY <1>4 DEF Editor!Type
  <2>2. ASSUME view.draft # None
        PROVE  {g \in Editor!Fields : view'.draft[g] # view.draft[g]} = {f}
    BY <2>1, <2>2
  <2>3. DOMAIN view'.draft = DOMAIN view.draft
    BY <2>1
  <2> QED BY <2>1, <2>2, <2>3, FS_Singleton, EditorCardinality
<1>5. ASSUME DOMAIN view' = DOMAIN view, view'.shown = view.shown, view'.open = view.open,
             view'.draft = view.draft
      PROVE  DraftIsOpen' /\ Editor!KeepsDraft
  BY <1>5
<1>6. CASE Editor!TickExpires \/ Editor!Poll
  BY <1>5, <1>6 DEF Editor!TickExpires, Editor!Poll, Editor!Polled
<1>7. ASSUME NEW c \in calls, Editor!Accept(c) \/ Editor!Refuse(c)
      PROVE  DraftIsOpen' /\ Editor!KeepsDraft
  BY <1>5, <1>7 DEF Editor!Accept, Editor!Refuse
<1>8. CASE UNCHANGED view
  BY <1>5, <1>8
<1>9. \/ Editor!Toggle \/ Editor!Filter \/ Editor!Cancel \/ Editor!Save
      \/ \E f \in Editor!Fields, v \in Typed : Editor!Type(f, v)
      \/ Editor!TickExpires \/ Editor!Poll \/ UNCHANGED view
      \/ \E c \in calls : Editor!Accept(c) \/ Editor!Refuse(c)
  BY DEF Editor!Next, Editor!PartnerEdits, Editor!AccountFlips, Editor!MonthFlips,
         Editor!Elsewhere
<1> QED BY <1>1, <1>2, <1>3, <1>4, <1>6, <1>7, <1>8, <1>9

\* A draft is always of an open row.
LEMMA DraftInvariant == Spec => []On("editor", DraftIsOpen)
<1> DEFINE Inv == On("editor", DraftIsOpen)
<1>1. Init => Inv
  <2>1. Editor!Init => DraftIsOpen
    BY DEF Editor!Init, DraftIsOpen
  <2> QED BY <2>1 DEF Init, On
<1>2. Inv /\ [Next]_vars => Inv'
  <2> SUFFICES ASSUME Inv, page = "editor", [Next]_vars PROVE On("editor", DraftIsOpen)'
    BY DEF Next, On, vars
  <2>1. CASE Editor!Next
    BY <2>1, DraftStep DEF On
  <2>2. CASE UNCHANGED vars
    BY <2>2 DEF vars, On, DraftIsOpen
  <2> QED BY <2>1, <2>2 DEF Next
<1> QED BY <1>1, <1>2, PTL DEF Spec

(* What is being typed survives the poll, a refused save and every change    *)
(* made elsewhere (TransactionEditor.tsx, the draft).                        *)
THEOREM DraftsSurvive == Spec => DraftSurvives
<1>1. On("editor", DraftIsOpen) /\ [Next]_vars => [page = "editor" => Editor!KeepsDraft]_vars
  BY DraftStep DEF On, Next
<1> QED BY <1>1, DraftInvariant, PTL DEF Spec, DraftSurvives

----------------------------------------------------------------------------
(* The filters of the Transactions page.  Without a pill and without the   *)
(* settlement chip every filter is at its default, and the defaults keep   *)
(* every row: this holds of any URL, so it takes no invariant.             *)
LEMMA NoPillsNoFilter ==
    ASSUME Filters!Pills = {}, ~Filters!Filters.settlement
    PROVE  Filters!Filtered(server, Filters!Filters, Me) = server
<1> DEFINE f == Filters!Filters
           default == Filters!Decode(Filters!NoParams)
           on == Filters!Active(view.url)
           single == {"scope", "query", "hasNotes", "discuss", "unassigned"}
           many == {"payers", "categories", "tags"}
           range == {"minAmount", "maxAmount"}
<1>1. Filters!FlagPills(on) = {} /\ Filters!ValuePills = {} /\ Filters!AmountPills(on) = {}
  BY DEF Filters!Pills
<1> HIDE DEF f, default, on
<1>2. ASSUME NEW n \in on, n \in single \cup range PROVE FALSE
  <2>1. CASE n \in single
    <3>1. <<n, n>> \in Filters!FlagPills(on)
      BY <1>2, <2>1 DEF Filters!FlagPills
    <3> QED BY <1>1, <3>1
  <2>2. CASE n \in range
    <3>1. <<"amounts", "range">> \in Filters!AmountPills(on)
      BY <1>2, <2>2 DEF Filters!AmountPills
    <3> QED BY <1>1, <3>1
  <2> QED BY <1>2, <2>1, <2>2
<1>3. ASSUME NEW n \in many, NEW v \in f[n] PROVE FALSE
  <2>1. <<n, v>> \in Filters!ValuePills
    BY DEF Filters!ValuePills, f
  <2> QED BY <1>1, <2>1
<1>4. f.payers = {} /\ f.categories = {} /\ f.tags = {}
  BY <1>3
<1>5. single \cup range \subseteq Filters!FilterNames
  BY DEF Filters!FilterNames, Filters!NoParams
<1>6. \A n \in single \cup range : f[n] = default[n]
  <2>1. on = {n \in Filters!FilterNames : f[n] # default[n]}
    BY DEF on, f, default, Filters!Active, Filters!Filters
  <2> QED BY <1>2, <1>5, <2>1
<1>7. /\ default.scope = "all" /\ default.query = "" /\ default.hasNotes = FALSE
      /\ default.discuss = FALSE /\ default.unassigned = FALSE
      /\ default.minAmount = {} /\ default.maxAmount = {}
  BY DEF default, Filters!Decode, Filters!NoParams, Filters!ParseScope, Filters!Scopes,
         Filters!ParseAmount
<1>8. /\ f.scope = "all" /\ f.query = "" /\ f.hasNotes = FALSE
      /\ f.discuss = FALSE /\ f.unassigned = FALSE /\ f.minAmount = {} /\ f.maxAmount = {}
  BY <1>6, <1>7
<1>9. ~f.settlement
  BY DEF f
<1>10. \A r : Filters!Matches(r, f, Me)
  BY <1>4, <1>8, <1>9 DEF Filters!Matches, Filters!InScope
<1>11. Filters!Filtered(server, f, Me) = server
  BY <1>10 DEF Filters!Filtered
<1> QED BY <1>11 DEF f

(* A row is hidden only by a filter the page shows as active: a URL it does  *)
(* not understand hides nothing (transaction-filters.ts, decode).            *)
THEOREM NothingHidden == Spec => []NothingHiddenSilently
<1>1. NothingHiddenSilently
  BY NoPillsNoFilter DEF NothingHiddenSilently, Filters!NothingHiddenSilently
<1> QED BY <1>1, PTL

----------------------------------------------------------------------------
(* Bulk editing.  A request of an apply whose success is shown is carried  *)
(* out and stays so, because no further apply starts while the message     *)
(* stands.                                                                 *)
BulkCall(c) == {"apply", "kind", "parts", "ids", "phase", "read", "answered", "joint"} \subseteq DOMAIN c
BulkView ==
    {"data", "finalized", "visible", "bulk", "selected", "step", "draft", "result", "applies",
     "shownOf"} \subseteq DOMAIN view
BulkInv ==
    /\ BulkView
    /\ \A c \in calls : BulkCall(c)
    /\ Bulk!MessageAfterAll /\ Bulk!JointPartsOnJointRows

\* What the server or an answer changes of a request: neither its apply nor
\* its parts, and nothing undoes what was done.
Advanced(c, d) ==
    /\ DOMAIN d = DOMAIN c /\ d.apply = c.apply /\ d.parts = c.parts /\ d.ids = c.ids
    /\ d.joint = c.joint
    /\ c.phase = "done" => d.phase = "done"

\* A request that gets on with what it carries keeps the invariant.
LEMMA BulkAdvance ==
    ASSUME BulkInv, NEW c \in calls, NEW d, Advanced(c, d),
           calls' = (calls \ {c}) \cup {d},
           BulkView', view'.result = view.result, view'.shownOf = view.shownOf
    PROVE  BulkInv'
BY DEF BulkInv, BulkCall, Advanced, Bulk!MessageAfterAll, Bulk!JointPartsOnJointRows,
       Bulk!NoResult

\* The server's steps only get a request on.
LEMMA BulkServer ==
    ASSUME BulkInv, NEW c \in calls,
           Bulk!ServerReads(c) \/ Bulk!ServerWrites(c) \/ Bulk!ServerRefuses(c)
    PROVE  BulkInv'
<1>0. BulkCall(c) /\ BulkView
  BY DEF BulkInv
<1>1. CASE Bulk!ServerReads(c)
  <2> DEFINE d == [c EXCEPT !.phase = "read", !.read = server.rows]
  <2>1. calls' = (calls \ {c}) \cup {d} /\ view' = view /\ c.phase = "sent"
    BY <1>1 DEF Bulk!ServerReads
  <2>2. Advanced(c, d)
    BY <1>0, <2>1 DEF Advanced, BulkCall
  <2> HIDE DEF d
  <2>3. BulkView'
    BY <1>0, <2>1 DEF BulkView
  <2> QED BY <2>1, <2>2, <2>3, BulkAdvance
<1>2. CASE Bulk!ServerWrites(c)
  <2> DEFINE d == [c EXCEPT !.phase = "done", !.read = <<>>]
  <2>1. calls' = (calls \ {c}) \cup {d} /\ view' = view
    BY <1>2 DEF Bulk!ServerWrites
  <2>2. Advanced(c, d)
    BY <1>0, <2>1 DEF Advanced, BulkCall
  <2> HIDE DEF d
  <2>3. BulkView'
    BY <1>0, <2>1 DEF BulkView
  <2> QED BY <2>1, <2>2, <2>3, BulkAdvance
<1>3. CASE Bulk!ServerRefuses(c)
  <2> DEFINE d == [c EXCEPT !.phase = "failed", !.read = <<>>]
  <2>1. calls' = (calls \ {c}) \cup {d} /\ view' = view /\ c.phase = "read"
    BY <1>3 DEF Bulk!ServerRefuses
  <2>2. Advanced(c, d)
    BY <1>0, <2>1 DEF Advanced, BulkCall
  <2> HIDE DEF d
  <2>3. BulkView'
    BY <1>0, <2>1 DEF BulkView
  <2> QED BY <2>1, <2>2, <2>3, BulkAdvance
<1> QED BY <1>1, <1>2, <1>3

(* An answer shows the message only as the last success of its apply.      *)
LEMMA BulkAnswer ==
    ASSUME BulkInv, NEW c \in calls, Bulk!Answer(c) PROVE BulkInv'
<1> DEFINE d == [c EXCEPT !.answered = TRUE]
<1>0. BulkCall(c) /\ BulkView
  BY DEF BulkInv
<1>1. calls' = (calls \ {c}) \cup {d}
  BY DEF Bulk!Answer
<1>2. Advanced(c, d) /\ d.phase = c.phase
  BY <1>0 DEF Advanced, BulkCall
<1> HIDE DEF d
<1>3. CASE c.phase = "done" /\ Bulk!AllSucceeded(c)
  <2>1. view'.shownOf = c.apply /\ DOMAIN view' = DOMAIN view
    BY <1>0, <1>3 DEF Bulk!Answer, Bulk!Shows, BulkView
  <2>2. \A e \in calls : e.apply = c.apply => e.phase = "done"
    BY <1>3 DEF Bulk!AllSucceeded, Bulk!Together
  <2>3. Bulk!MessageAfterAll'
    BY <1>1, <1>2, <1>3, <2>1, <2>2 DEF Bulk!MessageAfterAll, Advanced
  <2>4. BulkView' /\ (\A e \in calls' : BulkCall(e)) /\ Bulk!JointPartsOnJointRows'
    BY <1>0, <1>1, <1>2, <2>1 DEF BulkInv, BulkView, BulkCall, Advanced,
                                  Bulk!JointPartsOnJointRows
  <2> QED BY <2>3, <2>4 DEF BulkInv
<1>4. CASE ~(c.phase = "done" /\ Bulk!AllSucceeded(c))
  <2>1. view' = view
    BY <1>4 DEF Bulk!Answer
  <2>2. BulkView'
    BY <1>0, <2>1 DEF BulkView
  <2> QED BY <1>1, <1>2, <2>1, <2>2, BulkAdvance
<1> QED BY <1>3, <1>4

(* The parts of an apply hold for the rows selected as the page knows them. *)
LEMMA BulkApply ==
    ASSUME BulkInv, Bulk!Apply PROVE BulkInv'
<1> DEFINE sent == Bulk!Requests(view.applies, Bulk!Wanted)
<1>1. /\ calls' = calls \cup sent /\ Bulk!ToolbarShown
      /\ view' = [(IF sent = {} THEN Bulk!Shows({"nothing"}) ELSE view) EXCEPT !.applies = @ + 1]
  BY DEF Bulk!Apply
<1>2. \A c \in sent : /\ BulkCall(c) /\ c.ids = view.selected
                      /\ c.parts \subseteq Bulk!Wanted
                      /\ c.joint = {id \in DOMAIN Bulk!Known : Bulk!Known[id].joint}
  BY DEF Bulk!Requests, BulkCall
<1>3. \A p \in Bulk!Wanted \cap Bulk!JointParts :
          view.selected # {}
          /\ view.selected \subseteq {id \in DOMAIN Bulk!Known : Bulk!Known[id].joint}
  BY DEF Bulk!Wanted, Bulk!Shown, Bulk!AllJoint
<1>4. Bulk!JointPartsOnJointRows'
  BY <1>1, <1>2, <1>3 DEF BulkInv, Bulk!JointPartsOnJointRows
<1> HIDE DEF sent
<1>5. view'.result \in {Bulk!NoResult, {"nothing"}} /\ DOMAIN view' = DOMAIN view
  BY <1>1 DEF Bulk!Shows, Bulk!ToolbarShown, BulkInv, BulkView
<1>6. BulkView' /\ Bulk!MessageAfterAll'
  BY <1>5 DEF BulkInv, BulkView, Bulk!MessageAfterAll
<1> QED BY <1>1, <1>2, <1>4, <1>6 DEF BulkInv

\* Every step of bulk editing keeps its invariant.
LEMMA BulkStep == BulkInv /\ Bulk!Next => BulkInv'
<1> SUFFICES ASSUME BulkInv, Bulk!Next PROVE BulkInv'
  OBVIOUS
<1>1. ASSUME calls' = calls, DOMAIN view' = DOMAIN view,
             view'.result = {} \/ (view'.result = view.result /\ view'.shownOf = view.shownOf)
      PROVE  BulkInv'
  BY <1>1 DEF BulkInv, BulkView, BulkCall, Bulk!MessageAfterAll, Bulk!JointPartsOnJointRows,
              Bulk!NoResult
<1>2. CASE Bulk!Cancel \/ Bulk!ResultExpires
  <2>1. view' = Bulk!Exited /\ calls' = calls
    BY <1>2 DEF Bulk!Cancel, Bulk!ResultExpires
  <2>2. view'.result = {} /\ DOMAIN view' = DOMAIN view
    BY <2>1 DEF Bulk!Exited, BulkInv, BulkView, Bulk!NoResult
  <2> QED BY <2>1, <2>2, <1>1
<1>3. CASE Bulk!EnterBulk \/ Bulk!ToggleAll \/ Bulk!Review \/ Bulk!Back
  <2>1. CASE Bulk!EnterBulk
    BY <1>1, <2>1 DEF Bulk!EnterBulk
  <2>2. CASE Bulk!ToggleAll
    BY <1>1, <2>2 DEF Bulk!ToggleAll
  <2>3. CASE Bulk!Review \/ Bulk!Back
    <3>1. /\ \E step : view' = [view EXCEPT !.step = step]
          /\ calls' = calls
      BY <2>3 DEF Bulk!Review, Bulk!Back
    <3> QED BY <1>1, <3>1
  <2> QED BY <1>3, <2>1, <2>2, <2>3
<1>4. ASSUME NEW id, Bulk!ToggleRow(id) PROVE BulkInv'
  BY <1>1, <1>4 DEF Bulk!ToggleRow
<1>5. ASSUME NEW p, NEW value, Bulk!Draft(p, value) PROVE BulkInv'
  BY <1>1, <1>5 DEF Bulk!Draft
<1>6. CASE Bulk!Refetch
  BY <1>1, <1>6 DEF Bulk!Refetch
<1>7. ASSUME NEW rows, Bulk!Refilter(rows) PROVE BulkInv'
  BY <1>1, <1>7 DEF Bulk!Refilter
<1>8. CASE Bulk!Elsewhere
  BY <1>1, <1>8 DEF Bulk!Elsewhere
<1> QED BY <1>2, <1>3, <1>4, <1>5, <1>6, <1>7, <1>8, BulkApply, BulkAnswer, BulkServer
        DEF Bulk!Next

\* So it holds whenever rows are edited in bulk.
LEMMA BulkInvariant == Spec => []On("bulk", BulkInv)
<1> DEFINE Inv == On("bulk", BulkInv)
<1>1. Init => Inv
  <2>1. Bulk!Init => BulkInv
    BY DEF Bulk!Init, BulkInv, BulkView, Bulk!MessageAfterAll, Bulk!JointPartsOnJointRows,
           Bulk!NoResult
  <2> QED BY <2>1 DEF Init, On
<1>2. Inv /\ [Next]_vars => Inv'
  <2> SUFFICES ASSUME Inv, page = "bulk", [Next]_vars PROVE On("bulk", BulkInv)'
    BY DEF Next, On, vars
  <2>1. CASE Bulk!Next
    BY <2>1, BulkStep DEF On
  <2>2. CASE UNCHANGED vars
    BY <2>2 DEF vars, On, BulkInv, BulkView, BulkCall, Bulk!MessageAfterAll,
                Bulk!JointPartsOnJointRows
  <2> QED BY <2>1, <2>2 DEF Next
<1> QED BY <1>1, <1>2, PTL DEF Spec

(* The bulk edit claims success only for an apply whose every request the    *)
(* server carried out, and sends owner shares and depositors only for rows   *)
(* it knows to be joint (TransactionsPage.tsx, BulkEditToolbar.tsx).         *)
THEOREM BulkEditsHold == Spec => []BulkEditsAsClaimed
<1>1. On("bulk", BulkInv) => BulkEditsAsClaimed
  BY DEF On, BulkInv, BulkEditsAsClaimed
<1> QED BY <1>1, BulkInvariant, PTL

----------------------------------------------------------------------------
(* The link dialog.  While the page waits, each leg of what it sent is     *)
(* linked or still asked for: a refusal ends the wait, so the last success *)
(* finds them all linked.                                                  *)
Accepted(c) == c.ok
Busy == view.busy
LinkView ==
    /\ {"form", "search", "showAll", "selected", "covered", "busy", "try"} \subseteq DOMAIN view
    /\ view.try \in Nat
LinkCall(c) ==
    /\ {"kind", "legs", "all", "direction", "amount", "try", "ok"} \subseteq DOMAIN c
    /\ c.try \in Nat /\ c.try <= view.try
    /\ Accepted(c) => c.legs \subseteq server.linked
AskedFor(l) == \E d \in calls : d.try = view.try /\ l \in d.legs
LinkInv ==
    /\ LinkView /\ "linked" \in DOMAIN server
    /\ \A c \in calls : LinkCall(c)
    /\ Busy => \A c \in calls : c.try = view.try =>
                   \A l \in c.all : l \in server.linked \/ AskedFor(l)

\* The dialog opens with nothing picked and nothing sent.
LEMMA LinkInit == Link!Init => LinkInv
BY DEF Link!Init, Link!Empty, LinkInv, LinkView

\* Steps of the page that send and await nothing more.
LEMMA LinkQuiet ==
    ASSUME LinkInv, calls' = calls, DOMAIN view' = DOMAIN view, view'.try = view.try,
           Busy' => Busy,
           "linked" \in DOMAIN server', server.linked \subseteq server'.linked
    PROVE  LinkInv'
BY DEF LinkInv, LinkView, LinkCall, AskedFor, Accepted

(* What is sent is asked for, leg by leg.                                  *)
LEMMA LinkSent ==
    ASSUME LinkInv, NEW new, Link!Send(new), new # {},
           \A l \in view.selected : \E c \in new : l \in c.legs,
           \A c \in new :
              /\ {"kind", "legs", "all", "direction", "amount", "try", "ok"} \subseteq DOMAIN c
              /\ c.all = view.selected /\ c.try = view.try + 1 /\ ~Accepted(c)
    PROVE  LinkInv'
<1>1. /\ calls' = calls \cup new /\ server' = server
      /\ view' = [view EXCEPT !.busy = TRUE, !.try = @ + 1]
  BY DEF Link!Send
<1>2. view'.try = view.try + 1 /\ DOMAIN view' = DOMAIN view
  BY <1>1 DEF LinkInv, LinkView
<1>3. LinkView' /\ "linked" \in DOMAIN server'
  BY <1>1, <1>2 DEF LinkInv, LinkView
<1>4. \A c \in calls' : LinkCall(c)'
  BY <1>1, <1>2 DEF LinkInv, LinkView, LinkCall, Accepted
<1>5. \A c \in calls' : c.try = view'.try => c \in new
  BY <1>1, <1>2 DEF LinkInv, LinkView, LinkCall
<1>6. \A c \in calls' : c.try = view'.try => \A l \in c.all : AskedFor(l)'
  BY <1>1, <1>2, <1>5 DEF AskedFor
<1> QED BY <1>3, <1>4, <1>6 DEF LinkInv

\* Every step of the link dialog keeps its invariant, and closes it only
\* when what it sent is linked.
LEMMA LinkStep == LinkInv /\ Link!Next => LinkInv' /\ Link!ClearsWhenLinked
<1> SUFFICES ASSUME LinkInv, Link!Next PROVE LinkInv' /\ Link!ClearsWhenLinked
  OBVIOUS
<1> DEFINE Fields == {"kind", "legs", "all", "direction", "amount", "try", "ok"}
<1>0. \A kind, legs : /\ Fields \subseteq DOMAIN Link!Call(kind, legs)
                      /\ Link!Call(kind, legs).legs = legs
                      /\ Link!Call(kind, legs).all = view.selected
                      /\ Link!Call(kind, legs).try = view.try + 1
                      /\ ~Accepted(Link!Call(kind, legs))
  BY DEF Link!Call, Accepted
<1>1. CASE Link!Record
  <2>1. Link!Send({Link!Call("record", view.selected)}) /\ view'.busy = TRUE
    BY <1>1 DEF Link!Record, Link!Send, LinkInv, LinkView
  <2> QED BY <1>0, <2>1, LinkSent DEF Link!ClearsWhenLinked
<1>2. CASE Link!Link
  <2> DEFINE new == {Link!Call("mark", {l}) : l \in view.selected}
  <2>1. Link!Send(new) /\ view.selected # {} /\ view'.busy = TRUE
    BY <1>2 DEF Link!Link, Link!Send, LinkInv, LinkView
  <2>2. ASSUME NEW l \in view.selected PROVE \E c \in new : l \in c.legs
    <3>1. Link!Call("mark", {l}) \in new
      OBVIOUS
    <3>2. Link!Call("mark", {l}).legs = {l}
      BY <1>0
    <3> HIDE DEF new
    <3> QED BY <3>1, <3>2
  <2>4. new # {}
    BY <2>1
  <2>3. ASSUME NEW c \in new
        PROVE  /\ Fields \subseteq DOMAIN c
               /\ c.all = view.selected /\ c.try = view.try + 1 /\ ~Accepted(c)
    <3>1. PICK l \in view.selected : c = Link!Call("mark", {l})
      OBVIOUS
    <3> HIDE DEF new
    <3> QED BY <1>0, <3>1
  <2> HIDE DEF new
  <2> QED BY <2>1, <2>2, <2>3, <2>4, LinkSent DEF Link!ClearsWhenLinked
<1>3. ASSUME NEW c \in calls, Link!Accept(c) PROVE LinkInv' /\ Link!ClearsWhenLinked
  <2> DEFINE d == [c EXCEPT !.ok = TRUE]
  <2>1. /\ calls' = (calls \ {c}) \cup {d} /\ view' = view
        /\ server'.linked = server.linked \cup c.legs /\ "linked" \in DOMAIN server'
    BY <1>3 DEF Link!Accept, LinkInv
  <2>2. /\ DOMAIN d = DOMAIN c /\ d.try = c.try /\ d.legs = c.legs /\ d.all = c.all
    BY DEF LinkInv, LinkCall
  <2> HIDE DEF d
  <2>3. \A e \in calls' : LinkCall(e)'
    BY <2>1, <2>2 DEF LinkInv, LinkCall, Accepted
  <2>4. \A l : AskedFor(l) => l \in server'.linked \/ AskedFor(l)'
    BY <2>1, <2>2 DEF AskedFor
  <2>5. Busy' => \A e \in calls' : e.try = view'.try =>
                     \A l \in e.all : l \in server'.linked \/ AskedFor(l)'
    BY <2>1, <2>2, <2>4 DEF LinkInv, Busy
  <2> QED BY <2>1, <2>3, <2>5 DEF LinkInv, LinkView, Link!ClearsWhenLinked
<1>4. ASSUME NEW c \in calls, Link!Succeed(c) PROVE LinkInv' /\ Link!ClearsWhenLinked
  <2>1. /\ calls' = calls \ {c} /\ server' = server /\ Accepted(c)
        /\ c.legs \subseteq server.linked
    BY <1>4 DEF Link!Succeed, LinkInv, LinkCall, Accepted
  <2>2. DOMAIN view' = DOMAIN view /\ view'.try = view.try
    BY <1>4 DEF Link!Succeed, LinkInv, LinkView
  <2>3. \A e \in calls' : LinkCall(e)'
    BY <2>1, <2>2 DEF LinkInv, LinkCall, Accepted
  <2>4. \A l : AskedFor(l) => l \in server'.linked \/ AskedFor(l)'
    BY <2>1, <2>2 DEF AskedFor
  <2>5. Busy' => Busy
    BY <1>4 DEF Link!Succeed, Busy, LinkInv, LinkView
  <2>6. Busy' => \A e \in calls' : e.try = view'.try =>
                     \A l \in e.all : l \in server'.linked \/ AskedFor(l)'
    BY <2>1, <2>2, <2>4, <2>5 DEF LinkInv
  <2>7. LinkInv'
    BY <2>1, <2>2, <2>3, <2>6 DEF LinkInv, LinkView
  <2>8. ASSUME Busy, ~Busy', NEW e \in calls, e.try = view.try PROVE e.all \subseteq server.linked
    <3>1. Link!IsLast(c) /\ c.try = view.try
      BY <1>4, <2>8 DEF Link!Succeed, Link!Waits, Busy
    <3>2. \A d \in calls : d.try = view.try => d = c
      BY <3>1 DEF Link!IsLast
    <3>3. \A l \in e.all : l \in server.linked \/ AskedFor(l)
      BY <2>8 DEF LinkInv
    <3> QED BY <2>1, <3>2, <3>3 DEF AskedFor
  <2>9. Link!ClearsWhenLinked
    BY <2>8 DEF Link!ClearsWhenLinked, Busy
  <2> QED BY <2>7, <2>9
<1>5. ASSUME NEW c \in calls, Link!Refuse(c) PROVE LinkInv' /\ Link!ClearsWhenLinked
  <2>1. /\ calls' = calls \ {c} /\ server' = server
        /\ DOMAIN view' = DOMAIN view /\ view'.try = view.try /\ view'.selected = view.selected
    BY <1>5 DEF Link!Refuse, LinkInv, LinkView
  <2>2. \A e \in calls' : LinkCall(e)'
    BY <2>1 DEF LinkInv, LinkCall, Accepted
  <2>3. Busy' => Busy /\ c.try # view.try
    BY <1>5 DEF Link!Refuse, Link!Waits, Busy, LinkInv, LinkView
  <2>4. Busy' => \A l : AskedFor(l) => AskedFor(l)'
    BY <2>1, <2>3 DEF AskedFor
  <2>5. Busy' => \A e \in calls' : e.try = view'.try =>
                     \A l \in e.all : l \in server'.linked \/ AskedFor(l)'
    BY <2>1, <2>3, <2>4 DEF LinkInv
  <2> QED BY <2>1, <2>2, <2>5 DEF LinkInv, LinkView, Link!ClearsWhenLinked
<1>6. CASE Link!Rekey
  <2>1. /\ calls' = calls /\ server' = server /\ view.form = "record" /\ ~Busy'
        /\ view'.try = view.try /\ DOMAIN view' = {"form", "search", "showAll", "selected",
                                                   "covered", "busy", "try"}
    BY <1>6 DEF Link!Rekey, Link!Empty, Busy
  <2>2. LinkView'
    BY <2>1 DEF LinkInv, LinkView
  <2>3. \A e \in calls' : LinkCall(e)'
    BY <2>1 DEF LinkInv, LinkCall, Accepted
  <2> QED BY <2>1, <2>2, <2>3 DEF LinkInv, Link!ClearsWhenLinked
<1>7. ASSUME calls' = calls, DOMAIN view' = DOMAIN view, view'.try = view.try,
             view'.busy = view.busy, DOMAIN server' = DOMAIN server,
             server.linked \subseteq server'.linked
      PROVE  LinkInv' /\ Link!ClearsWhenLinked
  BY <1>7, LinkQuiet DEF Busy, LinkInv, Link!ClearsWhenLinked
<1>8. ASSUME NEW m, Link!Search(m) PROVE LinkInv' /\ Link!ClearsWhenLinked
  BY <1>7, <1>8 DEF Link!Search
<1>9. ASSUME NEW m, Link!ToggleMonth(m) PROVE LinkInv' /\ Link!ClearsWhenLinked
  BY <1>7, <1>9 DEF Link!ToggleMonth
<1>10. ASSUME NEW l, Link!ToggleLeg(l) PROVE LinkInv' /\ Link!ClearsWhenLinked
  <2>1. \E x : view' = [view EXCEPT !.selected = x] /\ UNCHANGED <<server, calls>>
    BY <1>10 DEF Link!ToggleLeg
  <2> QED BY <1>7, <2>1
<1>11. CASE Link!ShowAll
  BY <1>7, <1>11 DEF Link!ShowAll
<1>12. ASSUME NEW l, Link!Elsewhere(l) PROVE LinkInv' /\ Link!ClearsWhenLinked
  BY <1>7, <1>12 DEF Link!Elsewhere, LinkInv
<1> QED BY <1>1, <1>2, <1>3, <1>4, <1>5, <1>6, <1>8, <1>9, <1>10, <1>11, <1>12 DEF Link!Next

\* So it holds whenever the dialog is open.
LEMMA LinkInvariant == Spec => []On("link", LinkInv)
<1> DEFINE Inv == On("link", LinkInv)
<1>1. Init => Inv
  BY LinkInit DEF Init, On
<1>2. Inv /\ [Next]_vars => Inv'
  <2> SUFFICES ASSUME Inv, page = "link", [Next]_vars PROVE On("link", LinkInv)'
    BY DEF Next, On, vars
  <2>1. CASE Link!Next
    BY <2>1, LinkStep DEF On
  <2>2. CASE UNCHANGED vars
    BY <2>2, LinkQuiet DEF vars, On, LinkInv, Busy
  <2> QED BY <2>1, <2>2 DEF Next
<1> QED BY <1>1, <1>2, PTL DEF Spec

(* The dialog is cleared only when every leg it sent is linked               *)
(* (PosthocLinkDialog.tsx, handleLink).                                      *)
THEOREM ClearedOnlyWhenLinked == Spec => ClearedWhenLinked
<1>1. On("link", LinkInv) /\ [Next]_vars => [page = "link" => Link!ClearsWhenLinked]_vars
  BY LinkStep DEF On, Next
<1> QED BY <1>1, LinkInvariant, PTL DEF Spec, ClearedWhenLinked

----------------------------------------------------------------------------
(* The budget page.  An id stands for one group, month and owner wherever  *)
(* it is held, stored, cached under some month and scope, or named in a    *)
(* request, and the ids still to be given are held nowhere: so an edit of  *)
(* what a cache shows reaches that budget or, when it went, none.          *)

\* What is held under an id: the group, the month and the owner.
Under(budgets) == {<<b.id, Budget!Slot(b)>> : b \in budgets}
Asked(c) == <<c.id, <<c.group, c.month, c.owner>>>>
Cached == {k \in {1, 2} \X Budget!Scopes : view.cache[k] # None}
Edits == {c \in calls : c.kind \in {"update", "delete"}}
HeldOnScreen == UNION {Under(view.cache[k].budgets) : k \in Cached}
HeldInEdits == {Asked(c) : c \in Edits}
Reads == {c \in calls : c.found # None}
HeldInReads == {<<c.found.id, Budget!Slot(c.found)>> : c \in Reads}
Held == Under(server.budgets) \cup HeldOnScreen \cup HeldInEdits \cup HeldInReads

BudgetFields(b) == {"id", "group", "month", "owner", "amount"} \subseteq DOMAIN b
BudgetTypes ==
    /\ {"budgets", "locked", "elsewhere"} \subseteq DOMAIN server /\ server.elsewhere \in Nat
    /\ \A b \in server.budgets : BudgetFields(b)
    /\ {"month", "scope", "cache", "rows", "add", "try"} \subseteq DOMAIN view
    /\ view.try \in Nat /\ view.month \in {1, 2} /\ view.scope \in Budget!Scopes
    /\ \A c \in calls : {"kind", "try", "id", "found", "read", "month", "owner"} \subseteq DOMAIN c
    /\ \A c \in calls : c.try \in Nat \ {0} /\ c.try <= view.try
    /\ \A c, d \in calls : c.try = d.try => c = d
    /\ \A c \in calls : c.found # None => BudgetFields(c.found)

\* The page's answers are kept under the month and the scope they were asked for.
CachedByKey ==
    /\ DOMAIN view.cache = {1, 2} \X Budget!Scopes
    /\ \A k \in {1, 2} \X Budget!Scopes : view.cache[k] # None =>
           \A b \in view.cache[k].budgets :
               BudgetFields(b) /\ b.month = k[1] /\ b.owner = Budget!Owner(k[2])

\* The first part of an id is the request it came with, or counts down the partner's.
IdsGiven ==
    /\ \A p, q \in Held : p[1] = q[1] => p[2] = q[2]
    /\ \A p \in Held : p[1][1] \in Int /\ p[1][1] <= view.try /\ p[1][1] >= - server.elsewhere
    /\ \A p \in Held, c \in calls : p[1][1] # c.try

BudgetInv == BudgetTypes /\ CachedByKey /\ IdsGiven /\ Budget!OneBudgetEach

\* The page opens on budgets of distinct ids.
LEMMA BudgetInit == Budget!Init => BudgetInv
<1> SUFFICES ASSUME Budget!Init PROVE BudgetInv
  OBVIOUS
<1>1. /\ server = [budgets |-> Budgets, locked |-> {}, elsewhere |-> 0] /\ calls = {}
      /\ view.cache = [k \in {1, 2} \X Budget!Scopes |-> None] /\ view.try = 0
      /\ view.scope = "household"
      /\ {"month", "scope", "cache", "rows", "add", "try"} \subseteq DOMAIN view
  BY DEF Budget!Init
<1>2. view.month \in {1, 2}
  <2>1. 2 \in {1, 2} /\ \A n \in {1, 2} : 2 >= n
    OBVIOUS
  <2>2. view.month = CHOOSE m \in {1, 2} : \A n \in {1, 2} : m >= n
    BY DEF Budget!Init
  <2> QED BY <2>1, <2>2
<1>3. BudgetTypes
  BY <1>1, <1>2, OneBudgetAtFirst DEF BudgetTypes, BudgetFields, Budget!Scopes
<1>4. CachedByKey
  BY <1>1 DEF CachedByKey
<1>5. Held = Under(Budgets)
  BY <1>1 DEF Held, HeldOnScreen, HeldInEdits, HeldInReads, Reads, Cached, Edits
<1>6. IdsGiven
  BY <1>1, <1>5, OneBudgetAtFirst DEF IdsGiven, Under, Budget!Slot
<1>7. Budget!OneBudgetEach
  BY <1>1, OneBudgetAtFirst DEF Budget!OneBudgetEach, Budget!Slot
<1> QED BY <1>3, <1>4, <1>6, <1>7 DEF BudgetInv

\* The page only asks, shows and forgets: an answer that is kept is what is stored.
LEMMA BudgetShow ==
    ASSUME BudgetInv, NEW new, Budget!Show(new),
           new.month \in {1, 2}, new.scope \in Budget!Scopes, new.try = view.try,
           DOMAIN new = DOMAIN view, DOMAIN new.cache = DOMAIN view.cache,
           \A k \in {1, 2} \X Budget!Scopes :
               \/ new.cache[k] = view.cache[k]
               \/ new.cache[k].budgets = Budget!Of(server.budgets, k[1], Budget!Owner(k[2]))
    PROVE  BudgetInv'
<1>1. /\ view'.month = new.month /\ view'.scope = new.scope /\ view'.try = view.try
      /\ view'.cache = new.cache /\ DOMAIN view' = DOMAIN view
      /\ server' = server /\ calls' = calls
  BY DEF Budget!Show, Budget!Rendered, BudgetInv, BudgetTypes
<1>2. BudgetTypes'
  BY <1>1 DEF BudgetInv, BudgetTypes
<1>3. ASSUME NEW k \in {1, 2} \X Budget!Scopes, view'.cache[k] # None
      PROVE  \/ view.cache[k] # None /\ view'.cache[k] = view.cache[k]
             \/ view'.cache[k].budgets = Budget!Of(server.budgets, k[1], Budget!Owner(k[2]))
  BY <1>1, <1>3
<1>4. CachedByKey'
  BY <1>1, <1>3 DEF BudgetInv, BudgetTypes, CachedByKey, Budget!Of, Budget!Owner
<1>5. Held' \subseteq Held
  <2>1. ASSUME NEW k \in Cached' PROVE Under(view'.cache[k].budgets) \subseteq Held
    <3>1. \/ k \in Cached /\ view'.cache[k] = view.cache[k]
          \/ view'.cache[k].budgets \subseteq server.budgets
      BY <1>3, <2>1 DEF Cached, Budget!Of
    <3> QED BY <3>1 DEF Held, HeldOnScreen, Under
  <2>2. HeldOnScreen' \subseteq Held
    BY <2>1 DEF HeldOnScreen
  <2>3. HeldInEdits' = HeldInEdits /\ HeldInReads' = HeldInReads /\ server' = server
    BY <1>1 DEF HeldInEdits, Edits, HeldInReads, Reads
  <2> QED BY <2>2, <2>3 DEF Held
<1>6. IdsGiven'
  BY <1>1, <1>5 DEF BudgetInv, IdsGiven
<1>7. Budget!OneBudgetEach'
  BY <1>1 DEF BudgetInv, Budget!OneBudgetEach
<1> QED BY <1>2, <1>4, <1>6, <1>7 DEF BudgetInv

\* What the page does alone names no budget it did not hold.
LEMMA BudgetPageStep ==
    ASSUME BudgetInv,
           \/ \E m \in {1, 2} : Budget!PickMonth(m)
           \/ \E s \in Budget!Scopes : Budget!SetScope(s)
           \/ \E g \in {"food"} : \/ Budget!Edit(g) \/ Budget!CancelEdit(g)
                                  \/ \E open \in BOOLEAN : Budget!AskDelete(g, open)
                                  \/ \E a \in {1} : Budget!TypeAmount(g, a) \/ Budget!FillAdd(g, a)
           \/ Budget!Arrive \/ Budget!OpenAdd \/ Budget!CancelAdd
    PROVE  BudgetInv'
<1> USE DEF BudgetInv, BudgetTypes
<1> DEFINE Same(new) == /\ new.month = view.month /\ new.scope = view.scope /\ new.try = view.try
                        /\ new.cache = view.cache /\ DOMAIN new = DOMAIN view
<1>1. ASSUME NEW new, Same(new), Budget!Show(new) PROVE BudgetInv'
  BY <1>1, BudgetShow
<1>2. ASSUME NEW m \in {1, 2}, Budget!PickMonth(m) PROVE BudgetInv'
  <2>1. Budget!Show([view EXCEPT !.month = m])
    BY <1>2 DEF Budget!PickMonth
  <2> QED BY <2>1, BudgetShow
<1>3. ASSUME NEW s \in Budget!Scopes, Budget!SetScope(s) PROVE BudgetInv'
  <2>1. Budget!Show([view EXCEPT !.scope = s])
    BY <1>3 DEF Budget!SetScope
  <2> QED BY <2>1, BudgetShow
<1>4. CASE Budget!Arrive
  <2> DEFINE data == Budget!Overview(server.budgets, view.month, view.scope)
             key == Budget!Key(view)
             new == [view EXCEPT !.cache[key] = data]
  <2>1. Budget!Show(new)
    BY <1>4 DEF Budget!Arrive
  <2>2. key = <<view.month, view.scope>> /\ key \in {1, 2} \X Budget!Scopes
    BY DEF Budget!Key
  <2>3. data.budgets = Budget!Of(server.budgets, key[1], Budget!Owner(key[2]))
    BY <2>2 DEF Budget!Overview
  <2> HIDE DEF key, data
  <2>4. /\ new.month = view.month /\ new.scope = view.scope /\ new.try = view.try
        /\ DOMAIN new = DOMAIN view /\ DOMAIN new.cache = DOMAIN view.cache
        /\ \A k \in {1, 2} \X Budget!Scopes :
              new.cache[k] = IF k = key THEN data ELSE view.cache[k]
    BY <2>2 DEF CachedByKey
  <2> HIDE DEF new
  <2> QED BY <2>1, <2>3, <2>4, BudgetShow
<1>5. ASSUME NEW g, Budget!Edit(g) PROVE BudgetInv'
  <2>1. PICK rows : Budget!Show([view EXCEPT !.rows = rows])
    BY <1>5 DEF Budget!Edit
  <2> QED BY <2>1, <1>1
<1>6. ASSUME NEW g, NEW open, NEW a,
             Budget!CancelEdit(g) \/ Budget!AskDelete(g, open) \/ Budget!TypeAmount(g, a)
      PROVE  BudgetInv'
  <2>1. PICK rows : Budget!Show([view EXCEPT !.rows = rows])
    BY <1>6 DEF Budget!CancelEdit, Budget!AskDelete, Budget!TypeAmount
  <2> QED BY <2>1, <1>1
<1>7. ASSUME NEW g, NEW a, Budget!FillAdd(g, a) \/ Budget!OpenAdd \/ Budget!CancelAdd
      PROVE  BudgetInv'
  <2>1. PICK add : Budget!Show([view EXCEPT !.add = add])
    BY <1>7 DEF Budget!FillAdd, Budget!OpenAdd, Budget!CancelAdd
  <2> QED BY <2>1, <1>1
<1> QED BY <1>2, <1>3, <1>4, <1>5, <1>6, <1>7

\* A request is sent under an id that was not given yet, and an edit or a removal
\* of it names what the page shows.
LEMMA BudgetSend ==
    ASSUME BudgetInv, NEW call, NEW new, Budget!Send(call, new),
           new.month = view.month, new.scope = view.scope, new.try = view.try,
           new.cache = view.cache, DOMAIN new = DOMAIN view,
           "kind" \in DOMAIN call,
           DOMAIN call \cap {"try", "month", "owner", "found", "read"} = {},
           call.kind \in {"update", "delete"} =>
               /\ {"id", "group"} \subseteq DOMAIN call
               /\ <<call.id, <<call.group, view.month, Budget!Owner(view.scope)>>>> \in Held
    PROVE  BudgetInv'
<1> DEFINE c == Budget!Request(call)
<1>1. /\ calls' = calls \cup {c} /\ server' = server
      /\ view'.month = view.month /\ view'.scope = view.scope /\ view'.try = view.try + 1
      /\ view'.cache = view.cache /\ DOMAIN view' = DOMAIN view
  BY DEF Budget!Send, BudgetInv, BudgetTypes
<1>2. /\ c.kind = call.kind /\ c.try = view.try + 1 /\ c.month = view.month
      /\ c.owner = Budget!Owner(view.scope) /\ c.found = None
      /\ {"kind", "try", "id", "found", "read", "month", "owner"} \subseteq DOMAIN c
      /\ call.kind \in {"update", "delete"} => c.id = call.id /\ c.group = call.group
  BY DEF Budget!Request
<1> HIDE DEF c
<1>3. BudgetTypes'
  BY <1>1, <1>2 DEF BudgetInv, BudgetTypes
<1>4. CachedByKey' /\ Budget!OneBudgetEach'
  BY <1>1 DEF BudgetInv, CachedByKey, Budget!OneBudgetEach
<1>5. Held' \subseteq Held
  <2>1. HeldOnScreen' = HeldOnScreen
    BY <1>1 DEF HeldOnScreen, Cached
  <2>2. ASSUME NEW d \in Edits' PROVE Asked(d) \in Held
    <3>1. CASE d \in calls
      BY <2>2, <3>1 DEF Edits, HeldInEdits, Held
    <3>2. CASE d = c
      <4>1. c.kind \in {"update", "delete"}
        BY <2>2, <3>2 DEF Edits
      <4>2. Asked(c) = <<call.id, <<call.group, view.month, Budget!Owner(view.scope)>>>>
        BY <1>2, <4>1 DEF Asked
      <4> QED BY <1>2, <3>2, <4>1, <4>2
    <3> QED BY <1>1, <2>2, <3>1, <3>2 DEF Edits
  <2>3. HeldInEdits' \subseteq Held
    BY <2>2 DEF HeldInEdits
  <2>4. HeldInReads' = HeldInReads
    BY <1>1, <1>2 DEF HeldInReads, Reads
  <2> QED BY <1>1, <2>1, <2>3, <2>4 DEF Held
<1>6. IdsGiven'
  BY <1>1, <1>2, <1>5 DEF BudgetInv, BudgetTypes, IdsGiven
<1> QED BY <1>3, <1>4, <1>6 DEF BudgetInv

\* What the page sends names a budget it shows, or a new one.
LEMMA BudgetSubmit ==
    ASSUME BudgetInv,
           \/ \E g \in {"food"} : Budget!SaveEdit(g) \/ Budget!ConfirmDelete(g)
           \/ Budget!SaveAdd \/ Budget!Copy
    PROVE  BudgetInv'
<1>1. /\ {"month", "scope", "cache", "rows", "add", "try"} \subseteq DOMAIN view
      /\ view.month \in {1, 2} /\ view.scope \in Budget!Scopes
  BY DEF BudgetInv, BudgetTypes
<1>2. ASSUME NEW g, Budget!BudgetOf(view, g) # None
      PROVE  <<Budget!BudgetOf(view, g).id,
               <<g, view.month, Budget!Owner(view.scope)>>>> \in Held
  <2> DEFINE key == <<view.month, view.scope>>
             b == Budget!BudgetOf(view, g)
  <2>1. /\ view.cache[key] # None /\ b \in view.cache[key].budgets /\ b.group = g
    BY <1>2 DEF Budget!BudgetOf, Budget!Data, Budget!Key
  <2>2. b.month = view.month /\ b.owner = Budget!Owner(view.scope)
    BY <1>1, <2>1 DEF BudgetInv, CachedByKey
  <2>3. <<b.id, Budget!Slot(b)>> \in Held
    <3>1. key \in Cached
      BY <1>1, <2>1 DEF Cached
    <3>2. <<b.id, Budget!Slot(b)>> \in Under(view.cache[key].budgets)
      BY <2>1 DEF Under
    <3> HIDE DEF key, b
    <3> QED BY <3>1, <3>2 DEF Held, HeldOnScreen
  <2> QED BY <2>1, <2>2, <2>3 DEF Budget!Slot
<1>3. ASSUME NEW g, Budget!SaveEdit(g) PROVE BudgetInv'
  <2> DEFINE call == [kind |-> "update", group |-> g, amount |-> view.rows[g].amount,
                      id |-> Budget!Target(g)]
  <2>1. /\ Budget!BudgetOf(view, g) # None
        /\ Budget!Send(call, [view EXCEPT !.rows[g].editing = FALSE])
    BY <1>3 DEF Budget!SaveEdit
  <2>2. /\ DOMAIN call = {"kind", "group", "amount", "id"} /\ call.kind = "update"
        /\ call.group = g /\ call.id = Budget!BudgetOf(view, g).id
    BY DEF Budget!Target
  <2> HIDE DEF call
  <2> QED BY <1>1, <1>2, <2>1, <2>2, BudgetSend
<1>4. ASSUME NEW g, Budget!ConfirmDelete(g) PROVE BudgetInv'
  <2> DEFINE call == [kind |-> "delete", group |-> g, id |-> Budget!Target(g)]
  <2>1. /\ Budget!BudgetOf(view, g) # None
        /\ Budget!Send(call, [view EXCEPT !.rows[g].confirm = FALSE])
    BY <1>4 DEF Budget!ConfirmDelete
  <2>2. /\ DOMAIN call = {"kind", "group", "id"} /\ call.kind = "delete"
        /\ call.group = g /\ call.id = Budget!BudgetOf(view, g).id
    BY DEF Budget!Target
  <2> HIDE DEF call
  <2> QED BY <1>1, <1>2, <2>1, <2>2, BudgetSend
<1>5. CASE Budget!SaveAdd
  <2> DEFINE call == [kind |-> "save", group |-> view.add.group, amount |-> view.add.amount]
  <2>1. Budget!Send(call, [view EXCEPT !.add = Budget!NoAdd])
    BY <1>5 DEF Budget!SaveAdd
  <2>2. DOMAIN call = {"kind", "group", "amount"} /\ call.kind = "save"
    OBVIOUS
  <2> HIDE DEF call
  <2> QED BY <1>1, <2>1, <2>2, BudgetSend
<1>6. CASE Budget!Copy
  <2> DEFINE call == [kind |-> "copy", from |-> Budget!Data(view).source]
  <2>1. Budget!Send(call, view)
    BY <1>6 DEF Budget!Copy
  <2>2. DOMAIN call = {"kind", "from"} /\ call.kind = "copy"
    OBVIOUS
  <2> HIDE DEF call
  <2> QED BY <1>1, <2>1, <2>2, BudgetSend
<1> QED BY <1>3, <1>4, <1>5, <1>6

\* The server and the partner: what is added comes with ids never held.
NewIn(budgets, first) == \A p \in Under(budgets) \ Under(server.budgets) : p[1][1] = first

\* A write that gives at most one new id, to budgets of its own, keeps
\* the invariant.
LEMMA BudgetWritten ==
    ASSUME BudgetInv, view' = view, calls' \subseteq calls, DOMAIN server' = DOMAIN server,
           server'.elsewhere \in Nat, server'.elsewhere >= server.elsewhere,
           NEW first \in Int, NewIn(server'.budgets, first),
           first <= view.try, first >= - server'.elsewhere,
           \A p \in Held : p[1][1] # first, \A c \in calls' : c.try # first,
           \A b \in server'.budgets : BudgetFields(b),
           \A p, q \in Under(server'.budgets) : p[1] = q[1] /\ p[1][1] = first => p = q,
           Budget!OneBudgetEach'
    PROVE  BudgetInv'
<1>1. BudgetTypes' /\ CachedByKey'
  BY DEF BudgetInv, BudgetTypes, CachedByKey
<1>2. /\ HeldOnScreen' = HeldOnScreen /\ HeldInEdits' \subseteq HeldInEdits
      /\ HeldInReads' \subseteq HeldInReads
  BY DEF HeldOnScreen, Cached, HeldInEdits, Edits, HeldInReads, Reads
<1>3. \A p \in Held' : p \in Held \/ (p \in Under(server'.budgets) /\ p[1][1] = first)
  BY <1>2 DEF Held, NewIn, Under
<1>4. \A p, q \in Held' : p[1] = q[1] => p[2] = q[2]
  <2> SUFFICES ASSUME NEW p \in Held', NEW q \in Held', p[1] = q[1] PROVE p[2] = q[2]
    OBVIOUS
  <2>1. CASE p \in Held /\ q \in Held
    BY <2>1 DEF BudgetInv, IdsGiven
  <2>2. CASE p \notin Held \/ q \notin Held
    BY <1>3, <2>2
  <2> QED BY <2>1, <2>2
<1>5. \A p \in Held' : p[1][1] \in Int /\ p[1][1] <= view.try /\ p[1][1] >= - server'.elsewhere
  BY <1>3 DEF BudgetInv, BudgetTypes, IdsGiven
<1>6. \A p \in Held', c \in calls' : p[1][1] # c.try
  BY <1>3 DEF BudgetInv, IdsGiven
<1> QED BY <1>1, <1>4, <1>5, <1>6 DEF BudgetInv, IdsGiven

\* What is only removed, repriced or put back adds no id.
LEMMA BudgetThinned ==
    ASSUME BudgetInv, view' = view, calls' \subseteq calls, DOMAIN server' = DOMAIN server,
           server'.elsewhere \in Nat, server'.elsewhere >= server.elsewhere,
           Under(server'.budgets) \subseteq Held,
           \A b \in server'.budgets : BudgetFields(b),
           Budget!OneBudgetEach'
    PROVE  BudgetInv'
<1>1. BudgetTypes' /\ CachedByKey'
  BY DEF BudgetInv, BudgetTypes, CachedByKey
<1>2. /\ HeldOnScreen' = HeldOnScreen /\ HeldInEdits' \subseteq HeldInEdits
      /\ HeldInReads' \subseteq HeldInReads
  BY DEF HeldOnScreen, Cached, HeldInEdits, Edits, HeldInReads, Reads
<1>3. Held' \subseteq Held
  BY <1>2 DEF Held
<1>4. \A p \in Held' : p[1][1] \in Int /\ p[1][1] <= view.try /\ p[1][1] >= - server'.elsewhere
  BY <1>3 DEF BudgetInv, BudgetTypes, IdsGiven
<1> QED BY <1>1, <1>3, <1>4 DEF BudgetInv, IdsGiven

\* What a request reads is a budget that is there.
LEMMA BudgetServerRead ==
    ASSUME BudgetInv, NEW c \in calls, Budget!Read(c) PROVE BudgetInv'
<1> DEFINE named == {b \in server.budgets :
                       b.id = c.id \/ (c.kind = "save" /\ b.group = c.group
                                        /\ b.month = c.month /\ b.owner = c.owner)}
           found == IF named = {} THEN None ELSE CHOOSE b \in named : TRUE
           d == [c EXCEPT !.read = TRUE, !.found = found]
<1>0. found = None \/ found \in server.budgets
  OBVIOUS
<1>1. calls' = (calls \ {c}) \cup {d} /\ server' = server /\ view' = view
  BY DEF Budget!Read
<1> HIDE DEF found, named
<1>2. /\ DOMAIN d = DOMAIN c /\ d.kind = c.kind /\ d.try = c.try /\ d.id = c.id
      /\ d.month = c.month /\ d.owner = c.owner /\ d.found = found
  BY DEF BudgetInv, BudgetTypes
<1>3. d.group = c.group
  OBVIOUS
<1> HIDE DEF d
<1>4. BudgetTypes' /\ CachedByKey' /\ Budget!OneBudgetEach'
  <2>1. found # None => BudgetFields(found)
    BY <1>0 DEF BudgetInv, BudgetTypes
  <2> QED BY <1>1, <1>2, <2>1 DEF BudgetInv, BudgetTypes, CachedByKey, Budget!OneBudgetEach
<1>5. HeldInEdits' \subseteq HeldInEdits
  <2>1. Asked(d) = Asked(c)
    BY <1>2, <1>3 DEF Asked
  <2> QED BY <1>1, <1>2, <2>1 DEF HeldInEdits, Edits
<1>6. HeldOnScreen' = HeldOnScreen
  BY <1>1 DEF HeldOnScreen, Cached
<1>7. HeldInReads' \subseteq HeldInReads \cup Under(server.budgets)
  BY <1>0, <1>1, <1>2 DEF HeldInReads, Reads, Under
<1>8. Held' \subseteq Held
  BY <1>1, <1>5, <1>6, <1>7 DEF Held
<1>9. IdsGiven'
  BY <1>1, <1>2, <1>8 DEF BudgetInv, IdsGiven
<1> QED BY <1>4, <1>9 DEF BudgetInv

\* The write of an edit, an addition or a deletion.
LEMMA BudgetServerWrite ==
    ASSUME BudgetInv, NEW c \in calls, Budget!Write(c) PROVE BudgetInv'
<1>1. /\ calls' = calls \ {c} /\ view' = view
      /\ {"budgets", "locked", "elsewhere"} \subseteq DOMAIN server /\ server.elsewhere \in Nat
      /\ view.try \in Nat /\ c.try \in Nat /\ c.try <= view.try
      /\ \A b \in server.budgets : BudgetFields(b)
      /\ \A d \in calls' : d.try # c.try
      /\ \A p \in Held : p[1][1] # c.try
  BY DEF Budget!Write, Budget!Reply, BudgetInv, BudgetTypes, IdsGiven
<1>2. ASSUME NEW b, b = [id |-> <<c.try, 0>>, group |-> c.group, month |-> c.month,
                         owner |-> c.owner, amount |-> c.amount],
             Budget!FreeSlot(b, server.budgets),
             server' = [server EXCEPT !.budgets = @ \cup {b}]
      PROVE  BudgetInv'
  <2>1. server'.budgets = server.budgets \cup {b} /\ server'.elsewhere = server.elsewhere
        /\ DOMAIN server' = DOMAIN server
    BY <1>1, <1>2
  <2>2. BudgetFields(b) /\ b.id = <<c.try, 0>> /\ b.id[1] = c.try
    BY <1>2 DEF BudgetFields
  <2>3. Budget!OneBudgetEach'
    BY <1>2, <2>1 DEF BudgetInv, Budget!OneBudgetEach, Budget!FreeSlot
  <2>4. NewIn(server'.budgets, c.try)
    BY <2>1, <2>2 DEF NewIn, Under
  <2>5. \A p \in Under(server.budgets) : p[1][1] # c.try
    BY <1>1 DEF Held
  <2>6. \A p \in Under(server'.budgets) : p[1][1] = c.try => p = <<b.id, Budget!Slot(b)>>
    BY <2>1, <2>5 DEF Under
  <2>7. \A p, q \in Under(server'.budgets) : p[1] = q[1] /\ p[1][1] = c.try => p = q
    BY <2>6
  <2>8. /\ c.try \in Int /\ c.try <= view.try /\ c.try >= - server'.elsewhere
        /\ server'.elsewhere \in Nat /\ server'.elsewhere >= server.elsewhere
        /\ view' = view /\ calls' \subseteq calls
    BY <1>1, <2>1
  <2>9. \A x \in server'.budgets : BudgetFields(x)
    BY <1>1, <2>1, <2>2
  <2> QED BY <1>1, <2>1, <2>3, <2>4, <2>7, <2>8, <2>9, BudgetWritten
<1>3. ASSUME NEW b \in server.budgets,
             server' = [server EXCEPT !.budgets = (@ \ {b}) \cup
                 (IF c.kind = "delete" THEN {} ELSE {[b EXCEPT !.amount = c.amount]})]
      PROVE  BudgetInv'
  <2> DEFINE x == [b EXCEPT !.amount = c.amount]
  <2>1. /\ DOMAIN x = DOMAIN b /\ x.id = b.id /\ x.group = b.group /\ x.month = b.month
        /\ x.owner = b.owner
    OBVIOUS
  <2>2. /\ server'.budgets \subseteq (server.budgets \ {b}) \cup {x}
        /\ server'.elsewhere = server.elsewhere /\ DOMAIN server' = DOMAIN server
    BY <1>1, <1>3
  <2> HIDE DEF x
  <2>3. BudgetFields(x) /\ Budget!Slot(x) = Budget!Slot(b)
    BY <1>1, <2>1 DEF BudgetFields, Budget!Slot
  <2>4. Budget!OneBudgetEach'
    BY <2>2, <2>3 DEF BudgetInv, Budget!OneBudgetEach
  <2>5. Under(server'.budgets) \subseteq Held
    BY <2>1, <2>2, <2>3 DEF Under, Held
  <2> QED BY <1>1, <2>2, <2>3, <2>4, <2>5, BudgetThinned
<1>4. ASSUME c.found # None, Budget!FreeSlot(c.found, server.budgets),
             server' = [server EXCEPT !.budgets = @ \cup {[c.found EXCEPT !.amount = c.amount]}]
      PROVE  BudgetInv'
  <2> DEFINE x == [c.found EXCEPT !.amount = c.amount]
  <2>1. /\ DOMAIN x = DOMAIN c.found /\ x.id = c.found.id /\ x.group = c.found.group
        /\ x.month = c.found.month /\ x.owner = c.found.owner
    OBVIOUS
  <2>2. /\ server'.budgets = server.budgets \cup {x}
        /\ server'.elsewhere = server.elsewhere /\ DOMAIN server' = DOMAIN server
    BY <1>1, <1>4
  <2> HIDE DEF x
  <2>3. BudgetFields(x) /\ Budget!Slot(x) = Budget!Slot(c.found)
    BY <1>4, <2>1 DEF BudgetFields, Budget!Slot, BudgetInv, BudgetTypes
  <2>4. Budget!OneBudgetEach'
    BY <1>4, <2>2, <2>3 DEF BudgetInv, Budget!OneBudgetEach, Budget!FreeSlot
  <2>5. <<x.id, Budget!Slot(x)>> \in Held
    BY <1>4, <2>1, <2>3 DEF Held, HeldInReads, Reads
  <2>6. Under(server'.budgets) \subseteq Held
    BY <2>2, <2>5 DEF Under, Held
  <2>7. \A b \in server'.budgets : BudgetFields(b)
    BY <1>1, <2>2, <2>3
  <2>8. /\ server'.elsewhere \in Nat /\ server'.elsewhere >= server.elsewhere
        /\ view' = view /\ calls' \subseteq calls
    BY <1>1, <2>2
  <2> QED BY <2>2, <2>4, <2>6, <2>7, <2>8, BudgetThinned
<1> QED BY <1>2, <1>3, <1>4 DEF Budget!Write

\* The write of a copied month: each copy has its source's number with
\* the request's own.
LEMMA BudgetServerCopy ==
    ASSUME BudgetInv, NEW c \in calls, Budget!CopyBudgets(c) PROVE BudgetInv'
<1> DEFINE from == Budget!Copied(c, None) \cup Budget!Copied(c, Me)
           copy(b) == [b EXCEPT !.month = c.month, !.id = <<c.try, b.id>>]
<1>1. /\ calls' = calls \ {c} /\ view' = view
      /\ {"budgets", "locked", "elsewhere"} \subseteq DOMAIN server /\ server.elsewhere \in Nat
      /\ view.try \in Nat /\ c.try \in Nat /\ c.try <= view.try
      /\ \A b \in server.budgets : BudgetFields(b)
      /\ \A d \in calls' : d.try # c.try
      /\ \A p \in Held : p[1][1] # c.try
  BY DEF Budget!CopyBudgets, Budget!Reply, BudgetInv, BudgetTypes, IdsGiven
<1>2. /\ server'.budgets = server.budgets \cup {copy(b) : b \in from}
      /\ server'.elsewhere = server.elsewhere /\ DOMAIN server' = DOMAIN server
  BY <1>1 DEF Budget!CopyBudgets
<1>3. ASSUME NEW b \in from
      PROVE  /\ b \in server.budgets /\ b.month = c.from
             /\ \A x \in server.budgets : x.month = c.month /\ x.owner = b.owner => x.group # b.group
  BY DEF Budget!Copied, Budget!Of
<1>4. ASSUME NEW b \in from
      PROVE  /\ BudgetFields(copy(b)) /\ copy(b).id = <<c.try, b.id>>
             /\ Budget!Slot(copy(b)) = <<b.group, c.month, b.owner>>
  <2>1. BudgetFields(b)
    BY <1>1, <1>3
  <2> QED BY <2>1 DEF BudgetFields, Budget!Slot
<1> HIDE DEF from, copy
<1>5. ASSUME NEW b \in from, NEW x \in from,
             b.id = x.id \/ <<b.group, b.owner>> = <<x.group, x.owner>>
      PROVE  b = x
  <2>1. b \in server.budgets /\ x \in server.budgets /\ b.month = c.from /\ x.month = c.from
    BY <1>3
  <2>2. b.id = x.id => Budget!Slot(b) = Budget!Slot(x)
    <3>1. <<b.id, Budget!Slot(b)>> \in Held /\ <<x.id, Budget!Slot(x)>> \in Held
      BY <2>1 DEF Held, Under
    <3> QED BY <3>1 DEF BudgetInv, IdsGiven
  <2>3. Budget!Slot(b) = Budget!Slot(x)
    BY <1>5, <2>1, <2>2 DEF Budget!Slot
  <2> QED BY <2>1, <2>3 DEF BudgetInv, Budget!OneBudgetEach
<1>6. Budget!OneBudgetEach'
  <2> SUFFICES ASSUME NEW b \in server'.budgets, NEW x \in server'.budgets,
                      Budget!Slot(b) = Budget!Slot(x)
               PROVE  b = x
    BY DEF Budget!OneBudgetEach
  <2>1. CASE b \in server.budgets /\ x \in server.budgets
    BY <2>1 DEF BudgetInv, Budget!OneBudgetEach
  <2>2. ASSUME NEW y \in server.budgets, NEW z \in from PROVE Budget!Slot(copy(z)) # Budget!Slot(y)
    BY <1>3, <1>4 DEF Budget!Slot
  <2>3. CASE b \notin server.budgets /\ x \notin server.budgets
    <3>1. PICK y \in from, z \in from : b = copy(y) /\ x = copy(z)
      BY <1>2, <2>3
    <3> QED BY <1>4, <1>5, <3>1
  <2> QED BY <1>2, <2>1, <2>2, <2>3
<1>7. \A p \in Under(server'.budgets) :
          \/ p \in Under(server.budgets)
          \/ \E b \in from : p = <<<<c.try, b.id>>, Budget!Slot(copy(b))>>
  <2>1. \A b \in server'.budgets : b \in server.budgets \/ \E x \in from : b = copy(x)
    BY <1>2
  <2> QED BY <1>4, <2>1 DEF Under
<1>8. NewIn(server'.budgets, c.try)
  BY <1>7 DEF NewIn
<1>9. \A p \in Under(server.budgets) : p[1][1] # c.try
  BY <1>1 DEF Held
<1>10. ASSUME NEW p \in Under(server'.budgets), NEW q \in Under(server'.budgets),
              p[1] = q[1], p[1][1] = c.try
       PROVE  p = q
  <2>1. PICK b \in from : p = <<<<c.try, b.id>>, Budget!Slot(copy(b))>>
    BY <1>7, <1>9, <1>10
  <2>2. PICK x \in from : q = <<<<c.try, x.id>>, Budget!Slot(copy(x))>>
    BY <1>7, <1>9, <1>10
  <2>3. b = x
    BY <1>5, <1>10, <2>1, <2>2
  <2> QED BY <2>1, <2>2, <2>3
<1>11. \A b \in server'.budgets : BudgetFields(b)
  BY <1>1, <1>2, <1>4
<1> QED BY <1>1, <1>2, <1>6, <1>8, <1>10, <1>11, BudgetWritten

\* Refusals, the closing of a month and the partner's writes.
LEMMA BudgetOthers ==
    ASSUME BudgetInv,
           \/ \E c \in calls : Budget!Refuse(c)
           \/ \E m \in {1, 2} : Budget!Finalize(m) \/ \E g \in {"food"} : Budget!PartnerAdds(g, m)
           \/ \E b \in server.budgets : Budget!PartnerRemoves(b)
    PROVE  BudgetInv'
<1>1. /\ {"budgets", "locked", "elsewhere"} \subseteq DOMAIN server /\ server.elsewhere \in Nat
      /\ view.try \in Nat /\ \A b \in server.budgets : BudgetFields(b)
  BY DEF BudgetInv, BudgetTypes
<1>2. ASSUME NEW c \in calls, Budget!Refuse(c) PROVE BudgetInv'
  <2>1. view' = view /\ calls' \subseteq calls /\ server' = server
    BY <1>2 DEF Budget!Refuse, Budget!Reply
  <2>2. Budget!OneBudgetEach'
    BY <2>1 DEF BudgetInv, Budget!OneBudgetEach
  <2>3. Under(server'.budgets) \subseteq Held
    BY <2>1 DEF Held
  <2> QED BY <1>1, <2>1, <2>2, <2>3, BudgetThinned
<1>3. ASSUME NEW m, Budget!Finalize(m) PROVE BudgetInv'
  <2>1. /\ view' = view /\ calls' = calls /\ server'.budgets = server.budgets
        /\ server'.elsewhere = server.elsewhere + 1 /\ DOMAIN server' = DOMAIN server
    BY <1>1, <1>3 DEF Budget!Finalize, Budget!Elsewhere
  <2>2. Budget!OneBudgetEach'
    BY <2>1 DEF BudgetInv, Budget!OneBudgetEach
  <2>3. Under(server'.budgets) \subseteq Held
    BY <2>1 DEF Held
  <2> QED BY <1>1, <2>1, <2>2, <2>3, BudgetThinned
<1>4. ASSUME NEW b \in server.budgets, Budget!PartnerRemoves(b) PROVE BudgetInv'
  <2>1. /\ view' = view /\ calls' = calls /\ server'.budgets = server.budgets \ {b}
        /\ server'.elsewhere = server.elsewhere + 1 /\ DOMAIN server' = DOMAIN server
    BY <1>1, <1>4 DEF Budget!PartnerRemoves, Budget!Elsewhere
  <2>2. Budget!OneBudgetEach'
    BY <2>1 DEF BudgetInv, Budget!OneBudgetEach
  <2>3. Under(server'.budgets) \subseteq Held
    BY <2>1 DEF Under, Held
  <2>4. /\ server'.elsewhere \in Nat /\ server'.elsewhere >= server.elsewhere
        /\ \A x \in server'.budgets : BudgetFields(x)
    BY <1>1, <2>1
  <2> QED BY <2>1, <2>2, <2>3, <2>4, BudgetThinned
<1>5. ASSUME NEW g, NEW m, Budget!PartnerAdds(g, m) PROVE BudgetInv'
  <2> DEFINE first == -1 - server.elsewhere
             b == [id |-> <<first, 0>>, group |-> g, month |-> m, owner |-> None, amount |-> 1]
  <2>1. /\ view' = view /\ calls' = calls /\ server'.budgets = server.budgets \cup {b}
        /\ server'.elsewhere = server.elsewhere + 1 /\ DOMAIN server' = DOMAIN server
        /\ Budget!FreeSlot(b, server.budgets)
    BY <1>1, <1>5 DEF Budget!PartnerAdds, Budget!Elsewhere
  <2>2. BudgetFields(b) /\ b.id = <<first, 0>>
    BY DEF BudgetFields
  <2>3. first \in Int /\ first < - server.elsewhere /\ first < 0 /\ first >= - server'.elsewhere
    BY <1>1, <2>1
  <2> HIDE DEF first, b
  <2>4. \A p \in Held : p[1][1] # first
    BY <1>1, <2>3 DEF BudgetInv, IdsGiven
  <2>5. \A c \in calls : c.try # first
    BY <2>3 DEF BudgetInv, BudgetTypes
  <2>6. Budget!OneBudgetEach'
    BY <2>1 DEF BudgetInv, Budget!OneBudgetEach, Budget!FreeSlot
  <2>7. NewIn(server'.budgets, first)
    BY <2>1, <2>2 DEF NewIn, Under
  <2>8. \A p \in Under(server.budgets) : p[1][1] # first
    BY <2>4 DEF Held
  <2>9. \A p \in Under(server'.budgets) : p[1][1] = first => p = <<b.id, Budget!Slot(b)>>
    BY <2>1, <2>8 DEF Under
  <2>10. \A p, q \in Under(server'.budgets) : p[1] = q[1] /\ p[1][1] = first => p = q
    BY <2>9
  <2>11. server'.elsewhere \in Nat /\ server'.elsewhere >= server.elsewhere /\ first <= view.try
    BY <1>1, <2>1, <2>3
  <2>12. \A x \in server'.budgets : BudgetFields(x)
    BY <1>1, <2>1, <2>2
  <2> QED BY <2>1, <2>3, <2>4, <2>5, <2>6, <2>7, <2>10, <2>11, <2>12, BudgetWritten
<1> QED BY <1>2, <1>3, <1>4, <1>5

\* So the invariant holds whenever the budget page is open.
LEMMA BudgetInvariant == Spec => []On("budget", BudgetInv)
<1> DEFINE Inv == On("budget", BudgetInv)
<1>1. Init => Inv
  BY BudgetInit DEF Init, On
<1>2. Inv /\ [Next]_vars => Inv'
  <2> SUFFICES ASSUME Inv, page = "budget", [Next]_vars PROVE On("budget", BudgetInv)'
    BY DEF Next, On, vars
  <2>1. CASE Budget!Next
    <3>1. BudgetInv
      BY DEF On
    <3>2. BudgetInv'
      BY <2>1, <3>1, BudgetPageStep, BudgetSubmit, BudgetServerRead, BudgetServerWrite,
         BudgetServerCopy, BudgetOthers DEF Budget!Next
    <3> QED BY <3>2 DEF On
  <2>2. CASE UNCHANGED vars
    <3>1. BudgetInv
      BY DEF On
    <3>2. BudgetInv'
      BY <2>2, <3>1 DEF vars, BudgetInv, BudgetTypes, CachedByKey, IdsGiven, Held, HeldOnScreen,
                        HeldInEdits, HeldInReads, Reads, Cached, Edits,
                        Budget!OneBudgetEach
    <3> QED BY <3>2 DEF On
  <2> QED BY <2>1, <2>2 DEF Next
<1> QED BY <1>1, <1>2, PTL DEF Spec

(* An edit reaches the budget that was on screen when it was confirmed, also *)
(* from a form opened in another month, and a group has one budget a month   *)
(* for the household and one for each person (BudgetPage.tsx,                *)
(* save_budget.py, copy_budgets.py).                                         *)
THEOREM BudgetsStayAsShown == Spec => []BudgetsAsShown
<1>1. ASSUME BudgetInv PROVE Budget!EditsWhatIsShown /\ Budget!OneBudgetEach
  <2> SUFFICES ASSUME NEW c \in calls, c.kind \in {"update", "delete"},
                      NEW b \in server.budgets, b.id = c.id
               PROVE  Budget!Slot(b) = <<c.group, c.month, c.owner>>
    BY <1>1 DEF Budget!EditsWhatIsShown, BudgetInv
  <2>1. Asked(c) \in Held /\ <<b.id, Budget!Slot(b)>> \in Held
    BY DEF Held, HeldInEdits, Edits, Under
  <2> QED BY <1>1, <2>1 DEF BudgetInv, IdsGiven, Asked
<1>2. On("budget", BudgetInv) => BudgetsAsShown
  BY <1>1 DEF On, BudgetsAsShown
<1> QED BY <1>2, BudgetInvariant, PTL

----------------------------------------------------------------------------
(* The settings page.  A card never offers a group its own place to move   *)
(* its categories to, so a removal that finds the group it moves to still  *)
(* there finds it there afterwards.                                        *)
TheGroups == {"g1", "g2"}
TheCategories == {"c1"}
GoodCards(cards) ==
    /\ DOMAIN cards = TheGroups
    /\ \A g \in TheGroups : /\ {"name", "confirm", "moveTo"} \subseteq DOMAIN cards[g]
                            /\ cards[g].moveTo = g => g = None
GoodView(v) ==
    /\ {"section", "cache", "cards", "dialog", "deleting", "house", "saved", "draft", "try"}
            \subseteq DOMAIN v
    /\ v.cache.groups \subseteq TheGroups
    /\ GoodCards(v.cards)
GoodServer(s) ==
    /\ {"groups", "kind", "groupOf", "joint", "profile", "merchants", "elsewhere"}
            \subseteq DOMAIN s
    /\ s.groups \subseteq TheGroups /\ DOMAIN s.groupOf = TheCategories
    /\ \A x \in TheCategories : s.groupOf[x] \in s.groups \cup {None}
GoodCall(c) ==
    /\ {"kind", "group", "moveTo", "checked", "try"} \subseteq DOMAIN c
    /\ c.kind = "add" => c.group \in TheGroups
    /\ c.kind = "delete" /\ c.moveTo = c.group => c.moveTo = None
SettingsInv == GoodServer(server) /\ GoodView(view) /\ \A c \in calls : GoodCall(c)

\* The page opens with what is stored and no draft.
LEMMA SettingsInit == Settings!Init => SettingsInv
<1> SUFFICES ASSUME Settings!Init PROVE SettingsInv
  OBVIOUS
<1>1. PICK s : view = [section |-> s, cache |-> Settings!Stored,
                       cards |-> [g \in TheGroups |-> Settings!NoCard], dialog |-> None,
                       deleting |-> FALSE, house |-> None, saved |-> FALSE,
                       draft |-> 0, try |-> 0]
  BY DEF Settings!Init, TheGroups
<1>2. (CHOOSE g \in TheGroups : TRUE) \in TheGroups
  BY DEF TheGroups
<1>3. server = [groups |-> TheGroups, kind |-> [g \in TheGroups |-> "expense"],
                groupOf |-> [c \in TheCategories |-> CHOOSE g \in TheGroups : TRUE],
                joint |-> FALSE, profile |-> 0, merchants |-> 1, elsewhere |-> 0]
  BY DEF Settings!Init, TheGroups, TheCategories
<1>4. GoodServer(server) /\ server.groups = TheGroups
  BY <1>2, <1>3 DEF GoodServer
<1>5. Settings!Stored.groups = TheGroups
  BY <1>4 DEF Settings!Stored
<1>6. GoodCards([g \in TheGroups |-> Settings!NoCard])
  BY DEF GoodCards, Settings!NoCard
<1>7. GoodView(view)
  BY <1>1, <1>5, <1>6 DEF GoodView
<1> QED BY <1>4, <1>7 DEF SettingsInv, Settings!Init

\* A request has what its dialog gave it, and nothing else.
LEMMA SettingsRequest ==
    ASSUME NEW call
    PROVE  LET c == Settings!Request(call)
               fields == {"try", "moveTo", "checked", "group"} IN
           /\ DOMAIN c = DOMAIN call \cup fields
           /\ \A f \in DOMAIN call : c[f] = call[f]
           /\ "moveTo" \notin DOMAIN call => c.moveTo = None
BY DEF Settings!Request

\* The page's own steps.
LEMMA SettingsShow ==
    ASSUME SettingsInv, NEW new, GoodView(new), Settings!Show(new) PROVE SettingsInv'
BY DEF SettingsInv, Settings!Show

\* Sending keeps the invariant when the request and the page left behind
\* are good.
LEMMA SettingsSend ==
    ASSUME SettingsInv, NEW call, NEW new, GoodView(new), GoodCall(Settings!Request(call)),
           Settings!Send(call, new)
    PROVE  SettingsInv'
<1>1. calls' = calls \cup {Settings!Request(call)} /\ server' = server
      /\ view' = [new EXCEPT !.try = @ + 1]
  BY DEF Settings!Send
<1>2. GoodView(view')
  BY <1>1 DEF GoodView
<1> QED BY <1>1, <1>2 DEF SettingsInv

\* Sending something that is neither a removal nor an addition.
LEMMA SettingsPlain ==
    ASSUME SettingsInv, NEW call, NEW new, GoodView(new), Settings!Send(call, new),
           "kind" \in DOMAIN call, call.kind \notin {"add", "delete"}
    PROVE  SettingsInv'
<1>1. GoodCall(Settings!Request(call))
  BY SettingsRequest DEF GoodCall
<1> QED BY <1>1, SettingsSend

\* Changes of one card.
LEMMA CardName ==
    ASSUME NEW v, GoodView(v), NEW g, NEW x PROVE GoodView([v EXCEPT !.cards[g].name = x])
<1> DEFINE new == [v EXCEPT !.cards[g].name = x]
           cards == [v.cards EXCEPT ![g] = [v.cards[g] EXCEPT !.name = x]]
<1>1. new = [v EXCEPT !.cards = cards]
  OBVIOUS
<1>2. GoodCards(cards)
  BY DEF GoodView, GoodCards
<1> HIDE DEF cards
<1> QED BY <1>1, <1>2 DEF GoodView
\* Asking a card to confirm moves nothing.
LEMMA CardConfirm ==
    ASSUME NEW v, GoodView(v), NEW g, NEW x PROVE GoodView([v EXCEPT !.cards[g].confirm = x])
<1> DEFINE new == [v EXCEPT !.cards[g].confirm = x]
           cards == [v.cards EXCEPT ![g] = [v.cards[g] EXCEPT !.confirm = x]]
<1>1. new = [v EXCEPT !.cards = cards]
  OBVIOUS
<1>2. GoodCards(cards)
  BY DEF GoodView, GoodCards
<1> HIDE DEF cards
<1> QED BY <1>1, <1>2 DEF GoodView
\* A card offers every group but its own.
LEMMA CardMove ==
    ASSUME NEW v, GoodView(v), NEW g, NEW h, h = None \/ h # g
    PROVE  GoodView([v EXCEPT !.cards[g].moveTo = h])
<1> DEFINE new == [v EXCEPT !.cards[g].moveTo = h]
           cards == [v.cards EXCEPT ![g] = [v.cards[g] EXCEPT !.moveTo = h]]
<1>1. new = [v EXCEPT !.cards = cards]
  OBVIOUS
<1>2. GoodCards(cards)
  BY DEF GoodView, GoodCards
<1> HIDE DEF cards
<1> QED BY <1>1, <1>2 DEF GoodView
\* A closed card offers nothing.
LEMMA CardClosed ==
    ASSUME NEW v, GoodView(v), NEW g
    PROVE  GoodView([v EXCEPT !.cards[g].confirm = FALSE, !.cards[g].moveTo = None])
<1> DEFINE w == [v EXCEPT !.cards[g].confirm = FALSE]
<1>1. GoodView(w)
  BY CardConfirm
<1>2. GoodView([w EXCEPT !.cards[g].moveTo = None])
  <2> HIDE DEF w
  <2> QED BY <1>1, CardMove
<1> QED BY <1>2

(* The steps over a group and its card.                                    *)
LEMMA SettingsGroupStep ==
    ASSUME SettingsInv, NEW g \in Settings!Shown.groups,
           \/ Settings!StartEditing(g) \/ Settings!TypeName(g) \/ Settings!SaveRename(g)
           \/ Settings!CancelEditing(g) \/ Settings!PickIcon(g) \/ Settings!AskDelete(g)
           \/ Settings!CancelDelete(g) \/ Settings!ConfirmDelete(g)
           \/ \E k : Settings!PickKind(g, k)
           \/ \E h : Settings!PickMove(g, h)
    PROVE  SettingsInv'
<1>0. GoodView(view) /\ g \in TheGroups
  BY DEF SettingsInv, GoodView, Settings!Shown
<1>1. ASSUME NEW name, NEW kind, Settings!Put(g, name, kind) PROVE SettingsInv'
  <2> DEFINE call == [kind |-> "put", group |-> g, name |-> name, to |-> kind]
  <2>1. "kind" \in DOMAIN call /\ call.kind = "put" /\ Settings!Send(call, view)
    BY <1>1 DEF Settings!Put
  <2> HIDE DEF call
  <2> QED BY <2>1, <1>0, SettingsPlain
<1>2. ASSUME NEW x, Settings!Show([view EXCEPT !.cards[g].name = x]) PROVE SettingsInv'
  <2> DEFINE new == [view EXCEPT !.cards[g].name = x]
  <2>1. GoodView(new) /\ Settings!Show(new)
    BY <1>0, <1>2, CardName
  <2> HIDE DEF new
  <2> QED BY <2>1, SettingsShow
<1>3. CASE Settings!AskDelete(g)
  <2> DEFINE new == [view EXCEPT !.cards[g].confirm = TRUE]
  <2>1. GoodView(new) /\ Settings!Show(new)
    BY <1>0, <1>3, CardConfirm DEF Settings!AskDelete
  <2> HIDE DEF new
  <2> QED BY <2>1, SettingsShow
<1>4. CASE Settings!CancelDelete(g)
  <2> DEFINE new == [view EXCEPT !.cards[g].confirm = FALSE, !.cards[g].moveTo = None]
  <2>1. GoodView(new) /\ Settings!Show(new)
    BY <1>0, <1>4, CardClosed DEF Settings!CancelDelete
  <2> HIDE DEF new
  <2> QED BY <2>1, SettingsShow
<1>5. ASSUME NEW h, Settings!PickMove(g, h) PROVE SettingsInv'
  <2> DEFINE new == [view EXCEPT !.cards[g].moveTo = h]
  <2>1. GoodView(new) /\ Settings!Show(new)
    BY <1>0, <1>5, CardMove DEF Settings!PickMove
  <2> HIDE DEF new
  <2> QED BY <2>1, SettingsShow
<1>6. CASE Settings!ConfirmDelete(g)
  <2> DEFINE call == [kind |-> "delete", group |-> g, moveTo |-> view.cards[g].moveTo]
  <2>1. Settings!Send(call, view)
    BY <1>6 DEF Settings!ConfirmDelete
  <2>2. call.moveTo = g => call.moveTo = None
    BY <1>0 DEF GoodView, GoodCards
  <2>3. /\ DOMAIN call = {"kind", "group", "moveTo"} /\ call.kind = "delete" /\ call.group = g
    OBVIOUS
  <2> HIDE DEF call
  <2>4. GoodCall(Settings!Request(call))
    BY <2>2, <2>3, SettingsRequest DEF GoodCall
  <2> QED BY <2>1, <2>4, <1>0, SettingsSend
<1>7. CASE Settings!SaveRename(g)
  BY <1>1, <1>2, <1>7 DEF Settings!SaveRename
<1>8. CASE Settings!StartEditing(g) \/ Settings!TypeName(g) \/ Settings!CancelEditing(g)
  BY <1>2, <1>8 DEF Settings!StartEditing, Settings!TypeName, Settings!CancelEditing
<1>9. CASE Settings!PickIcon(g) \/ \E k : Settings!PickKind(g, k)
  BY <1>1, <1>9 DEF Settings!PickIcon, Settings!PickKind
<1> QED BY <1>3, <1>4, <1>5, <1>6, <1>7, <1>8, <1>9

(* The steps of the other sections and the query that refreshes them all.  *)
LEMMA SettingsFormStep ==
    ASSUME SettingsInv,
           \/ \E g \in TheGroups : Settings!AddGroup(g)
           \/ Settings!AskMark \/ Settings!CloseMark \/ Settings!ConfirmMark
           \/ Settings!AddMerchant \/ Settings!RemoveMerchant
           \/ Settings!SaveHouse \/ \E x : Settings!EditHouse(x)
           \/ Settings!SaveProfile \/ Settings!TickExpires \/ \E x : Settings!TypeProfile(x)
           \/ Settings!Refetch
    PROVE  SettingsInv'
<1>0. GoodView(view)
  BY DEF SettingsInv
<1>1. ASSUME NEW g \in TheGroups, Settings!AddGroup(g) PROVE SettingsInv'
  <2> DEFINE call == [kind |-> "add", group |-> g, to |-> "expense"]
  <2>1. Settings!Send(call, view) /\ call.group = g /\ call.kind = "add"
        /\ DOMAIN call = {"kind", "group", "to"}
    BY <1>1 DEF Settings!AddGroup
  <2> HIDE DEF call
  <2>2. GoodCall(Settings!Request(call))
    BY <2>1, SettingsRequest DEF GoodCall
  <2> QED BY <2>1, <2>2, <1>0, SettingsSend
<1>2. CASE Settings!ConfirmMark
  <2> DEFINE kind == IF view.dialog.joint THEN "unmark" ELSE "mark"
             call == [kind |-> kind]
  <2>1. Settings!Send(call, view) /\ call.kind \notin {"add", "delete"} /\ "kind" \in DOMAIN call
    BY <1>2 DEF Settings!ConfirmMark
  <2> HIDE DEF call
  <2> QED BY <2>1, <1>0, SettingsPlain
<1>3. CASE Settings!AskMark \/ Settings!CloseMark
  <2>1. PICK x : Settings!Show([view EXCEPT !.dialog = x])
    BY <1>3 DEF Settings!AskMark, Settings!CloseMark
  <2>2. GoodView([view EXCEPT !.dialog = x])
    BY <1>0 DEF GoodView
  <2> QED BY <2>1, <2>2, SettingsShow
<1>4. CASE Settings!AddMerchant
  <2> DEFINE call == [kind |-> "merchant"]
  <2>1. Settings!Send(call, view) /\ call.kind = "merchant" /\ "kind" \in DOMAIN call
    BY <1>4 DEF Settings!AddMerchant
  <2> HIDE DEF call
  <2> QED BY <2>1, <1>0, SettingsPlain
<1>5. CASE Settings!RemoveMerchant
  <2> DEFINE call == [kind |-> "unmerchant"]
             new == [view EXCEPT !.deleting = TRUE]
  <2>1. Settings!Send(call, new) /\ call.kind = "unmerchant" /\ "kind" \in DOMAIN call
    BY <1>5 DEF Settings!RemoveMerchant
  <2>2. GoodView(new)
    BY <1>0 DEF GoodView
  <2> HIDE DEF call, new
  <2> QED BY <2>1, <2>2, SettingsPlain
<1>6. CASE Settings!SaveHouse
  <2> DEFINE call == [kind |-> "house", value |-> view.house]
             new == [view EXCEPT !.saved = FALSE]
  <2>1. Settings!Send(call, new) /\ call.kind = "house" /\ "kind" \in DOMAIN call
    BY <1>6 DEF Settings!SaveHouse
  <2>2. GoodView(new)
    BY <1>0 DEF GoodView
  <2> HIDE DEF call, new
  <2> QED BY <2>1, <2>2, SettingsPlain
<1>7. ASSUME NEW x, Settings!EditHouse(x) PROVE SettingsInv'
  <2> DEFINE new == [view EXCEPT !.house = x, !.saved = FALSE]
  <2>1. Settings!Show(new)
    BY <1>7 DEF Settings!EditHouse
  <2>2. GoodView(new)
    BY <1>0 DEF GoodView
  <2> HIDE DEF new
  <2> QED BY <2>1, <2>2, SettingsShow
<1>8. CASE Settings!SaveProfile
  <2> DEFINE call == [kind |-> "profile", value |-> view.draft]
  <2>1. Settings!Send(call, view) /\ call.kind = "profile" /\ "kind" \in DOMAIN call
    BY <1>8 DEF Settings!SaveProfile
  <2> HIDE DEF call
  <2> QED BY <2>1, <1>0, SettingsPlain
<1>9. CASE Settings!TickExpires
  <2> DEFINE new == [view EXCEPT !.saved = FALSE]
  <2>1. Settings!Show(new)
    BY <1>9 DEF Settings!TickExpires
  <2>2. GoodView(new)
    BY <1>0 DEF GoodView
  <2> HIDE DEF new
  <2> QED BY <2>1, <2>2, SettingsShow
<1>10. ASSUME NEW x, Settings!TypeProfile(x) PROVE SettingsInv'
  <2> DEFINE new == [view EXCEPT !.draft = x]
  <2>1. Settings!Show(new)
    BY <1>10 DEF Settings!TypeProfile
  <2>2. GoodView(new)
    BY <1>0 DEF GoodView
  <2> HIDE DEF new
  <2> QED BY <2>1, <2>2, SettingsShow
<1>11. CASE Settings!Refetch
  <2> DEFINE new == Settings!Followed(Settings!Stored, view)
             stored == Settings!Stored
             cards == [g \in TheGroups |-> IF g \in stored.groups THEN view.cards[g]
                                           ELSE Settings!NoCard]
             draft == Settings!FollowedDraft(stored, view)
  <2>1. new = [view EXCEPT !.cache = stored, !.draft = draft, !.cards = cards]
    BY DEF Settings!Followed, TheGroups
  <2>2. GoodCards(cards)
    BY <1>0 DEF GoodCards, GoodView, Settings!NoCard
  <2>3. stored.groups \subseteq TheGroups
    BY DEF Settings!Stored, SettingsInv, GoodServer
  <2> HIDE DEF cards, draft, stored
  <2>4. GoodView(new)
    BY <1>0, <2>1, <2>2, <2>3 DEF GoodView
  <2>5. Settings!Show(new)
    BY <1>11 DEF Settings!Refetch
  <2> HIDE DEF new
  <2> QED BY <2>4, <2>5, SettingsShow
<1> QED BY <1>1, <1>2, <1>3, <1>4, <1>5, <1>6, <1>7, <1>8, <1>9, <1>10, <1>11

(* What an answer does to the page.                                        *)
LEMMA SettingsAnswer ==
    ASSUME SettingsInv, NEW c \in calls, NEW ok, Settings!Answer(c, ok)
    PROVE  GoodView(view') /\ calls' = calls \ {c}
<1>0. GoodView(view) /\ calls' = calls \ {c}
  BY DEF SettingsInv, Settings!Answer
<1>1. CASE ok /\ c.kind = "put"
  <2>1. view' = [view EXCEPT !.cards[c.group].name = None]
    BY <1>1 DEF Settings!Answer
  <2> QED BY <1>0, <2>1, CardName
<1>2. CASE ok /\ c.kind = "delete"
  <2>1. view' = [view EXCEPT !.cards[c.group].confirm = FALSE, !.cards[c.group].moveTo = None]
    BY <1>2 DEF Settings!Answer
  <2> QED BY <1>0, <2>1, CardClosed
<1>3. CASE ok /\ c.kind \in {"mark", "unmark"}
  <2>1. view' = [view EXCEPT !.dialog = None]
    BY <1>3 DEF Settings!Answer
  <2> QED BY <1>0, <2>1 DEF GoodView
<1>4. CASE ok /\ c.kind \in {"house", "profile"}
  <2>1. view' = [view EXCEPT !.saved = TRUE]
    BY <1>4 DEF Settings!Answer
  <2> QED BY <1>0, <2>1 DEF GoodView
<1>5. CASE ok /\ c.kind = "unmerchant"
  <2>1. view' = [view EXCEPT !.deleting = FALSE]
    BY <1>5 DEF Settings!Answer
  <2> QED BY <1>0, <2>1 DEF GoodView
<1>6. CASE \/ ~ok
           \/ c.kind \notin {"put", "delete", "mark", "unmark", "house", "profile", "unmerchant"}
  <2>1. view' = view
    BY <1>6 DEF Settings!Answer
  <2> QED BY <1>0, <2>1
<1> QED BY <1>0, <1>1, <1>2, <1>3, <1>4, <1>5, <1>6

\* The lists that matter are left as they are.
LEMMA SettingsListsKept ==
    ASSUME NEW s, NEW t, GoodServer(s), DOMAIN t = DOMAIN s, t.groups = s.groups,
           t.groupOf = s.groupOf
    PROVE  GoodServer(t)
BY DEF GoodServer

(* What the server stores: the categories of a removed group move to one   *)
(* that is there, and it is not the one removed.                           *)
LEMMA SettingsWritten ==
    ASSUME SettingsInv, NEW c \in calls, Settings!Write(c) PROVE GoodServer(server')
<1>0. GoodServer(server) /\ GoodCall(c)
  BY DEF SettingsInv
<1>1. CASE c.kind = "add"
  <2>1. server' = [server EXCEPT !.groups = @ \cup {c.group}, !.kind[c.group] = c.to]
    BY <1>1 DEF Settings!Write
  <2>2. /\ DOMAIN server' = DOMAIN server /\ server'.groupOf = server.groupOf
        /\ server'.groups = server.groups \cup {c.group}
    BY <2>1, <1>0 DEF GoodServer
  <2> QED BY <1>0, <1>1, <2>2 DEF GoodServer, GoodCall
<1>2. CASE c.kind = "delete"
  <2> DEFINE moved == [x \in TheCategories |-> IF server.groupOf[x] = c.group THEN c.moveTo
                                               ELSE server.groupOf[x]]
  <2>1. /\ server' = [server EXCEPT !.groups = @ \ {c.group}, !.groupOf = moved]
        /\ c.moveTo \in server.groups \cup {None}
    BY <1>2 DEF Settings!Write, Settings!Grounded, TheCategories
  <2>2. DOMAIN moved = TheCategories
        /\ \A x \in TheCategories : moved[x] \in (server.groups \ {c.group}) \cup {None}
    BY <1>0, <1>2, <2>1 DEF GoodServer, GoodCall
  <2> HIDE DEF moved
  <2>3. /\ DOMAIN server' = DOMAIN server /\ server'.groupOf = moved
        /\ server'.groups = server.groups \ {c.group}
    BY <2>1, <1>0 DEF GoodServer
  <2> QED BY <1>0, <2>2, <2>3 DEF GoodServer
<1>3. CASE c.kind \notin {"add", "delete"}
  <2>1. /\ DOMAIN server' = DOMAIN server /\ server'.groups = server.groups
        /\ server'.groupOf = server.groupOf
    <3>1. CASE c.kind = "put"
      <4>1. server' = [server EXCEPT !.kind[c.group] = c.to]
        BY <3>1 DEF Settings!Write
      <4> QED BY <4>1, <1>0 DEF GoodServer
    <3>2. CASE c.kind \in {"mark", "unmark"}
      <4>1. server' = [server EXCEPT !.joint = c.kind = "mark"]
        BY <3>2 DEF Settings!Write
      <4> QED BY <4>1, <1>0 DEF GoodServer
    <3>3. CASE c.kind \in {"merchant", "unmerchant"}
      <4>1. \E n : server' = [server EXCEPT !.merchants = n]
        BY <3>3 DEF Settings!Write
      <4> QED BY <4>1, <1>0 DEF GoodServer
    <3>4. CASE c.kind = "profile"
      <4>1. server' = [server EXCEPT !.profile = c.value]
        BY <3>4 DEF Settings!Write
      <4> QED BY <4>1, <1>0 DEF GoodServer
    <3>5. CASE c.kind \notin {"put", "mark", "unmark", "merchant", "unmerchant", "profile"}
      <4>1. server' = server
        BY <1>3, <3>5 DEF Settings!Write
      <4> QED BY <4>1
    <3> QED BY <1>3, <3>1, <3>2, <3>3, <3>4, <3>5
  <2> QED BY <1>0, <2>1, SettingsListsKept
<1> QED BY <1>1, <1>2, <1>3

\* The server checks a request and then writes it.
LEMMA SettingsServerStep ==
    ASSUME SettingsInv, NEW c \in calls,
           Settings!Check(c) \/ Settings!Write(c) \/ Settings!Refuse(c)
    PROVE  SettingsInv'
<1>1. CASE Settings!Check(c)
  <2> DEFINE d == [c EXCEPT !.checked = TRUE]
  <2>1. calls' = (calls \ {c}) \cup {d} /\ server' = server /\ view' = view
    BY <1>1 DEF Settings!Check
  <2>2. GoodCall(d)
    BY DEF GoodCall, SettingsInv
  <2> HIDE DEF d
  <2> QED BY <2>1, <2>2 DEF SettingsInv
<1>2. CASE Settings!Write(c)
  <2>1. Settings!Answer(c, TRUE)
    BY <1>2 DEF Settings!Write
  <2> QED BY <1>2, <2>1, SettingsAnswer, SettingsWritten DEF SettingsInv
<1>3. CASE Settings!Refuse(c)
  <2>1. Settings!Answer(c, FALSE) /\ server' = server
    BY <1>3 DEF Settings!Refuse
  <2> QED BY <2>1, SettingsAnswer DEF SettingsInv
<1> QED BY <1>1, <1>2, <1>3

\* The partner's writes leave every category a group.
LEMMA SettingsPartnerStep ==
    ASSUME SettingsInv,
           \/ \E g \in TheGroups : \/ Settings!PartnerRemoves(g)
                                   \/ \E c \in TheCategories : Settings!PartnerMaps(c, g)
           \/ \E j : Settings!PartnerMarks(j)
           \/ \E x : Settings!PartnerSaves(x)
    PROVE  SettingsInv'
<1>0. GoodServer(server)
  BY DEF SettingsInv
<1>1. ASSUME NEW new, GoodServer(new), Settings!Elsewhere(new) PROVE SettingsInv'
  <2>1. GoodServer(server') /\ view' = view /\ calls' = calls
    BY <1>1 DEF Settings!Elsewhere, GoodServer
  <2> QED BY <2>1 DEF SettingsInv
<1>2. ASSUME NEW g \in TheGroups, Settings!PartnerRemoves(g) PROVE SettingsInv'
  <2> DEFINE new == [server EXCEPT !.groups = @ \ {g}]
  <2>1. Settings!Elsewhere(new) /\ \A c \in TheCategories : server.groupOf[c] # g
    BY <1>2 DEF Settings!PartnerRemoves, Settings!Homes, TheCategories
  <2>2. GoodServer(new)
    BY <1>0, <2>1 DEF GoodServer
  <2> HIDE DEF new
  <2> QED BY <2>1, <2>2, <1>1
<1>3. ASSUME NEW g \in TheGroups, NEW c \in TheCategories, Settings!PartnerMaps(c, g)
      PROVE  SettingsInv'
  <2> DEFINE new == [server EXCEPT !.groupOf[c] = g]
  <2>1. Settings!Elsewhere(new) /\ g \in server.groups
    BY <1>3 DEF Settings!PartnerMaps
  <2>2. GoodServer(new)
    BY <1>0, <2>1 DEF GoodServer
  <2> HIDE DEF new
  <2> QED BY <2>1, <2>2, <1>1
<1>4. ASSUME NEW j, Settings!PartnerMarks(j) PROVE SettingsInv'
  <2> DEFINE new == [server EXCEPT !.joint = j]
  <2>1. Settings!Elsewhere(new)
    BY <1>4 DEF Settings!PartnerMarks
  <2>2. GoodServer(new)
    BY <1>0 DEF GoodServer
  <2> HIDE DEF new
  <2> QED BY <2>1, <2>2, <1>1
<1>5. ASSUME NEW x, Settings!PartnerSaves(x) PROVE SettingsInv'
  <2> DEFINE new == [server EXCEPT !.profile = x]
  <2>1. Settings!Elsewhere(new)
    BY <1>5 DEF Settings!PartnerSaves
  <2>2. GoodServer(new)
    BY <1>0 DEF GoodServer
  <2> HIDE DEF new
  <2> QED BY <2>1, <2>2, <1>1
<1> QED BY <1>2, <1>3, <1>4, <1>5

\* Every step of the settings page keeps its invariant.
LEMMA SettingsStep == SettingsInv /\ Settings!Next => SettingsInv'
BY SettingsGroupStep, SettingsFormStep, SettingsServerStep, SettingsPartnerStep
   DEF Settings!Next, TheGroups, TheCategories

\* So it holds whenever that page is open.
LEMMA SettingsInvariant == Spec => []On("settings", SettingsInv)
<1> DEFINE Inv == On("settings", SettingsInv)
<1>1. Init => Inv
  BY SettingsInit DEF Init, On
<1>2. Inv /\ [Next]_vars => Inv'
  <2> SUFFICES ASSUME Inv, page = "settings", [Next]_vars PROVE On("settings", SettingsInv)'
    BY DEF Next, On, vars
  <2>1. CASE Settings!Next
    BY <2>1, SettingsStep DEF On
  <2>2. CASE UNCHANGED vars
    BY <2>2 DEF vars, On, SettingsInv
  <2> QED BY <2>1, <2>2 DEF Next
<1> QED BY <1>1, <1>2, PTL DEF Spec

(* Removing a category group strands no category, whatever the partner       *)
(* removes or moves meanwhile (delete_category_group.py).                    *)
THEOREM CategoriesKeepAHome == Spec => []NoStrandedCategory
<1>1. On("settings", SettingsInv) => NoStrandedCategory
  BY DEF On, SettingsInv, GoodServer, NoStrandedCategory, Settings!EveryCategoryHasAHome,
         TheCategories
<1> QED BY <1>1, SettingsInvariant, PTL

----------------------------------------------------------------------------
(* The loan of the house.  A request that has read holds the months its    *)
(* loan is open for, or the payments a closing makes void, as they still   *)
(* are when it writes; and whatever was typed, dues and closings are       *)
(* months.                                                                 *)
Dated(obligations) == \A o \in obligations : o.due \in Int
DatedForm(d) ==
    /\ "kind" \in DOMAIN d
    /\ d.kind \in {"record", "edit"} => "due" \in DOMAIN d /\ d.due \in Int
    /\ d.kind \in {"close", "replace"} => "month" \in DOMAIN d /\ d.month \in Int
DatedPage ==
    /\ {"house", "dialog", "try"} \subseteq DOMAIN view
    /\ view.house # None => Dated(view.house.obligations)
    /\ view.dialog # None => DatedForm(view.dialog)
DatedCalls == \A c \in calls : DatedForm(c) /\ {"read", "loan", "month"} \subseteq DOMAIN c
HeldLoan(c) ==
    c.read # None =>
        /\ c.kind = "add" => House!Open(server.loans, c.loan) /\ c.read = House!OpenDue(c.loan)
        /\ c.kind \in {"close", "replace"} => c.read = {o.id : o \in House!Lapsed(c)}
LoanInv ==
    /\ HouseInv
    /\ Dated(server.obligations) /\ DatedPage /\ DatedCalls
    /\ \A c \in calls : HeldLoan(c)

\* The loans start dated and no request waits.
LEMMA LoanInit == House!Init => LoanInv
<1> SUFFICES ASSUME House!Init PROVE LoanInv
  OBVIOUS
<1>1. /\ server.obligations = {House!Bill(1), House!Bill(2)} /\ calls = {}
      /\ view.house = None /\ view.dialog = None
      /\ {"house", "dialog", "try"} \subseteq DOMAIN view
  BY DEF House!Init
<1>2. \A i \in {1, 2} : House!Bill(i).due = 1
  BY DEF House!Bill
<1> QED BY <1>1, <1>2, HouseInit DEF LoanInv, Dated, DatedPage, DatedCalls

\* What a form sends is dated as the form is, and has read nothing.
LEMMA HouseRequest ==
    ASSUME NEW call, DatedForm(call), NEW by, NEW try,
           NEW c, c = House!Request(call, by, try)
    PROVE  /\ DatedForm(c) /\ {"read", "loan", "month"} \subseteq DOMAIN c /\ c.read = None
<1>1. /\ {"read", "loan", "month"} \subseteq DOMAIN c /\ DOMAIN call \subseteq DOMAIN c
      /\ c.read = None
      /\ \A f \in DOMAIN call : f \notin {"by", "try", "read"} => c[f] = call[f]
  BY DEF House!Request
<1> QED BY <1>1 DEF DatedForm

(* Steps that neither store nor read: the page's own, and what is sent.    *)
LEMMA LoanQuiet ==
    ASSUME LoanInv, HouseInv', server'.obligations = server.obligations,
           server'.loans = server.loans, DatedPage',
           \A c \in calls' : \/ c \in calls
                             \/ /\ DatedForm(c) /\ {"read", "loan", "month"} \subseteq DOMAIN c
                                /\ c.read = None
    PROVE  LoanInv'
<1>1. Dated(server.obligations)'
  BY DEF LoanInv, Dated
<1>2. DatedCalls'
  BY DEF LoanInv, DatedCalls
<1>3. \A c \in calls' : HeldLoan(c)'
  BY DEF LoanInv, HeldLoan, House!Open, House!OpenDue, House!Lapsed, House!Payments
<1> QED BY <1>1, <1>2, <1>3 DEF LoanInv

\* A request reads the months its loan is open for.
LEMMA LoanRead ==
    ASSUME LoanInv, HouseInv', NEW c \in calls, House!Read(c) PROVE LoanInv'
<1> DEFINE held == [c EXCEPT !.read = House!Found(c)]
<1>1. calls' = (calls \ {c}) \cup {held} /\ server' = server /\ view' = view /\ House!Accepts(c)
  BY DEF House!Read
<1>2. DatedForm(c) /\ {"read", "loan", "month"} \subseteq DOMAIN c
  BY DEF LoanInv, DatedCalls
<1>3. /\ DOMAIN held = DOMAIN c /\ held.read = House!Found(c)
      /\ \A f \in DOMAIN c : f # "read" => held[f] = c[f]
  BY <1>2
<1> HIDE DEF held
<1>4. DatedForm(held) /\ {"read", "loan", "month"} \subseteq DOMAIN held
  BY <1>2, <1>3 DEF DatedForm
<1>5. held.kind = c.kind /\ held.loan = c.loan /\ held.month = c.month
  BY <1>2, <1>3 DEF DatedForm
<1>6. c.kind = "add" => House!Open(server.loans, c.loan) /\ House!Found(c) = House!OpenDue(c.loan)
  BY <1>1 DEF House!Found, House!Accepts
<1>7. House!Lapsed(held) = House!Lapsed(c)
  BY <1>5 DEF House!Lapsed
<1>8. c.kind \in {"close", "replace"} => House!Found(c) = {o.id : o \in House!Lapsed(c)}
  BY DEF House!Found
<1>9. HeldLoan(held)
  BY <1>3, <1>5, <1>6, <1>7, <1>8 DEF HeldLoan
<1>10. ASSUME NEW d, HeldLoan(d) PROVE HeldLoan(d)'
  BY <1>1, <1>10 DEF HeldLoan, House!Open, House!OpenDue, House!Lapsed, House!Payments
<1>11. \A d \in calls' : HeldLoan(d)'
  <2>1. \A d \in calls' : HeldLoan(d)
    BY <1>1, <1>9 DEF LoanInv
  <2> QED BY <2>1, <1>10
<1> QED BY <1>1, <1>4, <1>11 DEF LoanInv, DatedPage, DatedCalls, Dated

\* What is stored stays dated.
LEMMA HouseDates ==
    ASSUME LoanInv, NEW c \in calls, c.read # None PROVE Dated(House!Saved(c))
<1> USE DEF Dated
<1>0. DatedForm(c) /\ Dated(server.obligations)
  BY DEF LoanInv, DatedCalls
<1>1. CASE c.kind = "record"
  <2> DEFINE new == [id |-> server.next, due |-> c.due, for |-> c.for, paid |-> None]
  <2>1. House!Saved(c) = server.obligations \cup {new} /\ new.due = c.due
    BY <1>1 DEF House!Saved
  <2> HIDE DEF new
  <2> QED BY <2>1, <1>0, <1>1 DEF DatedForm
<1>2. CASE c.kind = "add"
  <2> DEFINE new(m) == [id |-> server.next, due |-> m,
                        for |-> [loan |-> c.loan, kind |-> "loan_payment"], paid |-> None]
  <2>1. House!Saved(c) = server.obligations \cup {new(m) : m \in c.read}
    BY <1>2 DEF House!Saved
  <2>2. \A m : new(m).due = m
    OBVIOUS
  <2>3. c.read \subseteq Int
    BY <1>2, DuesAreMonths DEF LoanInv, HeldLoan, House!OpenDue
  <2> HIDE DEF new
  <2> QED BY <2>1, <2>2, <2>3, <1>0
<1>3. CASE c.kind = "edit"
  <2> DEFINE without == {o \in server.obligations : o.id # c.id}
             edited(o) == [o EXCEPT !.due = c.due, !.for = c.for]
  <2>1. House!Saved(c) = without \cup {edited(o) : o \in c.read}
    BY <1>3 DEF House!Saved
  <2>2. c.read \subseteq server.obligations
    BY <1>3 DEF LoanInv, HouseInv, HouseCalls, HeldEdit, House!Named
  <2>3. \A o \in server.obligations : edited(o).due = c.due
    BY DEF LoanInv, HouseInv, HouseTypes
  <2> HIDE DEF edited
  <2> QED BY <2>1, <2>2, <2>3, <1>0, <1>3 DEF DatedForm
<1>4. CASE c.kind = "mark"
  <2> DEFINE without == {o \in server.obligations : o.id # c.id}
             marked(o) == [o EXCEPT !.paid = c.row]
  <2>1. House!Saved(c) = without \cup {marked(o) : o \in c.read}
    BY <1>4 DEF House!Saved
  <2>2. c.read \subseteq server.obligations
    BY <1>4 DEF LoanInv, HouseInv, HouseCalls, HeldMark, House!Named
  <2>3. \A o : marked(o).due = o.due
    OBVIOUS
  <2> HIDE DEF marked
  <2> QED BY <2>1, <2>2, <2>3, <1>0
<1>5. CASE c.kind \notin {"record", "add", "edit", "mark"}
  <2>1. House!Saved(c) \subseteq server.obligations
    <3>1. CASE c.kind = "delete"
      BY <3>1 DEF House!Saved
    <3>2. CASE c.kind \in {"close", "replace"}
      BY <3>2 DEF House!Saved
    <3>3. CASE c.kind \notin {"delete", "close", "replace"}
      BY <1>5, <3>3 DEF House!Saved
    <3> QED BY <3>1, <3>2, <3>3
  <2> QED BY <2>1, <1>0
<1> QED BY <1>1, <1>2, <1>3, <1>4, <1>5

\* The server takes requests one at a time: when one has written, no
\* other has read yet.
LEMMA LoanWrite ==
    ASSUME LoanInv, HouseInv', NEW c \in calls, House!Write(c) PROVE LoanInv'
<1>1. /\ c.read # None /\ calls' = calls \ {c} /\ server'.obligations = House!Saved(c)
      /\ view' = [view EXCEPT !.dialog = None] \/ view' = view
  BY DEF House!Write, House!Answer, LoanInv, HouseInv, HouseTypes
<1>2. Dated(server.obligations)'
  BY <1>1, HouseDates DEF Dated
<1>3. DatedPage' /\ DatedCalls'
  BY <1>1 DEF LoanInv, DatedPage, DatedCalls
<1>4. \A d \in calls' : d.read = None
  BY <1>1 DEF LoanInv, HouseInv, HouseCalls
<1>5. \A d \in calls' : HeldLoan(d)'
  BY <1>4 DEF HeldLoan
<1> QED BY <1>2, <1>3, <1>5 DEF LoanInv

\* What a loan's closing month becomes.
LEMMA ClosedLoan ==
    ASSUME NEW c, c.kind \in {"close", "replace"}, c.loan \in DOMAIN server.loans,
           c.kind = "replace" => Loans \ DOMAIN server.loans # {}
    PROVE  House!SavedLoans(c)[c.loan].closed = c.month
<1> DEFINE closed(by) == [server.loans EXCEPT ![c.loan] = [closed |-> c.month, by |-> by]]
<1>1. \A by : closed(by)[c.loan].closed = c.month
  OBVIOUS
<1>2. CASE c.kind = "close"
  BY <1>1, <1>2 DEF House!SavedLoans
<1>3. CASE c.kind = "replace"
  <2> DEFINE l == CHOOSE x \in Loans : x \notin DOMAIN server.loans
  <2>1. l \notin DOMAIN server.loans
    BY <1>3
  <2>2. House!SavedLoans(c) = [x \in DOMAIN server.loans \cup {l} |->
            IF x = l THEN [closed |-> None, by |-> None] ELSE closed(l)[x]]
    BY <1>3 DEF House!SavedLoans
  <2> HIDE DEF l, closed
  <2>3. House!SavedLoans(c)[c.loan] = closed(l)[c.loan]
    BY <2>1, <2>2
  <2> QED BY <1>1, <2>3
<1> QED BY <1>2, <1>3

(* What a write does to the payments of its loan.                          *)
LEMMA LoanFollowed ==
    ASSUME LoanInv, NEW c \in calls, House!Write(c) PROVE House!FollowsTheLoan
<1>1. /\ c.read # None /\ calls' = calls \ {c} /\ server'.obligations = House!Saved(c)
      /\ server'.loans = House!SavedLoans(c)
      /\ c.kind \in {"close", "replace", "deleteLoan"} => c.loan \in DOMAIN server.loans
      /\ c.kind = "replace" => Loans \ DOMAIN server.loans # {}
  <2>1. "loans" \in DOMAIN server /\ "obligations" \in DOMAIN server
    BY DEF LoanInv, HouseInv, HouseTypes
  <2> QED BY <2>1 DEF House!Write, House!Answer
<1>2. ASSUME c.kind = "add", NEW o \in server'.obligations \ server.obligations
      PROVE  /\ House!Open(server.loans, c.loan)
             /\ \A x \in House!Payments(c.loan) : x.due # o.due
  <2> DEFINE new(m) == [id |-> server.next, due |-> m,
                        for |-> [loan |-> c.loan, kind |-> "loan_payment"], paid |-> None]
  <2>1. House!Saved(c) = server.obligations \cup {new(m) : m \in c.read}
    BY <1>2 DEF House!Saved
  <2>2. \A m : new(m).due = m
    OBVIOUS
  <2> HIDE DEF new
  <2>3. o.due \in c.read
    BY <1>1, <1>2, <2>1, <2>2
  <2>4. House!Open(server.loans, c.loan) /\ c.read = House!OpenDue(c.loan)
    BY <1>1, <1>2 DEF LoanInv, HeldLoan
  <2>5. \A x \in House!Payments(c.loan) : x.due < o.due /\ x.due \in Int
    BY <2>3, <2>4 DEF House!OpenDue, LoanInv, Dated, House!Payments
  <2>6. o.due \in Int
    BY <2>3, <2>4, DuesAreMonths DEF House!OpenDue
  <2> QED BY <2>4, <2>5, <2>6
<1>3. ASSUME c.kind \in {"close", "replace"}, NEW o \in House!Payments(c.loan)'
      PROVE  o.paid # None \/ o.due <= server'.loans[c.loan].closed
  <2>1. c.read = {x.id : x \in House!Lapsed(c)}
    BY <1>1, <1>3 DEF LoanInv, HeldLoan
  <2>2. /\ House!Saved(c) = {x \in server.obligations : x.id \notin c.read}
        /\ server'.loans[c.loan].closed = c.month
    BY <1>1, <1>3, ClosedLoan DEF House!Saved
  <2>3. o \in server.obligations /\ o \notin House!Lapsed(c)
        /\ o.for = [loan |-> c.loan, kind |-> "loan_payment"]
    BY <1>1, <1>3, <2>1, <2>2 DEF House!Payments
  <2>4. o.paid # None \/ ~(o.due > c.month)
    BY <2>3 DEF House!Lapsed, House!Payments
  <2>5. o.due \in Int /\ c.month \in Int
    BY <1>3, <2>3 DEF LoanInv, Dated, DatedCalls, DatedForm
  <2> QED BY <2>2, <2>4, <2>5
<1>4. \A d \in calls : d \notin calls' => d = c
  BY <1>1
<1> QED BY <1>2, <1>3, <1>4 DEF House!FollowsTheLoan

(* The dialogs of the page: what they hold is dated.                       *)
LEMMA LoanPageStep ==
    ASSUME LoanInv, House!Next PROVE DatedPage'
<1>0. DatedPage /\ Dated(server.obligations)
  BY DEF LoanInv
<1>1. ASSUME NEW d, DatedForm(d), view' = [view EXCEPT !.dialog = d] PROVE DatedPage'
  BY <1>0, <1>1 DEF DatedPage
<1>2. ASSUME view' = [view EXCEPT !.dialog = None] \/ view' = view PROVE DatedPage'
  BY <1>0, <1>2 DEF DatedPage
<1>3. CASE House!Arrive
  <2>1. House!Current.obligations = server.obligations
    BY DEF House!Current
  <2> QED BY <1>0, <1>3, <2>1 DEF House!Arrive, DatedPage, Dated
<1>4. CASE House!Record
  <2> DEFINE d == [kind |-> "record", id |-> 0, due |-> 1, for |-> House!NoLoan]
  <2>1. DatedForm(d) /\ view' = [view EXCEPT !.dialog = d]
    BY <1>4 DEF House!Record, House!OpenDialog, DatedForm
  <2> HIDE DEF d
  <2> QED BY <1>1, <2>1
<1>5. ASSUME NEW o \in House!Shown, House!Edit(o) PROVE DatedPage'
  <2> DEFINE d == House!Form(o)
  <2>1. o.due \in Int
    BY <1>0, <1>5 DEF DatedPage, Dated, House!Shown
  <2>2. DatedForm(d) /\ view' = [view EXCEPT !.dialog = d]
    BY <1>5, <2>1 DEF House!Edit, House!OpenDialog, House!Form, DatedForm
  <2> HIDE DEF d
  <2> QED BY <1>1, <2>2
<1>6. ASSUME NEW o, House!MarkPaid(o) \/ House!Delete(o) PROVE DatedPage'
  <2>1. PICK d : /\ DatedForm(d) /\ view' = [view EXCEPT !.dialog = d]
    <3>1. CASE House!MarkPaid(o)
      <4> DEFINE d == [kind |-> "mark", id |-> o.id, row |-> None, candidates |-> None]
      <4>1. DatedForm(d) /\ view' = [view EXCEPT !.dialog = d]
        BY <3>1 DEF House!MarkPaid, House!OpenDialog, DatedForm
      <4> HIDE DEF d
      <4> QED BY <4>1
    <3>2. CASE House!Delete(o)
      <4> DEFINE d == [kind |-> "delete", id |-> o.id]
      <4>1. DatedForm(d) /\ view' = [view EXCEPT !.dialog = d]
        BY <3>2 DEF House!Delete, House!OpenDialog, DatedForm
      <4> HIDE DEF d
      <4> QED BY <4>1
    <3> QED BY <1>6, <3>1, <3>2
  <2> QED BY <1>1, <2>1
<1>7. ASSUME NEW kind \in {"statement", "close", "replace", "deleteLoan"}, NEW l,
             House!LoanAction(kind, l)
      PROVE  DatedPage'
  <2> DEFINE d == [kind |-> kind, loan |-> l, month |-> 1]
  <2>1. DatedForm(d) /\ view' = [view EXCEPT !.dialog = d]
    BY <1>7 DEF House!LoanAction, House!OpenDialog, DatedForm
  <2> HIDE DEF d
  <2> QED BY <1>1, <2>1
<1>8. ASSUME NEW m \in Dues, NEW loan, House!Draft(m, loan) PROVE DatedPage'
  <2> DEFINE d == [view.dialog EXCEPT !.due = m, !.for = loan]
  <2>1. DatedForm(view.dialog) /\ view.dialog.kind \in {"record", "edit"}
        /\ view' = [view EXCEPT !.dialog = d]
    BY <1>0, <1>8 DEF DatedPage, House!Draft, House!Change
  <2>2. DatedForm(d)
    BY <2>1, DuesAreMonths DEF DatedForm
  <2> HIDE DEF d
  <2> QED BY <1>1, <2>1, <2>2
<1>9. ASSUME NEW m \in Dues, House!PickMonth(m) PROVE DatedPage'
  <2> DEFINE d == [view.dialog EXCEPT !.month = m]
  <2>1. DatedForm(view.dialog) /\ view.dialog.kind \in {"close", "replace"}
        /\ view' = [view EXCEPT !.dialog = d]
    BY <1>0, <1>9 DEF DatedPage, House!PickMonth, House!Change
  <2>2. DatedForm(d)
    BY <2>1, DuesAreMonths DEF DatedForm
  <2> HIDE DEF d
  <2> QED BY <1>1, <2>1, <2>2
<1>10. ASSUME House!FindRows \/ \E r \in Transfers : House!PickRow(r) PROVE DatedPage'
  <2>0. PICK f \in {"candidates", "row"} : \E x :
            /\ view' = [view EXCEPT !.dialog = [view.dialog EXCEPT ![f] = x]]
            /\ view.dialog.kind = "mark" /\ view.dialog # None
    BY <1>10 DEF House!FindRows, House!PickRow, House!Change
  <2>1. PICK x :
            /\ view' = [view EXCEPT !.dialog = [view.dialog EXCEPT ![f] = x]]
            /\ view.dialog.kind = "mark" /\ view.dialog # None
    BY <2>0
  <2>2. DatedForm([view.dialog EXCEPT ![f] = x])
    BY <1>0, <2>1 DEF DatedPage, DatedForm
  <2> QED BY <1>1, <2>1, <2>2
<1>11. CASE House!Close
  BY <1>2, <1>11 DEF House!Close
<1>12. ASSUME NEW c \in calls, House!Read(c) \/ House!Write(c) \/ House!Refuse(c)
       PROVE  DatedPage'
  BY <1>2, <1>12 DEF House!Read, House!Write, House!Refuse, House!Answer
<1>13. ASSUME NEW call, NEW new, House!Send(call, new), new = view PROVE DatedPage'
  BY <1>0, <1>13 DEF House!Send, DatedPage
<1>14. ASSUME NEW call, House!PartnerSends(call) PROVE DatedPage'
  BY <1>2, <1>14 DEF House!PartnerSends
<1>15. CASE House!Submit
  BY <1>13, <1>15 DEF House!Submit
<1>16. ASSUME NEW o, House!Unmark(o) PROVE DatedPage'
  BY <1>13, <1>16 DEF House!Unmark
<1>17. ASSUME NEW l, House!AddPayments(l) PROVE DatedPage'
  BY <1>13, <1>17 DEF House!AddPayments
<1> QED BY <1>3, <1>4, <1>5, <1>6, <1>7, <1>8, <1>9, <1>10, <1>11, <1>12, <1>14, <1>15,
           <1>16, <1>17 DEF House!Next

\* What a form or a button of the page, or the partner's page, sends.
LEMMA LoanSent ==
    ASSUME LoanInv, HouseInv', DatedPage', NEW call, DatedForm(call), NEW by, NEW try,
           calls' = calls \cup {House!Request(call, by, try)},
           server'.obligations = server.obligations, server'.loans = server.loans
    PROVE  LoanInv' /\ House!FollowsTheLoan
<1> DEFINE c == House!Request(call, by, try)
<1>1. DatedForm(c) /\ {"read", "loan", "month"} \subseteq DOMAIN c /\ c.read = None
  BY HouseRequest
<1>2. calls' = calls \cup {c}
  OBVIOUS
<1> HIDE DEF c
<1>3. House!FollowsTheLoan
  BY <1>2 DEF House!FollowsTheLoan
<1>4. LoanInv'
  BY <1>1, <1>2, LoanQuiet
<1> QED BY <1>3, <1>4

\* Every step keeps the invariant, and payments follow the loan in it.
LEMMA LoanStep == LoanInv /\ House!Next => LoanInv' /\ House!FollowsTheLoan
<1> SUFFICES ASSUME LoanInv, House!Next PROVE LoanInv' /\ House!FollowsTheLoan
  OBVIOUS
<1>0. HouseInv' /\ DatedPage'
  BY HouseStep, LoanPageStep DEF LoanInv
<1>1. CASE UNCHANGED <<server, calls>>
  BY <1>0, <1>1, LoanQuiet DEF House!FollowsTheLoan
<1>2. ASSUME NEW call, DatedForm(call), NEW new, House!Send(call, new)
      PROVE  LoanInv' /\ House!FollowsTheLoan
  BY <1>0, <1>2, LoanSent DEF House!Send
<1>3. ASSUME NEW call, DatedForm(call), House!PartnerSends(call)
      PROVE  LoanInv' /\ House!FollowsTheLoan
  BY <1>0, <1>3, LoanSent DEF House!PartnerSends
<1>4. ASSUME NEW c \in calls, House!Refuse(c) PROVE LoanInv' /\ House!FollowsTheLoan
  BY <1>0, <1>4, LoanQuiet DEF House!Refuse, House!Answer, House!FollowsTheLoan
<1>5. ASSUME NEW c \in calls, House!Read(c) PROVE LoanInv' /\ House!FollowsTheLoan
  BY <1>0, <1>5, LoanRead DEF House!Read, House!FollowsTheLoan
<1>6. ASSUME NEW c \in calls, House!Write(c) PROVE LoanInv' /\ House!FollowsTheLoan
  BY <1>0, <1>6, LoanWrite, LoanFollowed
<1>7. CASE House!Submit
  BY <1>2, <1>7 DEF House!Submit, LoanInv, DatedPage
<1>8. ASSUME NEW o, House!Unmark(o) PROVE LoanInv' /\ House!FollowsTheLoan
  <2>1. DatedForm([kind |-> "mark", id |-> o.id])
    BY DEF DatedForm
  <2> QED BY <1>2, <1>8, <2>1 DEF House!Unmark
<1>9. ASSUME NEW l, House!AddPayments(l) PROVE LoanInv' /\ House!FollowsTheLoan
  <2>1. DatedForm([kind |-> "add", loan |-> l])
    BY DEF DatedForm
  <2> QED BY <1>2, <1>9, <2>1 DEF House!AddPayments
<1>10. ASSUME NEW o, NEW r, House!PartnerSends([kind |-> "mark", id |-> o.id, row |-> r])
       PROVE  LoanInv' /\ House!FollowsTheLoan
  <2>1. DatedForm([kind |-> "mark", id |-> o.id, row |-> r])
    BY DEF DatedForm
  <2> QED BY <1>3, <1>10, <2>1
<1>11. ASSUME NEW call \in {[kind |-> "add", loan |-> House!First],
                            [kind |-> "close", loan |-> House!First, month |-> 1],
                            [kind |-> "delete", id |-> 1]},
              House!PartnerSends(call)
       PROVE  LoanInv' /\ House!FollowsTheLoan
  <2>1. DatedForm(call)
    BY <1>11 DEF DatedForm
  <2> QED BY <1>3, <1>11, <2>1
<1>12. \/ UNCHANGED <<server, calls>> \/ House!Submit
       \/ \E o : House!Unmark(o)
       \/ \E l : House!AddPayments(l)
       \/ \E o, r : House!PartnerSends([kind |-> "mark", id |-> o.id, row |-> r])
       \/ \E call \in {[kind |-> "add", loan |-> House!First],
                       [kind |-> "close", loan |-> House!First, month |-> 1],
                       [kind |-> "delete", id |-> 1]} : House!PartnerSends(call)
       \/ \E c \in calls : House!Read(c) \/ House!Write(c) \/ House!Refuse(c)
  BY DEF House!Next, House!Arrive, House!Record, House!Close, House!FindRows,
         House!Edit, House!MarkPaid, House!Delete, House!LoanAction, House!PickMonth,
         House!Draft, House!PickRow, House!OpenDialog, House!Change
<1> QED BY <1>1, <1>4, <1>5, <1>6, <1>7, <1>8, <1>9, <1>10, <1>11, <1>12

\* So it holds whenever the house page is open.
LEMMA LoanInvariant == Spec => []On("house", LoanInv)
<1> DEFINE Inv == On("house", LoanInv)
<1>1. Init => Inv
  BY LoanInit DEF Init, On
<1>2. Inv /\ [Next]_vars => Inv'
  <2> SUFFICES ASSUME Inv, page = "house", [Next]_vars PROVE On("house", LoanInv)'
    BY DEF Next, On, vars
  <2>1. CASE House!Next
    BY <2>1, LoanStep DEF On
  <2>2. CASE UNCHANGED vars
    <3>1. HouseInv'
      BY <2>2, HouseQuiet DEF vars, On, LoanInv
    <3> QED BY <2>2, <3>1, LoanQuiet DEF vars, On, LoanInv, DatedPage
  <2> QED BY <2>1, <2>2 DEF Next
<1> QED BY <1>1, <1>2, PTL DEF Spec

(* A loan gets its payments at most once a month, and loses those to come    *)
(* when it closes, when requests do not overlap (domain/loans.py,            *)
(* house_records.py).                                                        *)
THEOREM LoanPaymentsFollow == Spec => PaymentsFollowTheLoan
<1>1. On("house", LoanInv) /\ [Next]_vars => [page = "house" => House!FollowsTheLoan]_vars
  BY LoanStep DEF On, Next
<1> QED BY <1>1, LoanInvariant, PTL DEF Spec, PaymentsFollowTheLoan

----------------------------------------------------------------------------
(* What the pages add up.  Each page's sum is the sum of module Sums.       *)
LEMMA PageSums ==
    \A f : /\ Filters!SumFunction(f) = Sum(f, DOMAIN f)
           /\ Settle!SumFunction(f) = Sum(f, DOMAIN f)
           /\ Link!SumFunction(f) = Sum(f, DOMAIN f)
           /\ Balance!SumFunction(f) = Sum(f, DOMAIN f)
<1> USE DEF Sum, SumFunctionOnSet, FoldFunctionOnSet, MapThenFoldSet
<1>1. \A f : Filters!SumFunction(f) = Sum(f, DOMAIN f)
  BY DEF Filters!SumFunction, Filters!SumFunctionOnSet, Filters!FoldFunctionOnSet, Filters!MapThenFoldSet
<1>2. \A f : Settle!SumFunction(f) = Sum(f, DOMAIN f)
  BY DEF Settle!SumFunction, Settle!SumFunctionOnSet, Settle!FoldFunctionOnSet, Settle!MapThenFoldSet
<1>3. \A f : Link!SumFunction(f) = Sum(f, DOMAIN f)
  BY DEF Link!SumFunction, Link!SumFunctionOnSet, Link!FoldFunctionOnSet, Link!MapThenFoldSet
<1>4. \A f : Balance!SumFunction(f) = Sum(f, DOMAIN f)
  BY DEF Balance!SumFunction, Balance!SumFunctionOnSet, Balance!FoldFunctionOnSet, Balance!MapThenFoldSet
<1> QED BY <1>1, <1>2, <1>3, <1>4

----------------------------------------------------------------------------
\* A page counts as the library does.
LEMMA PageCounts == \A S : Filters!Cardinality(S) = Cardinality(S) /\ Link!Cardinality(S) = Cardinality(S)
BY DEF Cardinality, Filters!Cardinality, Link!Cardinality

----------------------------------------------------------------------------
(* The Transactions table: the total in view.                               *)

\* The rows never change under the filters.
LEMMA RowsStay == Spec => []On("filters", server = Rows)
<1> DEFINE Inv == On("filters", server = Rows)
<1>1. Init => Inv
  BY DEF Init, On, Filters!Init
<1>2. ASSUME page = "filters", Filters!Next PROVE UNCHANGED server
  BY <1>2 DEF Filters!Next, Filters!TypeText, Filters!SearchFires, Filters!ClearText,
     Filters!TypeAmounts, Filters!ApplyAmounts, Filters!ClearAmounts, Filters!PickScope,
     Filters!PickPayer, Filters!PickCategory, Filters!PickGroup, Filters!PickTag,
     Filters!PickChip, Filters!ClickHeader, Filters!RemovePill, Filters!ClearAll,
     Filters!Rewrite, Filters!RewriteFrom
<1>3. Inv /\ [Next]_vars => Inv'
  BY <1>2 DEF Next, On, vars
<1> QED BY <1>1, <1>3, PTL DEF Spec

\* Rounding half up moves a number of cents by half a cent at most.
LEMMA HalfUpNear ==
    ASSUME NEW x \in Int
    PROVE  Filters!HalfUp(x) \in Int /\ 100 * Filters!HalfUp(x) - x \in -50..50
<1> DEFINE q == (x + 50) \div 100
<1>1. q \in Int /\ x + 50 - 100 * q \in 0..99
  OBVIOUS
<1> HIDE DEF q
<1>2. 100 * q - x \in -50..50
  BY <1>1
<1> QED BY <1>1, <1>2 DEF Filters!HalfUp, q

\* A row is split between the two, whoever leads.
LEMMA RowSplit ==
    ASSUME NEW row \in Rows, ~Filters!IsNotSpending(row)
    PROVE  LET lead == Filters!Lead(row) IN
           /\ row.amount \in Int /\ lead \in {Me, Partner} /\ row.shares[lead] \in 0..100
           /\ Filters!MyPercentage(row, Me) \in 0..100
           /\ lead = Me => Filters!MyPercentage(row, Me) = row.shares[lead]
           /\ lead # Me => Filters!MyPercentage(row, Me) = 100 - row.shares[lead]
<1>1. /\ row.amount \in Int /\ row.shares \in [People -> 0..100]
      /\ row.shares[Me] + row.shares[Partner] = 100 /\ row.payer \in People \cup {NoOne}
  BY SpendingIsSplit DEF Filters!IsNotSpending
<1>2. Filters!Lead(row) \in {Me, Partner}
  BY <1>1, TwoPeople DEF Filters!Lead
<1>3. Filters!MyPercentage(row, Me) = row.shares[Me]
  BY <1>1, TwoPeople DEF Filters!MyPercentage
<1>4. row.shares[Me] \in 0..100 /\ row.shares[Partner] \in 0..100
  BY <1>1, TwoPeople
<1>5. CASE Filters!Lead(row) = Me
  BY <1>1, <1>3, <1>4, <1>5
<1>6. CASE Filters!Lead(row) = Partner
  BY <1>1, <1>3, <1>4, <1>6, TwoPeople
<1> QED BY <1>2, <1>5, <1>6

\* The share the client shows and the one the server rounds are half a cent
\* apart at most.
LEMMA ShareNear ==
    ASSUME NEW row \in Rows, ~Filters!IsNotSpending(row)
    PROVE  /\ Filters!MyShareAmount(row, Me) \in Int /\ Filters!ServerShare(row, Me) \in Int
           /\ 100 * Filters!ServerShare(row, Me) - Filters!MyShareAmount(row, Me) \in -50..50
<1> DEFINE a == row.amount
           n == IF a < 0 THEN -a ELSE a
           s == row.shares[Filters!Lead(row)]
           p == Filters!MyPercentage(row, Me)
           paid == Filters!HalfUp(n * s)
           mine == IF Filters!Lead(row) = Me THEN paid ELSE n - paid
<1>1. /\ a \in Int /\ s \in 0..100 /\ p \in 0..100
      /\ Filters!Lead(row) = Me => p = s
      /\ Filters!Lead(row) # Me => p = 100 - s
  BY RowSplit
<1>2. /\ Filters!MyShareAmount(row, Me) = a * p
      /\ Filters!ServerShare(row, Me) = IF a < 0 THEN -mine ELSE mine
  BY DEF Filters!MyShareAmount, Filters!ServerShare, Filters!Magnitude
<1>3. n \in Int /\ n * s \in Int /\ n * p \in Int
  BY <1>1
<1>4. paid \in Int /\ 100 * paid - n * s \in -50..50
  BY <1>3, HalfUpNear
<1>5. Filters!Lead(row) # Me => n * p = 100 * n - n * s
  <2>1. \A x, y \in Int : x * (100 - y) = 100 * x - x * y
    OBVIOUS
  <2> HIDE DEF n, s, p
  <2> QED BY <1>1, <1>3, <2>1
<1>6. a * p \in Int /\ a * p = IF a < 0 THEN -(n * p) ELSE n * p
  <2>1. \A x, y \in Int : x * y = -((-x) * y)
    OBVIOUS
  <2> HIDE DEF s, p
  <2> QED BY <1>1, <2>1
<1> HIDE DEF n, s, p, a
<1>7. mine \in Int /\ 100 * mine - n * p \in -50..50
  <2>1. CASE Filters!Lead(row) = Me
    BY <1>1, <1>3, <1>4, <2>1
  <2>2. CASE Filters!Lead(row) # Me
    BY <1>3, <1>4, <1>5, <2>2
  <2> QED BY <2>1, <2>2
<1> HIDE DEF paid, mine
<1> QED BY <1>2, <1>3, <1>6, <1>7

\* So their totals are half a cent a row apart at most.
LEMMA TotalsNear ==
    ASSUME NEW rows, rows \subseteq Rows, \A r \in rows : ~Filters!IsNotSpending(r)
    PROVE  Filters!MyNet(rows, Me) + 100 * Filters!SumFunction([r \in rows |-> Filters!ServerShare(r, Me)])
             \in -50 * Cardinality(rows) .. 50 * Cardinality(rows)
<1> DEFINE mine == [r \in rows |-> Filters!MyShareAmount(r, Me)]
           theirs == [r \in rows |-> Filters!ServerShare(r, Me)]
           hundredths == [r \in rows |-> 100 * theirs[r]]
           off == [r \in rows |-> hundredths[r] - mine[r]]
           low == [r \in rows |-> -50]
           high == [r \in rows |-> 50]
<1>1. IsFiniteSet(rows)
  BY FS_Subset, MoneyIsCounted
<1>2. \A r \in rows : /\ mine[r] \in Int /\ theirs[r] \in Int /\ off[r] \in -50..50
                      /\ hundredths[r] = 100 * theirs[r] /\ off[r] = hundredths[r] - mine[r]
                      /\ low[r] = -50 /\ high[r] = 50
  BY ShareNear
<1>3. /\ Filters!MyNet(rows, Me) = -Sum(mine, rows)
      /\ Filters!SumFunction(theirs) = Sum(theirs, rows)
  BY PageSums DEF Filters!MyNet
<1> HIDE DEF mine, theirs, hundredths, off, low, high
<1>4. /\ IntOn(mine, rows) /\ IntOn(theirs, rows) /\ IntOn(hundredths, rows)
      /\ IntOn(off, rows) /\ IntOn(low, rows) /\ IntOn(high, rows)
  BY <1>2 DEF IntOn
<1>5. Sum(hundredths, rows) = 100 * Sum(theirs, rows)
  <2>1. \A r \in rows : hundredths[r] = 100 * theirs[r]
    BY <1>2
  <2> QED BY <1>1, <1>4, <2>1, SumScale
<1>6. Sum(hundredths, rows) = Sum(off, rows) + Sum(mine, rows)
  <2>1. \A r \in rows : hundredths[r] = off[r] + mine[r]
    BY <1>2
  <2> QED BY <1>1, <1>4, <2>1, SumPlus
<1>7. /\ Sum(mine, rows) \in Int /\ Sum(theirs, rows) \in Int /\ Sum(off, rows) \in Int
  BY <1>1, <1>4, SumInt
<1>8. Sum(low, rows) = -50 * Cardinality(rows) /\ Sum(high, rows) = 50 * Cardinality(rows)
  <2> DEFINE under == -50
  <2>1. under = -50 /\ (\A r \in rows : low[r] = under) /\ \A r \in rows : high[r] = 50
    BY <1>2
  <2> HIDE DEF under
  <2>2. under \in Int /\ Sum(low, rows) = under * Cardinality(rows)
    BY <1>1, <2>1, SumConstant
  <2>3. Sum(high, rows) = 50 * Cardinality(rows)
    BY <1>1, <2>1, SumConstant
  <2>4. Cardinality(rows) \in Int
    BY <1>1, FS_CardinalityType
  <2>5. under * Cardinality(rows) = -50 * Cardinality(rows)
    BY <2>1, <2>4
  <2> QED BY <2>2, <2>3, <2>5
<1>9. Sum(low, rows) <= Sum(off, rows)
  <2>1. \A r \in rows : low[r] <= off[r]
    BY <1>2
  <2> QED BY <1>1, <1>4, <2>1, SumMonotone
<1>10. Sum(off, rows) <= Sum(high, rows)
  <2>1. \A r \in rows : off[r] <= high[r]
    BY <1>2
  <2> QED BY <1>1, <1>4, <2>1, SumMonotone
<1>11. Cardinality(rows) \in Nat
  BY <1>1, FS_CardinalityType
<1>12. -Sum(mine, rows) + 100 * Sum(theirs, rows) = Sum(off, rows)
  BY <1>5, <1>6, <1>7
<1>13. Sum(off, rows) \in -50 * Cardinality(rows) .. 50 * Cardinality(rows)
  BY <1>7, <1>8, <1>9, <1>10, <1>11
<1> QED BY <1>3, <1>12, <1>13 DEF theirs

\* The personal "in view" total is the server's to half a cent a row
\* (transaction-filters.ts, sumMyShares; domain/splits.py).
THEOREM InViewNearServer == Spec => []InViewWithinRounding
<1>1. On("filters", server = Rows) => InViewWithinRounding
  <2> SUFFICES ASSUME page = "filters", server = Rows, Filters!Filters.scope = "personal"
               PROVE  Filters!InViewWithinRounding
    BY DEF On, InViewWithinRounding, Filters!InViewWithinRounding
  <2> DEFINE rows == {r \in Filters!Filtered(server, Filters!Filters, Me) : Filters!IsSpendingRow(r)}
  <2>1. rows \subseteq Rows /\ \A r \in rows : ~Filters!IsNotSpending(r)
    BY DEF Filters!Filtered, Filters!IsSpendingRow
  <2>2. Filters!InView = Filters!MyNet(rows, Me)
    BY DEF Filters!InView
  <2> HIDE DEF rows
  <2>3. Filters!MyNet(rows, Me) + 100 * Filters!SumFunction([r \in rows |-> Filters!ServerShare(r, Me)])
          \in -50 * Cardinality(rows) .. 50 * Cardinality(rows)
    BY <2>1, TotalsNear
  <2>4. Filters!Cardinality(rows) = Cardinality(rows)
    BY PageCounts
  <2> QED BY <2>2, <2>3, <2>4 DEF Filters!InViewWithinRounding, rows
<1> QED BY <1>1, RowsStay, PTL

----------------------------------------------------------------------------
(* The Settle Up page: the audit table of a month, and waivers.  The         *)
(* payments an answer holds have whole amounts, a request to waive names the *)
(* direction of the year it saw, and no two payments have the same number:   *)
(* those recorded elsewhere have theirs, and waivers the ones below zero.    *)
Payments(st) ==
    /\ IsFiniteSet(DOMAIN st)
    /\ \A s \in DOMAIN st : \A m \in DOMAIN st[s].portions : st[s].portions[m] \in Int
Ledgers(d) == d # NoData => Payments(d.stored)
SettleFields == {"month", "explicit", "cache", "last", "picked", "collapsed", "waiving", "deleting", "failed"}
SettleView ==
    /\ DOMAIN view = SettleFields
    /\ view.month \in Calendar /\ Ledgers(view.last)
    /\ DOMAIN view.cache = Calendar /\ \A m \in Calendar : Ledgers(view.cache[m])
SettleServer ==
    /\ DOMAIN server = {"stored", "locked", "done"} /\ server.done \in Nat
    /\ Payments(server.stored)
    /\ \A s \in DOMAIN server.stored : s \in Int /\ -server.done <= s
SettleCall(c) ==
    /\ c.kind = "fetch" => c.month \in Calendar /\ Ledgers(c.answer)
    /\ c.kind = "waive" => c.from = Settle!Owing(Settle!YearBalance(c.saw, c.year))
SettleInv == SettleView /\ SettleServer /\ \A c \in calls : SettleCall(c)

\* What each person fronted, and each payment's part of a month, in cents.
LEMMA SettleCents ==
    ASSUME NEW m \in Calendar, NEW st, Payments(st)
    PROVE  /\ Fronted[m][Settle!First] \in Int /\ Fronted[m][Settle!Second] \in Int
           /\ \A s \in DOMAIN st :
                 /\ Settle!Portion(st[s], m) \in Int
                 /\ ~Settle!Touches(st[s], m) => Settle!Portion(st[s], m) = 0
<1>1. Fronted[m] \in [{"first", "second"} -> Int]
  BY MoneyIsCounted
<1>2. Fronted[m]["first"] \in Int /\ Fronted[m]["second"] \in Int
  BY <1>1
<1>3. ASSUME NEW s \in DOMAIN st
      PROVE  /\ Settle!Portion(st[s], m) \in Int
             /\ ~Settle!Touches(st[s], m) => Settle!Portion(st[s], m) = 0
  BY DEF Settle!Portion, Settle!Touches, Payments
<1> QED BY <1>2, <1>3 DEF Settle!First, Settle!Second

\* The rows of what was fronted sum to its difference.
LEMMA FrontedNet ==
    ASSUME NEW m \in Calendar
    PROVE  Settle!SumFunction([p \in {Settle!First, Settle!Second} |-> Settle!SplitRow(p, m).net])
             = Fronted[m][Settle!First] - Fronted[m][Settle!Second]
<1> DEFINE f == [p \in {Settle!First, Settle!Second} |-> Settle!SplitRow(p, m).net]
           a == Fronted[m][Settle!First]
           b == Fronted[m][Settle!Second]
<1>0. Fronted[m] \in [{"first", "second"} -> Int]
  BY MoneyIsCounted
<1>1. a \in Int /\ b \in Int /\ Settle!First # Settle!Second
  BY <1>0 DEF Settle!First, Settle!Second
<1>2. f[Settle!First] = a /\ f[Settle!Second] = -b
  BY <1>1 DEF Settle!SplitRow, Settle!SignedForFirst
<1>3. Settle!SumFunction(f) = Sum(f, {Settle!First, Settle!Second})
  BY PageSums
<1> HIDE DEF f, a, b
<1>4. f[Settle!First] \in Int /\ f[Settle!Second] \in Int
  BY <1>1, <1>2
<1>5. Sum(f, {Settle!First, Settle!Second}) = f[Settle!First] + f[Settle!Second]
  BY <1>1, <1>4, SumTwo
<1>6. Settle!SumFunction(f) = a - b
  BY <1>1, <1>2, <1>3, <1>5
<1> QED BY <1>6 DEF f, a, b

\* The payments that touch a month are the ones that move its balance.
LEMMA PaymentsNet ==
    ASSUME NEW m \in Calendar, NEW data, Payments(data.stored)
    PROVE  LET touching == Settle!SettlementsTouching(data, m)
           IN /\ Settle!SumFunction([s \in touching |-> Settle!SettlementRow(data.stored[s], m).net])
                   = Settle!Paid(data.stored, m)
              /\ touching = {} => Settle!Paid(data.stored, m) = 0
              /\ Settle!Paid(data.stored, m) \in Int
<1> DEFINE st == data.stored
           all == DOMAIN st
           touching == Settle!SettlementsTouching(data, m)
           each == [s \in all |-> Settle!SignedForFirst(Settle!Portion(st[s], m), st[s].from)]
           rows == [s \in touching |-> Settle!SettlementRow(st[s], m).net]
<1>1. /\ touching \subseteq all /\ IsFiniteSet(all) /\ IsFiniteSet(touching)
      /\ \A s \in all \ touching : ~Settle!Touches(st[s], m)
  <2>1. touching \subseteq all /\ \A s \in all \ touching : ~Settle!Touches(st[s], m)
    BY DEF Settle!SettlementsTouching
  <2>2. IsFiniteSet(all)
    BY DEF Payments
  <2> HIDE DEF touching, all
  <2> QED BY <2>1, <2>2, FS_Subset
<1>2. \A s \in all : each[s] \in Int /\ (s \notin touching => each[s] = 0)
  <2>1. Payments(st)
    OBVIOUS
  <2>2. \A s \in all : /\ Settle!Portion(st[s], m) \in Int
                       /\ ~Settle!Touches(st[s], m) => Settle!Portion(st[s], m) = 0
    <3> HIDE DEF st
    <3> QED BY <2>1, SettleCents
  <2> HIDE DEF st, touching
  <2> QED BY <1>1, <2>2 DEF Settle!SignedForFirst
<1>3. \A s \in touching : rows[s] = each[s]
  BY <1>1 DEF Settle!SettlementRow
<1>4. Settle!SumFunction(each) = Sum(each, all) /\ Settle!SumFunction(rows) = Sum(rows, touching)
  BY PageSums
<1>10. Settle!Paid(data.stored, m) = Settle!SumFunction(each)
  BY DEF Settle!Paid
<1> HIDE DEF touching, each, rows, all
<1>5. IntOn(each, all) /\ IntOn(each, touching)
  BY <1>1, <1>2 DEF IntOn
<1>6. Sum(each, all) = Sum(each, touching)
  <2>1. \A s \in all \ touching : each[s] = 0
    BY <1>2
  <2> QED BY <1>1, <1>5, <2>1, SumSupport
<1>7. Sum(rows, touching) = Sum(each, touching)
  BY <1>1, <1>3, <1>5, SumSame
<1>8. touching = {} => Sum(each, touching) = 0
  BY SumEmpty
<1>9. Sum(each, all) \in Int
  BY <1>1, <1>5, SumInt
<1> QED BY <1>4, <1>6, <1>7, <1>8, <1>9, <1>10 DEF touching, rows

\* A month's balance; one where nothing was fronted or paid has none.
LEMMA MonthBalance ==
    ASSUME NEW m \in Calendar, NEW st, Payments(st)
    PROVE  LET fronted == Fronted[m][Settle!First] - Fronted[m][Settle!Second]
           IN /\ Settle!LedgerMonths(st)[m] = fronted + Settle!Paid(st, m)
              /\ fronted \in Int /\ Settle!Paid(st, m) \in Int
              /\ Settle!LedgerMonths(st)[m] \in Int
              /\ m \notin Settle!ActiveMonths(st) => Settle!LedgerMonths(st)[m] = 0
<1> DEFINE fronted == Fronted[m][Settle!First] - Fronted[m][Settle!Second]
           data == [stored |-> st]
<1>1. Settle!LedgerMonths(st)[m] = fronted + Settle!Paid(st, m)
  BY DEF Settle!LedgerMonths
<1>2. data.stored = st
  OBVIOUS
<1>3. fronted \in Int
  <2>1. Fronted[m][Settle!First] \in Int /\ Fronted[m][Settle!Second] \in Int
    BY SettleCents
  <2> QED BY <2>1
<1> HIDE DEF data
<1>4. /\ Settle!Paid(st, m) \in Int
      /\ Settle!SettlementsTouching(data, m) = {} => Settle!Paid(st, m) = 0
  BY <1>2, PaymentsNet
<1>5. ASSUME m \notin Settle!ActiveMonths(st)
      PROVE  fronted = 0 /\ Settle!Paid(st, m) = 0
  <2>1. /\ Fronted[m] = [p \in {Settle!First, Settle!Second} |-> 0]
        /\ \A s \in DOMAIN st : ~Settle!Touches(st[s], m)
    BY <1>5 DEF Settle!ActiveMonths
  <2>2. fronted = 0
    BY <2>1
  <2>3. Settle!SettlementsTouching(data, m) = {}
    BY <1>2, <2>1 DEF Settle!SettlementsTouching
  <2> QED BY <1>4, <2>2, <2>3
<1> HIDE DEF fronted
<1>6. Settle!LedgerMonths(st)[m] \in Int /\ (m \notin Settle!ActiveMonths(st) => Settle!LedgerMonths(st)[m] = 0)
  BY <1>1, <1>3, <1>4, <1>5
<1> QED BY <1>1, <1>3, <1>4, <1>6 DEF fronted

\* So the rows of a month sum to what the ledger serves for it.
LEMMA RowsAddUp ==
    ASSUME NEW m \in Calendar, NEW data, Payments(data.stored)
    PROVE  Settle!LedgerRowsNet(data, m) = Settle!TotalNet(data, m)
<1>1. Settle!LedgerRowsNet(data, m) = Settle!LedgerMonths(data.stored)[m]
  BY FrontedNet, PaymentsNet, MonthBalance DEF Settle!LedgerRowsNet
<1>2. Settle!TotalNet(data, m) = Settle!LedgerMonths(data.stored)[m]
  BY MonthBalance DEF Settle!TotalNet
<1> QED BY <1>1, <1>2

\* Nothing is answered at first.
LEMMA SettleInit == Settle!Init => SettleInv
<1> SUFFICES ASSUME Settle!Init PROVE SettleInv
  OBVIOUS
<1>1. SettleView /\ calls = {}
  BY DEF Settle!Init, SettleView, SettleFields, Ledgers
<1>2. PICK ids \in SUBSET DOMAIN Settlements :
         server = [stored |-> [s \in ids |-> Settlements[s]], locked |-> {}, done |-> 0]
  BY DEF Settle!Init
<1>3. /\ DOMAIN server = {"stored", "locked", "done"} /\ server.done = 0
      /\ DOMAIN server.stored = ids /\ \A s \in ids : server.stored[s] = Settlements[s]
  BY <1>2
<1>4. IsFiniteSet(ids) /\ ids \subseteq Nat
  BY MoneyIsCounted, FS_Subset
<1>5. Payments(server.stored)
  BY <1>3, <1>4, MoneyIsCounted DEF Payments
<1>6. SettleServer
  BY <1>3, <1>4, <1>5 DEF SettleServer
<1> QED BY <1>1, <1>6 DEF SettleInv

\* A view and requests that are as good as before, over a server that is.
LEMMA SettleQuiet ==
    ASSUME SettleInv, SettleServer', calls' \subseteq calls, UNCHANGED <<view.month, view.cache, view.last>>,
           DOMAIN view' = DOMAIN view
    PROVE  SettleInv'
BY DEF SettleInv, SettleView, SettleCall, Ledgers, SettleFields

\* What stands in for the month on screen is an answer too.
LEMMA SettleShown == SettleInv => Ledgers(Settle!Latest) /\ Ledgers(Settle!Data)
BY DEF SettleInv, SettleView, Settle!Data, Settle!Latest, Ledgers

\* The page moves to another month of the calendar.
LEMMA SettleMoves ==
    ASSUME SettleInv, NEW m \in Calendar, UNCHANGED <<server, calls>>, DOMAIN view' = DOMAIN view,
           view'.month = m, view'.cache = view.cache, view'.last \in {Settle!Latest, NoData}
    PROVE  SettleInv'
<1>1. Ledgers(Settle!Latest) /\ Ledgers(NoData)
  BY SettleShown DEF Ledgers
<1> QED BY <1>1 DEF SettleInv, SettleView, SettleServer, SettleCall, Ledgers, SettleFields

\* What is sent, and what the view says of it, leaves the answers alone.
LEMMA SettleSends ==
    ASSUME SettleInv, NEW call, SettleCall(call), Settle!Send(call), DOMAIN view' = DOMAIN view,
           UNCHANGED <<view.month, view.cache, view.last>>
    PROVE  SettleInv'
BY DEF Settle!Send, SettleInv, SettleView, SettleServer, SettleCall, Ledgers, SettleFields

\* The newest month with activity is one of the calendar.
LEMMA NewestMonth ==
    ASSUME SettleInv, Settle!Redirect
    PROVE  \E m \in Calendar : view' = Settle!Moved(m)
<1> DEFINE active == Settle!ActiveMonths(Settle!Data.stored)
           order == [m \in active |-> 12 * m[1] + m[2]]
           Newest(m) == \A n \in active : 12 * m[1] + m[2] >= 12 * n[1] + n[2]
           newest == CHOOSE m \in active : Newest(m)
<1>1. active \subseteq Calendar /\ active # {}
  BY DEF Settle!ActiveMonths, Settle!Redirect
<1>2. view' = Settle!Moved(newest)
  BY DEF Settle!Redirect
<1> HIDE DEF active
<1>3. IsFiniteSet(active)
  BY <1>1, FS_Subset, MoneyIsCounted
<1>4. \A m \in active : order[m] = 12 * m[1] + m[2] /\ order[m] \in Int
  BY <1>1, MoneyIsCounted
<1> HIDE DEF order
<1>5. \E m \in active : \A n \in active : order[n] <= order[m]
  BY <1>1, <1>3, <1>4, Greatest
<1>6. \E m \in active : Newest(m)
  <2>1. PICK m \in active : \A n \in active : order[n] <= order[m]
    BY <1>5
  <2>2. ASSUME NEW n \in active PROVE 12 * m[1] + m[2] >= 12 * n[1] + n[2]
    BY <1>4, <2>1
  <2> QED BY <2>2
<1> HIDE DEF Newest
<1>7. newest \in active
  BY <1>6
<1> QED BY <1>1, <1>2, <1>7

\* A payment more, or one less, of what is stored.
LEMMA OnePaymentMore ==
    ASSUME NEW st, Payments(st), NEW id, id \notin DOMAIN st, NEW row,
           \A m \in DOMAIN row.portions : row.portions[m] \in Int
    PROVE  /\ Payments(Settle!Inserted(st, id, row))
           /\ DOMAIN Settle!Inserted(st, id, row) = DOMAIN st \cup {id}
           /\ \A m \in Calendar : Settle!Paid(Settle!Inserted(st, id, row), m)
                = Settle!SignedForFirst(Settle!Portion(row, m), row.from) + Settle!Paid(st, m)
<1> DEFINE new == Settle!Inserted(st, id, row)
<1>1. /\ DOMAIN new = DOMAIN st \cup {id} /\ new[id] = row
      /\ \A s \in DOMAIN st : new[s] = st[s]
  BY DEF Settle!Inserted
<1>2. IsFiniteSet(DOMAIN st)
  BY DEF Payments
<1> HIDE DEF new
<1>3. Payments(new)
  <2>1. IsFiniteSet(DOMAIN new)
    BY <1>1, <1>2, FS_AddElement
  <2> QED BY <1>1, <2>1 DEF Payments
<1>4. ASSUME NEW m \in Calendar
      PROVE  Settle!Paid(new, m) = Settle!SignedForFirst(Settle!Portion(row, m), row.from) + Settle!Paid(st, m)
  <2> DEFINE old == [s \in DOMAIN st |-> Settle!SignedForFirst(Settle!Portion(st[s], m), st[s].from)]
             each == [s \in DOMAIN new |-> Settle!SignedForFirst(Settle!Portion(new[s], m), new[s].from)]
  <2>1. /\ Settle!Paid(new, m) = Sum(each, DOMAIN new)
        /\ Settle!Paid(st, m) = Sum(old, DOMAIN st)
    BY PageSums DEF Settle!Paid
  <2>2. /\ each[id] = Settle!SignedForFirst(Settle!Portion(row, m), row.from)
        /\ \A s \in DOMAIN st : each[s] = old[s]
    BY <1>1
  <2>3. \A s \in DOMAIN new : each[s] \in Int
    <3>1. \A s \in DOMAIN new : Settle!Portion(new[s], m) \in Int
      BY <1>3, SettleCents
    <3> QED BY <3>1 DEF Settle!SignedForFirst
  <2>4. \A s \in DOMAIN st : old[s] \in Int
    BY <1>1, <2>2, <2>3
  <2> HIDE DEF old, each
  <2>5. IntOn(each, DOMAIN st) /\ IntOn(old, DOMAIN st) /\ each[id] \in Int
    BY <1>1, <2>3, <2>4 DEF IntOn
  <2>6. Sum(each, DOMAIN st \cup {id}) = each[id] + Sum(each, DOMAIN st)
    BY <1>2, <2>5, SumAdd
  <2>7. Sum(each, DOMAIN st) = Sum(old, DOMAIN st)
    BY <1>2, <2>2, <2>5, SumSame
  <2> QED BY <1>1, <2>1, <2>2, <2>6, <2>7
<1> QED BY <1>1, <1>3, <1>4 DEF new
LEMMA OnePaymentLess ==
    ASSUME NEW st, Payments(st), NEW id
    PROVE  Payments(Settle!Without(st, id)) /\ DOMAIN Settle!Without(st, id) \subseteq DOMAIN st
<1>1. IsFiniteSet(DOMAIN st \ {id})
  BY FS_Subset DEF Payments
<1> QED BY <1>1 DEF Payments, Settle!Without

\* The payment that waives a year.
WaiverId == -(server.done + 1)
LEMMA WaiverRow ==
    ASSUME SettleInv, NEW c \in calls, Settle!ServeWaiver(c)
    PROVE  LET row == Settle!Waiver(server.stored, c.year, c.from)
           IN /\ WaiverId \notin DOMAIN server.stored
              /\ row.from = c.from /\ c.from = Settle!Owing(Settle!YearBalance(server.stored, c.year))
              /\ \A m \in DOMAIN row.portions : row.portions[m] \in Int
              /\ \A m \in Calendar : Settle!SignedForFirst(Settle!Portion(row, m), row.from)
                   = IF m[1] = c.year THEN -Settle!LedgerMonths(server.stored)[m] ELSE 0
<1> DEFINE st == server.stored
           row == Settle!Waiver(st, c.year, c.from)
           owing == Settle!Owing(Settle!YearBalance(st, c.year))
           open == {m \in Settle!MonthsOf(c.year) \cap Settle!ActiveMonths(st) : Settle!LedgerMonths(st)[m] # 0}
<1>1. Payments(st) /\ WaiverId \notin DOMAIN st
  BY DEF SettleInv, SettleServer, WaiverId
<1>2. c.from = owing
  BY DEF Settle!ServeWaiver, Settle!WaivesCurrent
<1>3. /\ row.from = c.from /\ DOMAIN row.portions = open
      /\ \A m \in open : row.portions[m] = Settle!SignedForFirst(-Settle!LedgerMonths(st)[m], owing)
  BY DEF Settle!Waiver
<1>4. \A m \in Calendar : /\ Settle!LedgerMonths(st)[m] \in Int
                          /\ m \notin Settle!ActiveMonths(st) => Settle!LedgerMonths(st)[m] = 0
  <2> HIDE DEF st
  <2> QED BY <1>1, MonthBalance
<1>5. /\ open \subseteq Calendar
      /\ \A m \in Calendar : m \in open <=> m[1] = c.year /\ Settle!LedgerMonths(st)[m] # 0
  BY <1>4 DEF Settle!MonthsOf
<1> HIDE DEF row, owing, open, st
<1>6. \A m \in DOMAIN row.portions : row.portions[m] \in Int
  BY <1>3, <1>4, <1>5 DEF Settle!SignedForFirst
<1>7. ASSUME NEW m \in Calendar
      PROVE  Settle!SignedForFirst(Settle!Portion(row, m), row.from)
               = IF m[1] = c.year THEN -Settle!LedgerMonths(st)[m] ELSE 0
  <2>1. CASE m \in open
    BY <1>2, <1>3, <1>4, <1>5, <2>1 DEF Settle!Portion, Settle!SignedForFirst
  <2>2. CASE m \notin open
    BY <1>3, <1>4, <1>5, <2>2 DEF Settle!Portion, Settle!SignedForFirst
  <2> QED BY <2>1, <2>2
<1> QED BY <1>1, <1>2, <1>3, <1>6, <1>7 DEF row, owing, st

\* A waiver leaves the year it names at zero and the other months alone.
LEMMA WaiverClears ==
    ASSUME SettleInv, NEW c \in calls, Settle!ServeWaiver(c)
    PROVE  /\ SettleServer'
           /\ \A m \in Calendar : Settle!LedgerMonths(server'.stored)[m]
                = IF m[1] = c.year THEN 0 ELSE Settle!LedgerMonths(server.stored)[m]
<1> DEFINE st == server.stored
           row == Settle!Waiver(st, c.year, c.from)
           new == Settle!Inserted(st, WaiverId, row)
<1>1. server' = [[server EXCEPT !.stored = new] EXCEPT !.done = @ + 1]
  BY DEF Settle!ServeWaiver, Settle!Served, WaiverId
<1>2. SettleServer
  BY DEF SettleInv
<1>3. /\ DOMAIN server' = {"stored", "locked", "done"} /\ server'.stored = new
      /\ server'.done = server.done + 1 /\ server'.done \in Nat
  BY <1>1, <1>2 DEF SettleServer
<1>4. /\ WaiverId \notin DOMAIN st
      /\ \A m \in DOMAIN row.portions : row.portions[m] \in Int
      /\ \A m \in Calendar : Settle!SignedForFirst(Settle!Portion(row, m), row.from)
           = IF m[1] = c.year THEN -Settle!LedgerMonths(st)[m] ELSE 0
  BY WaiverRow
<1>5. Payments(st)
  BY <1>2 DEF SettleServer
<1> HIDE DEF row
<1>6. /\ Payments(new) /\ DOMAIN new = DOMAIN st \cup {WaiverId}
      /\ \A m \in Calendar : Settle!Paid(new, m)
           = Settle!SignedForFirst(Settle!Portion(row, m), row.from) + Settle!Paid(st, m)
  <2>1. Payments(st) /\ WaiverId \notin DOMAIN st /\ \A m \in DOMAIN row.portions : row.portions[m] \in Int
    BY <1>4, <1>5
  <2>2. new = Settle!Inserted(st, WaiverId, row)
    OBVIOUS
  <2> HIDE DEF st, new
  <2>3. /\ Payments(Settle!Inserted(st, WaiverId, row))
        /\ DOMAIN Settle!Inserted(st, WaiverId, row) = DOMAIN st \cup {WaiverId}
        /\ \A m \in Calendar : Settle!Paid(Settle!Inserted(st, WaiverId, row), m)
             = Settle!SignedForFirst(Settle!Portion(row, m), row.from) + Settle!Paid(st, m)
    BY <2>1, OnePaymentMore
  <2> QED BY <2>2, <2>3
<1>7. SettleServer'
  <2>1. \A s \in DOMAIN new : s \in Int /\ -(server.done + 1) <= s
    BY <1>2, <1>6 DEF SettleServer, WaiverId
  <2> HIDE DEF new
  <2> QED BY <1>3, <1>6, <2>1 DEF SettleServer
<1> HIDE DEF new, st
<1>8. ASSUME NEW m \in Calendar
      PROVE  Settle!LedgerMonths(new)[m] = IF m[1] = c.year THEN 0 ELSE Settle!LedgerMonths(st)[m]
  <2> DEFINE fronted == Fronted[m][Settle!First] - Fronted[m][Settle!Second]
             now == Settle!LedgerMonths(st)[m]
  <2>1. /\ Settle!LedgerMonths(new)[m] = fronted + Settle!Paid(new, m)
        /\ now = fronted + Settle!Paid(st, m)
        /\ fronted \in Int /\ Settle!Paid(st, m) \in Int /\ now \in Int
    BY <1>5, <1>6, MonthBalance
  <2>2. Settle!Paid(new, m) = (IF m[1] = c.year THEN -now ELSE 0) + Settle!Paid(st, m)
    BY <1>4, <1>6
  <2> HIDE DEF fronted, now
  <2>3. CASE m[1] = c.year
    BY <2>1, <2>2, <2>3
  <2>4. CASE m[1] # c.year
    <3>1. Settle!LedgerMonths(new)[m] = now
      BY <2>1, <2>2, <2>4
    <3> QED BY <2>4, <3>1 DEF now
  <2> QED BY <2>3, <2>4
<1> QED BY <1>3, <1>7, <1>8 DEF st

\* Every step keeps the invariant.
LEMMA SettleStep == SettleInv /\ Settle!Next => SettleInv'
<1> SUFFICES ASSUME SettleInv, Settle!Next PROVE SettleInv'
  OBVIOUS
<1>0. SettleServer /\ SettleView /\ \A c \in calls : SettleCall(c)
  BY DEF SettleInv
<1>1. ASSUME NEW m \in Calendar, Settle!Fetch(m) PROVE SettleInv'
  <2> DEFINE c == [kind |-> "fetch", month |-> m, answer |-> Settle!AnswerFor(m)]
  <2>1. calls' = calls \cup {c} /\ UNCHANGED server /\ view' = [view EXCEPT !.failed = FALSE]
    BY <1>1 DEF Settle!Fetch
  <2>2. SettleCall(c)
    BY <1>0 DEF SettleCall, Ledgers, Settle!AnswerFor, SettleServer
  <2>3. UNCHANGED <<view.month, view.cache, view.last>> /\ DOMAIN view' = DOMAIN view
    BY <1>0, <2>1 DEF SettleView, SettleFields
  <2> HIDE DEF c
  <2> QED BY <1>0, <2>1, <2>2, <2>3 DEF SettleInv, SettleView, SettleServer, SettleCall, Ledgers
<1>2. ASSUME NEW c \in calls, Settle!Deliver(c) PROVE SettleInv'
  <2>1. /\ view' = [view EXCEPT !.cache[c.month] = c.answer]
        /\ calls' = calls \ {c} /\ server' = server
        /\ c.month \in Calendar /\ Ledgers(c.answer)
    BY <1>0, <1>2 DEF Settle!Deliver, SettleCall
  <2>2. /\ DOMAIN view' = DOMAIN view /\ view'.month = view.month
        /\ view'.last = view.last
        /\ view'.cache = [view.cache EXCEPT ![c.month] = c.answer]
    BY <1>0, <2>1 DEF SettleView, SettleFields
  <2>3. DOMAIN view'.cache = Calendar /\ \A m \in Calendar : Ledgers(view'.cache[m])
    BY <1>0, <2>1, <2>2 DEF SettleView
  <2> QED BY <1>0, <2>1, <2>2, <2>3 DEF SettleInv, SettleView, SettleServer, SettleCall, Ledgers
<1>13. ASSUME NEW m \in Calendar
       PROVE  /\ DOMAIN Settle!Moved(m) = DOMAIN view /\ Settle!Moved(m).month = m
              /\ Settle!Moved(m).last \in {Settle!Latest, NoData}
              /\ Settle!Moved(m).cache = view.cache
  BY <1>0 DEF Settle!Moved, SettleView, SettleFields
<1>3. CASE Settle!Redirect
  <2>1. PICK m \in Calendar : view' = Settle!Moved(m)
    BY <1>3, NewestMonth
  <2>2. UNCHANGED <<server, calls>>
    BY <1>3 DEF Settle!Redirect
  <2> QED BY <1>13, <2>1, <2>2, SettleMoves
<1>14. ASSUME NEW c \in calls, Settle!FetchFails(c) PROVE SettleInv'
  <2>1. UNCHANGED <<view.month, view.cache, view.last>> /\ DOMAIN view' = DOMAIN view
        /\ UNCHANGED server /\ calls' \subseteq calls
    BY <1>0, <1>14 DEF Settle!FetchFails, SettleView, SettleFields
  <2> QED BY <1>0, <2>1, SettleQuiet DEF SettleServer
<1>4. ASSUME NEW y, Settle!PickYear(y) PROVE SettleInv'
  <2>1. UNCHANGED <<view.month, view.cache, view.last>> /\ DOMAIN view' = DOMAIN view
        /\ UNCHANGED <<server, calls>>
    BY <1>0, <1>4 DEF Settle!PickYear, SettleView, SettleFields
  <2> QED BY <1>0, <2>1, SettleQuiet DEF SettleServer
<1>5. ASSUME NEW m \in Calendar, Settle!Toggle(m) PROVE SettleInv'
  <2>1. UNCHANGED <<server, calls>>
    BY <1>5 DEF Settle!Toggle
  <2>2. CASE m = view.month
    <3>1. \/ view' = [view EXCEPT !.collapsed = m] \/ view' = [view EXCEPT !.collapsed = None]
      BY <1>5, <2>2 DEF Settle!Toggle
    <3>2. DOMAIN view' = DOMAIN view /\ UNCHANGED <<view.month, view.cache, view.last>>
      BY <1>0, <3>1 DEF SettleView, SettleFields
    <3> QED BY <1>0, <2>1, <3>2, SettleQuiet DEF SettleServer
  <2>3. CASE m # view.month
    <3>1. view' = [Settle!Moved(m) EXCEPT !.collapsed = None]
      BY <1>5, <2>3 DEF Settle!Toggle
    <3>2. /\ DOMAIN view' = DOMAIN view /\ view'.cache = view.cache
          /\ view'.last \in {Settle!Latest, NoData} /\ view'.month = m
      <4> HIDE DEF Settle!Moved
      <4> QED BY <1>0, <1>13, <3>1 DEF SettleView, SettleFields
    <3> QED BY <2>1, <3>2, SettleMoves
  <2> QED BY <2>2, <2>3
<1>6. ASSUME NEW m \in Calendar, Settle!Visit(m) PROVE SettleInv'
  <2>1. UNCHANGED <<server, calls>> /\ view' = Settle!Moved(m)
    BY <1>6 DEF Settle!Visit
  <2> QED BY <1>13, <2>1, SettleMoves
<1>7. CASE Settle!LockClick
  <2> DEFINE c == [kind |-> IF Settle!Data.locked THEN "unlock" ELSE "lock", month |-> view.month]
  <2>1. Settle!Send(c) /\ UNCHANGED view
    BY <1>7 DEF Settle!LockClick
  <2>2. SettleCall(c)
    BY DEF SettleCall
  <2> HIDE DEF c
  <2> QED BY <2>1, <2>2, SettleSends
<1>8. CASE Settle!OpenWaive \/ Settle!CloseWaive
  <2>1. UNCHANGED <<view.month, view.cache, view.last>> /\ DOMAIN view' = DOMAIN view
        /\ UNCHANGED <<server, calls>>
    BY <1>0, <1>8 DEF Settle!OpenWaive, Settle!CloseWaive, SettleView, SettleFields
  <2> QED BY <1>0, <2>1, SettleQuiet DEF SettleServer
<1>9. CASE Settle!Waive
  <2> DEFINE c == [kind |-> "waive", year |-> Settle!SelectedYear, from |-> Settle!Owing(Settle!BalanceShown),
                   saw |-> Settle!Data.stored]
  <2>1. Settle!Send(c) /\ UNCHANGED view
    BY <1>9 DEF Settle!Waive
  <2>2. SettleCall(c)
    BY DEF SettleCall, Settle!BalanceShown
  <2> HIDE DEF c
  <2> QED BY <2>1, <2>2, SettleSends
<1>10. ASSUME NEW s, Settle!Delete(s) PROVE SettleInv'
  <2> DEFINE c == [kind |-> "delete", id |-> s]
  <2>1. Settle!Send(c) /\ view' = [view EXCEPT !.deleting = s]
    BY <1>10 DEF Settle!Delete
  <2>2. SettleCall(c)
    BY DEF SettleCall
  <2>3. UNCHANGED <<view.month, view.cache, view.last>> /\ DOMAIN view' = DOMAIN view
    BY <1>0, <2>1 DEF SettleView, SettleFields
  <2> HIDE DEF c
  <2> QED BY <2>1, <2>2, <2>3, SettleSends
<1>11. ASSUME NEW c \in calls, Settle!Serve(c) \/ Settle!Fail(c) PROVE SettleInv'
  <2>1. UNCHANGED <<view.month, view.cache, view.last>> /\ DOMAIN view' = DOMAIN view
        /\ calls' \subseteq calls
    BY <1>0, <1>11 DEF Settle!Serve, Settle!Served, Settle!Fail, SettleView, SettleFields
  <2>2. \/ server' = [server EXCEPT !.done = @ + 1]
        \/ \E l : server' = [[server EXCEPT !.locked = l] EXCEPT !.done = @ + 1]
        \/ server' = [[server EXCEPT !.stored = Settle!Without(@, c.id)] EXCEPT !.done = @ + 1]
    BY <1>11 DEF Settle!Serve, Settle!Served, Settle!Fail
  <2>3. /\ DOMAIN server' = DOMAIN server /\ server'.done = server.done + 1
        /\ server'.stored \in {server.stored, Settle!Without(server.stored, c.id)}
    BY <1>0, <2>2 DEF SettleServer
  <2>4. Payments(server'.stored) /\ DOMAIN server'.stored \subseteq DOMAIN server.stored
    BY <1>0, <2>3, OnePaymentLess DEF SettleServer
  <2>5. SettleServer'
    BY <1>0, <2>3, <2>4 DEF SettleServer
  <2> QED BY <2>1, <2>5, SettleQuiet
<1>15. ASSUME NEW c \in calls, Settle!ServeWaiver(c) PROVE SettleInv'
  <2>1. UNCHANGED <<view.month, view.cache, view.last>> /\ DOMAIN view' = DOMAIN view
        /\ calls' \subseteq calls
    BY <1>0, <1>15 DEF Settle!ServeWaiver, Settle!Served, SettleView, SettleFields
  <2> QED BY <1>15, <2>1, WaiverClears, SettleQuiet
<1>12. ASSUME NEW s \in DOMAIN Settlements, Settle!Elsewhere(s) PROVE SettleInv'
  <2>1. UNCHANGED <<view, calls>>
    BY <1>12 DEF Settle!Elsewhere
  <2>2. CASE /\ s \notin DOMAIN server.stored
             /\ server' = [server EXCEPT !.stored = Settle!Inserted(@, s, Settlements[s]), !.done = @ + 1]
    <3>1. /\ DOMAIN server' = DOMAIN server /\ server'.done = server.done + 1
          /\ server'.stored = Settle!Inserted(server.stored, s, Settlements[s])
      BY <1>0, <2>2 DEF SettleServer
    <3>2. /\ s \in Nat
          /\ \A m \in DOMAIN Settlements[s].portions : Settlements[s].portions[m] \in Int
      BY MoneyIsCounted
    <3>3. Payments(server'.stored) /\ DOMAIN server'.stored = DOMAIN server.stored \cup {s}
      BY <1>0, <2>2, <3>1, <3>2, OnePaymentMore DEF SettleServer
    <3> QED BY <1>0, <2>1, <3>1, <3>2, <3>3, SettleQuiet DEF SettleServer
  <2>3. CASE server' = [server EXCEPT !.stored = Settle!Without(@, s), !.done = @ + 1]
    <3>1. /\ DOMAIN server' = DOMAIN server /\ server'.done = server.done + 1
          /\ server'.stored = Settle!Without(server.stored, s)
      BY <1>0, <2>3 DEF SettleServer
    <3>2. Payments(server'.stored) /\ DOMAIN server'.stored \subseteq DOMAIN server.stored
      BY <1>0, <3>1, OnePaymentLess DEF SettleServer
    <3> QED BY <1>0, <2>1, <3>1, <3>2, SettleQuiet DEF SettleServer
  <2> QED BY <1>12, <2>2, <2>3 DEF Settle!Elsewhere
<1> QED BY <1>1, <1>2, <1>3, <1>4, <1>5, <1>6, <1>7, <1>8, <1>9, <1>10, <1>11, <1>12, <1>14, <1>15
        DEF Settle!Next

\* Whatever stands on the page adds up.
LEMMA SettleAddsUp == SettleInv => Settle!AuditAddsUp
<1> SUFFICES ASSUME SettleInv, Settle!Data # NoData
             PROVE  Settle!LedgerRowsNet(Settle!Data, view.month) = Settle!TotalNet(Settle!Data, view.month)
  BY DEF Settle!AuditAddsUp
<1>1. view.month \in Calendar /\ Payments(Settle!Data.stored)
  BY SettleShown DEF SettleInv, SettleView, Ledgers
<1> QED BY <1>1, RowsAddUp

LEMMA SettleInvariant == Spec => []On("settle", SettleInv)
<1> DEFINE Inv == On("settle", SettleInv)
<1>1. Init => Inv
  BY SettleInit DEF Init, On
<1>2. Inv /\ [Next]_vars => Inv'
  <2> SUFFICES ASSUME Inv, page = "settle", [Next]_vars PROVE On("settle", SettleInv)'
    BY DEF Next, On, vars
  <2>1. CASE Settle!Next
    BY <2>1, SettleStep DEF On
  <2>2. CASE UNCHANGED vars
    BY <2>2 DEF vars, On, SettleInv, SettleView, SettleServer, SettleCall, Ledgers, Payments
  <2> QED BY <2>1, <2>2 DEF Next
<1> QED BY <1>1, <1>2, PTL DEF Spec

\* The audit table of a month sums to the balance the ledger serves for it
\* (SettleUpAuditTable.tsx, buildLedgerRows).
THEOREM AuditSums == Spec => []AuditAddsUp
<1>1. On("settle", SettleInv) => AuditAddsUp
  BY SettleAddsUp DEF On, AuditAddsUp
<1> QED BY <1>1, SettleInvariant, PTL

(* A stored waiver clears the year its reader saw, and no other: whatever was *)
(* recorded, deleted or answered late between the dialog and the server, the  *)
(* year still runs the way the dialog said, or nothing is stored              *)
(* (SettleUpPage.tsx, WaiveAction; record_waived_settlement.py).              *)
THEOREM WaiversClearWhatWasShown == Spec => WaivesAsShown
<1>1. ASSUME SettleInv PROVE Settle!WaivesWhatWasShown
  <2> SUFFICES ASSUME NEW c \in calls \ calls', Settle!ServeWaiver(c)
               PROVE  /\ Settle!Owing(Settle!YearBalance(c.saw, c.year))
                           = Settle!Owing(Settle!YearBalance(server.stored, c.year))
                      /\ \A m \in Calendar : Settle!LedgerMonths(server'.stored)[m]
                           = IF m[1] = c.year THEN 0 ELSE Settle!LedgerMonths(server.stored)[m]
    BY DEF Settle!WaivesWhatWasShown
  <2>1. c.from = Settle!Owing(Settle!YearBalance(server.stored, c.year))
    BY <1>1, WaiverRow
  <2>2. c.from = Settle!Owing(Settle!YearBalance(c.saw, c.year))
    BY <1>1 DEF SettleInv, SettleCall, Settle!ServeWaiver
  <2> QED BY <1>1, <2>1, <2>2, WaiverClears
<1>2. On("settle", SettleInv) /\ [Next]_vars => [page = "settle" => Settle!WaivesWhatWasShown]_vars
  BY <1>1 DEF On
<1> QED BY <1>2, SettleInvariant, PTL DEF Spec, WaivesAsShown

----------------------------------------------------------------------------
(* Linking transfers: the payment recorded from the picked legs.            *)

\* One of two people at most is none of them, or one.
LEMMA OneOfTwo ==
    ASSUME NEW S, S \subseteq {Me, Partner}, ~(Link!Cardinality(S) > 1)
    PROVE  S = {} \/ S = {Me} \/ S = {Partner}
<1>1. Cardinality({Me, Partner}) = 2
  <2>1. Cardinality({Me} \cup {Partner}) = Cardinality({Me}) + 1 /\ Cardinality({Me}) = 1
    BY FS_AddElement, FS_Singleton, TwoPeople
  <2>2. {Me} \cup {Partner} = {Me, Partner}
    OBVIOUS
  <2> QED BY <2>1, <2>2
<1>2. Link!Cardinality(S) = Cardinality(S)
  BY PageCounts
<1>3. S # {Me, Partner}
  BY <1>1, <1>2
<1> QED BY <1>3

\* The direction the form derives is the only one the server can.
LEMMA OneDirection ==
    ASSUME NEW legs, legs \subseteq DOMAIN Legs, Link!DeriveDirection(legs) # None
    PROVE  Link!ServerDirections(legs) = {Link!DeriveDirection(legs)}
<1> DEFINE s == Link!Senders(legs)
           r == Link!Recipients(legs)
           from == IF s = {} THEN Link!Other(CHOOSE p \in r : TRUE) ELSE CHOOSE p \in s : TRUE
           to == IF r = {} THEN Link!Other(from) ELSE CHOOSE p \in r : TRUE
<1>1. /\ ~(Link!Cardinality(s) > 1) /\ ~(Link!Cardinality(r) > 1) /\ s \cup r # {} /\ from # to
      /\ Link!DeriveDirection(legs) = <<from, to>>
  BY DEF Link!DeriveDirection
<1>2. s \subseteq {Me, Partner} /\ r \subseteq {Me, Partner}
  BY MoneyIsCounted, TwoPeople DEF Link!Senders, Link!Recipients
<1>3. Link!ServerDirections(legs) =
        {d \in People \X People : d[1] # d[2] /\ s \subseteq {d[1]} /\ r \subseteq {d[2]} /\ s \cup r # {}}
  BY DEF Link!ServerDirections
<1>4. Me # Partner /\ Link!Other(Me) = Partner /\ Link!Other(Partner) = Me
  BY TwoPeople DEF Link!Other
<1> HIDE DEF s, r
<1>5. s \in {{}, {Me}, {Partner}} /\ r \in {{}, {Me}, {Partner}}
  BY <1>1, <1>2, OneOfTwo
<1>6. /\ s = {Me} => from = Me
      /\ s = {Partner} => from = Partner
      /\ r = {Me} => to = Me
      /\ r = {Partner} => to = Partner
  OBVIOUS
<1>7. /\ s = {} /\ r = {Me} => from = Partner
      /\ s = {} /\ r = {Partner} => from = Me
      /\ r = {} /\ s = {Me} => to = Partner
      /\ r = {} /\ s = {Partner} => to = Me
  BY <1>4
<1> HIDE DEF from, to
<1>8. /\ from \in {Me, Partner} /\ to \in {Me, Partner} /\ s \subseteq {from} /\ r \subseteq {to}
  BY <1>1, <1>5, <1>6, <1>7
<1>9. ASSUME NEW a \in People, NEW b \in People
      PROVE  a # b /\ s \subseteq {a} /\ r \subseteq {b} <=> a = from /\ b = to
  <2>1. a \in {Me, Partner} /\ b \in {Me, Partner}
    BY TwoPeople
  <2> QED BY <1>1, <1>4, <1>5, <1>6, <1>7, <1>8, <2>1
<1>10. from \in People /\ to \in People
  BY <1>8, TwoPeople
<1>11. ASSUME NEW d \in People \X People
       PROVE  d[1] # d[2] /\ s \subseteq {d[1]} /\ r \subseteq {d[2]} <=> d = <<from, to>>
  <2>1. d = <<d[1], d[2]>> /\ d[1] \in People /\ d[2] \in People
    OBVIOUS
  <2> QED BY <1>9, <2>1
<1>12. <<from, to>> \in People \X People
  BY <1>10
<1>13. Link!ServerDirections(legs) = {<<from, to>>}
  BY <1>1, <1>3, <1>11, <1>12
<1> QED BY <1>1, <1>13

\* A single leg is what it comes to.
LEMMA LegSum ==
    ASSUME NEW l \in DOMAIN Legs
    PROVE  Link!SumOfLegs({l}) = Link!Magnitude(Legs[l].amount)
<1> DEFINE f == [k \in {l} |-> Link!Magnitude(Legs[k].amount)]
<1>1. f[l] = Link!Magnitude(Legs[l].amount) /\ f[l] \in Int
  BY MoneyIsCounted DEF Link!Magnitude
<1>2. Link!SumOfLegs({l}) = Sum(f, {l})
  BY PageSums DEF Link!SumOfLegs
<1> HIDE DEF f
<1>3. Sum(f, {l}) = f[l]
  BY <1>1, SumOne
<1> QED BY <1>1, <1>2, <1>3

\* Of a pair of legs of one size that run both ways, the amount is that size.
LEMMA PairAmount ==
    ASSUME NEW legs, legs \subseteq DOMAIN Legs, IsFiniteSet(legs), Cardinality(legs) = 2,
           Link!Senders(legs) # {}, Link!Recipients(legs) # {}, Link!Paired(legs) = legs,
           NEW l \in legs
    PROVE  Link!SettlementAmount(legs) = Link!Magnitude(Legs[l].amount)
<1>1. PICK x \in legs : Legs[x].amount < 0
  BY DEF Link!Senders
<1>2. PICK y \in legs : Legs[y].amount > 0
  BY DEF Link!Recipients
<1>3. Legs[x].amount \in Int /\ Legs[y].amount \in Int /\ x # y
  BY <1>1, <1>2, MoneyIsCounted
<1>4. legs = {x, y}
  <2> DEFINE rest == legs \ {x}
  <2>1. IsFiniteSet(rest) /\ Cardinality(rest) = 1 /\ y \in rest
    BY <1>3, FS_RemoveElement
  <2> HIDE DEF rest
  <2>2. PICK z : rest = {z}
    BY <2>1, FS_Singleton
  <2>3. rest = {y}
    BY <2>1, <2>2
  <2> QED BY <2>3 DEF rest
<1>5. Link!Magnitude(Legs[x].amount) = Link!Magnitude(Legs[y].amount)
  <2>1. PICK k \in legs \ {x} : Link!Magnitude(Legs[k].amount) = Link!Magnitude(Legs[x].amount)
    BY DEF Link!Paired
  <2> QED BY <1>4, <2>1
<1>6. {k \in legs : Legs[k].amount < 0} = {x} /\ {k \in legs : Legs[k].amount >= 0} = {y}
  BY <1>1, <1>2, <1>3, <1>4
<1>7. Link!SettlementAmount(legs) = Link!Magnitude(Legs[x].amount)
  BY <1>5, <1>6, LegSum DEF Link!SettlementAmount
<1> QED BY <1>4, <1>5, <1>7

\* What is picked are transfers, a few of them, and what is recorded is what
\* the legs picked come to.
FewLegs(legs) == legs \subseteq DOMAIN Legs /\ IsFiniteSet(legs)
RecordedAsPicked(c) ==
    c.kind = "record" =>
        /\ FewLegs(c.legs) /\ c.direction = Link!DeriveDirection(c.legs) /\ c.direction # None
        /\ c.amount = Link!SettlementAmount(c.legs)
PickedInv == LinkInv /\ FewLegs(view.selected) /\ \A c \in calls : RecordedAsPicked(c)

\* Nothing is picked at first.
LEMMA PickedInit == Link!Init => PickedInv
<1> SUFFICES ASSUME Link!Init PROVE PickedInv
  OBVIOUS
<1>1. view.selected = {} /\ calls = {}
  BY DEF Link!Init, Link!Empty
<1>2. FewLegs(view.selected)
  BY <1>1, FS_EmptySet DEF FewLegs
<1> QED BY <1>1, <1>2, LinkInit DEF PickedInv

\* A leg picked or dropped.
LEMMA PickedToggle ==
    ASSUME PickedInv, NEW l \in DOMAIN Legs, Link!ToggleLeg(l)
    PROVE  FewLegs(view'.selected) /\ calls' = calls
<1> DEFINE next == IF l \in view.selected THEN view.selected \ {l} ELSE view.selected \cup {l}
<1>1. IsFiniteSet(view.selected \ {l}) /\ IsFiniteSet(view.selected \cup {l})
  BY FS_AddElement, FS_Subset DEF PickedInv, FewLegs
<1>2. FewLegs(next)
  BY <1>1 DEF PickedInv, FewLegs
<1>3. FewLegs(next \cap Link!Candidates(view.search))
  BY <1>2, FS_Subset DEF FewLegs
<1>4. view'.selected \in {next, next \cap Link!Candidates(view.search)} /\ calls' = calls
  BY DEF Link!ToggleLeg, PickedInv, LinkInv, LinkView
<1> QED BY <1>2, <1>3, <1>4

\* Every step keeps the invariant.
LEMMA PickedStep == PickedInv /\ Link!Next => PickedInv'
<1> SUFFICES ASSUME PickedInv, Link!Next PROVE PickedInv'
  OBVIOUS
<1>0. LinkInv' /\ LinkInv /\ FewLegs(view.selected) /\ \A c \in calls : RecordedAsPicked(c)
  BY LinkStep DEF PickedInv
<1>1. ASSUME FewLegs(view'.selected), calls' \subseteq calls PROVE PickedInv'
  BY <1>0, <1>1 DEF PickedInv, RecordedAsPicked, FewLegs
<1>2. ASSUME view'.selected \in {view.selected, {}}, calls' \subseteq calls PROVE PickedInv'
  <2>1. FewLegs(view'.selected)
    BY <1>0, <1>2, FS_EmptySet DEF FewLegs
  <2> QED BY <1>1, <1>2, <2>1
<1>3. ASSUME view'.selected = view.selected, NEW new, calls' \subseteq calls \cup new,
             \A c \in new : RecordedAsPicked(c)
      PROVE  PickedInv'
  BY <1>0, <1>3 DEF PickedInv, RecordedAsPicked, FewLegs
<1>4. CASE Link!Record
  <2> DEFINE c == Link!Call("record", view.selected)
  <2> DEFINE new == {c}
  <2>1. /\ calls' = calls \cup new /\ view'.selected = view.selected
        /\ Link!DeriveDirection(view.selected) # None
    BY <1>0, <1>4 DEF Link!Record, Link!Send, LinkInv, LinkView
  <2>2. RecordedAsPicked(c)
    BY <1>0, <2>1 DEF Link!Call, RecordedAsPicked
  <2> HIDE DEF c
  <2>3. \A e \in new : RecordedAsPicked(e)
    BY <2>2
  <2> HIDE DEF new
  <2> QED BY <1>3, <2>1, <2>3
<1>5. CASE Link!Link
  <2> DEFINE new == {Link!Call("mark", {l}) : l \in view.selected}
  <2>1. calls' = calls \cup new /\ view'.selected = view.selected
    BY <1>0, <1>5 DEF Link!Link, Link!Send, LinkInv, LinkView
  <2>2. \A l : Link!Call("mark", {l}).kind = "mark"
    BY DEF Link!Call
  <2>3. \A c \in new : c.kind = "mark"
    BY <2>2
  <2> HIDE DEF new
  <2>4. \A c \in new : RecordedAsPicked(c)
    BY <2>3 DEF RecordedAsPicked
  <2> QED BY <1>3, <2>1, <2>4
<1>6. ASSUME NEW c \in calls, Link!Accept(c) PROVE PickedInv'
  <2> DEFINE d == [c EXCEPT !.ok = TRUE]
  <2> DEFINE new == {d}
  <2>1. calls' = (calls \ {c}) \cup new /\ view' = view
    BY <1>6 DEF Link!Accept
  <2>2. d.kind = c.kind /\ d.legs = c.legs /\ d.direction = c.direction /\ d.amount = c.amount
    BY <1>0 DEF LinkInv, LinkCall
  <2> HIDE DEF d
  <2>3. RecordedAsPicked(d)
    BY <1>0, <2>2 DEF RecordedAsPicked
  <2>4. \A e \in new : RecordedAsPicked(e)
    BY <2>3
  <2> HIDE DEF new
  <2> QED BY <1>3, <2>1, <2>4
<1>7. ASSUME NEW c \in calls, Link!Succeed(c) \/ Link!Refuse(c) PROVE PickedInv'
  <2>1. view'.selected \in {view.selected, {}} /\ calls' = calls \ {c}
    BY <1>0, <1>7 DEF Link!Succeed, Link!Refuse, LinkInv, LinkView
  <2> QED BY <1>2, <2>1
<1>8. CASE Link!Rekey
  <2>1. view'.selected = {} /\ calls' = calls
    BY <1>8 DEF Link!Rekey, Link!Empty
  <2> QED BY <1>2, <2>1
<1>9. ASSUME NEW m, Link!Search(m) \/ Link!ToggleMonth(m) PROVE PickedInv'
  <2>1. view'.selected = view.selected /\ calls' = calls
    BY <1>0, <1>9 DEF Link!Search, Link!ToggleMonth, LinkInv, LinkView
  <2> QED BY <1>2, <2>1
<1>10. CASE Link!ShowAll
  <2>1. view'.selected = view.selected /\ calls' = calls
    BY <1>0, <1>10 DEF Link!ShowAll, LinkInv, LinkView
  <2> QED BY <1>2, <2>1
<1>11. ASSUME NEW l \in DOMAIN Legs, Link!ToggleLeg(l) PROVE PickedInv'
  <2>1. FewLegs(view'.selected) /\ calls' = calls
    BY <1>11, PickedToggle
  <2> QED BY <1>1, <2>1
<1>12. ASSUME NEW l \in DOMAIN Legs, Link!Elsewhere(l) PROVE PickedInv'
  BY <1>2, <1>12 DEF Link!Elsewhere
<1> QED BY <1>4, <1>5, <1>6, <1>7, <1>8, <1>9, <1>10, <1>11, <1>12 DEF Link!Next

\* What is recorded is what the legs say.
LEMMA RecordedSays ==
    ASSUME NEW c, c.kind = "record", RecordedAsPicked(c)
    PROVE  /\ c.direction # None /\ Link!ServerDirections(c.legs) = {c.direction}
           /\ \A l \in c.legs : Link!Cardinality(c.legs) = 2 /\ Link!Cardinality(Link!Senders(c.legs)) = 1
                /\ Link!Cardinality(Link!Recipients(c.legs)) = 1 /\ Link!Paired(c.legs) = c.legs
                => c.amount = Link!Magnitude(Legs[l].amount)
<1>1. /\ FewLegs(c.legs) /\ c.direction = Link!DeriveDirection(c.legs) /\ c.direction # None
      /\ c.amount = Link!SettlementAmount(c.legs)
  BY DEF RecordedAsPicked
<1>2. c.legs \subseteq DOMAIN Legs /\ IsFiniteSet(c.legs)
  BY <1>1 DEF FewLegs
<1>3. Link!ServerDirections(c.legs) = {c.direction}
  BY <1>1, <1>2, OneDirection
<1>4. ASSUME NEW l \in c.legs, Link!Cardinality(c.legs) = 2,
             Link!Cardinality(Link!Senders(c.legs)) = 1,
             Link!Cardinality(Link!Recipients(c.legs)) = 1, Link!Paired(c.legs) = c.legs
      PROVE  c.amount = Link!Magnitude(Legs[l].amount)
  <2>1. \A S : Link!Cardinality(S) = Cardinality(S)
    BY PageCounts
  <2>2. Cardinality(c.legs) = 2
    BY <1>4, <2>1
  <2>3. Link!Senders(c.legs) # {} /\ Link!Recipients(c.legs) # {}
    BY <1>4, <2>1, FS_EmptySet
  <2> QED BY <1>1, <1>2, <1>4, <2>2, <2>3, PairAmount
<1> QED BY <1>1, <1>3, <1>4

\* A recorded payment has the direction the server derives from its legs and
\* the amount of one side of the transfer (CandidateChecklist.tsx).
THEOREM RecordedAsLegsSay == Spec => []RecordsWhatLegsSay
<1> DEFINE Inv == On("link", PickedInv)
<1>1. Init => Inv
  BY PickedInit DEF Init, On
<1>2. Inv /\ [Next]_vars => Inv'
  <2> SUFFICES ASSUME Inv, page = "link", [Next]_vars PROVE On("link", PickedInv)'
    BY DEF Next, On, vars
  <2>1. CASE Link!Next
    BY <2>1, PickedStep DEF On
  <2>2. CASE UNCHANGED vars
    BY <2>2 DEF vars, On, PickedInv, FewLegs, RecordedAsPicked, LinkInv, LinkView, LinkCall,
                AskedFor, Accepted, Busy
  <2> QED BY <2>1, <2>2 DEF Next
<1>3. PickedInv => Link!RecordsWhatLegsSay
  BY RecordedSays DEF PickedInv, Link!RecordsWhatLegsSay
<1>4. Inv => RecordsWhatLegsSay
  BY <1>3 DEF On, RecordsWhatLegsSay
<1> QED BY <1>1, <1>2, <1>4, PTL DEF Spec

----------------------------------------------------------------------------
(* Who owes whom: an answer is one of the server's for its key, whenever it *)
(* comes, and speaks of books that have been.                               *)
TheMonths == {1, 2}
Books == [TheMonths -> [charged : Int, paid : Int, spent : Nat \ {0}]]
HasBeen(book) == \A m \in TheMonths : book[m] \in server.past[m]
Served(k, d) == d = None \/ \E book \in Books : d = Balance!Answer(k, book) /\ HasBeen(book)
BalanceServer ==
    /\ {"book", "changes", "past"} \subseteq DOMAIN server
    /\ server.book \in Books /\ HasBeen(server.book)
BalanceCalls == DOMAIN calls \subseteq Balance!Keys /\ \A k \in DOMAIN calls : Served(k, calls[k])
BalanceCache(cache) ==
    /\ DOMAIN cache = Balance!Keys
    /\ \A k \in Balance!Keys : {"data", "error"} \subseteq DOMAIN cache[k] /\ Served(k, cache[k].data)
BalanceView ==
    /\ {"page", "scope", "month", "try", "cache"} \subseteq DOMAIN view
    /\ view.scope \in {"household", "personal"} /\ view.month \in TheMonths \cup {None}
    /\ BalanceCache(view.cache)
BalanceInv == BalanceServer /\ BalanceCalls /\ BalanceView

\* The empty books, and nothing fetched.
LEMMA BalanceInit == Balance!Init => BalanceInv
<1> SUFFICES ASSUME Balance!Init PROVE BalanceInv
  OBVIOUS
<1> DEFINE none == [charged |-> 0, paid |-> 0, spent |-> 1]
<1>1. /\ server = [book |-> [m \in TheMonths |-> none], changes |-> 0, past |-> [m \in TheMonths |-> {none}]]
      /\ view = [page |-> "dashboard", scope |-> "household", month |-> None, try |-> 0,
                 cache |-> [k \in Balance!Keys |-> [data |-> None, error |-> FALSE]]]
      /\ calls = <<>>
  BY DEF Balance!Init, TheMonths
<1>2. none \in [charged : Int, paid : Int, spent : Nat \ {0}]
  OBVIOUS
<1>3. BalanceServer
  BY <1>1, <1>2 DEF BalanceServer, Books, HasBeen
<1>4. BalanceCalls
  BY <1>1 DEF BalanceCalls
<1>5. BalanceView
  BY <1>1 DEF BalanceView, BalanceCache, Served
<1> QED BY <1>3, <1>4, <1>5 DEF BalanceInv

\* The books change: what has been stays in the past.
LEMMA BalanceChange ==
    ASSUME BalanceInv, NEW new \in Books, Balance!Change(new)
    PROVE  BalanceInv'
<1>1. /\ server' = [book |-> new, changes |-> server.changes + 1,
                    past |-> [m \in TheMonths |-> server.past[m] \cup {new[m]}]]
      /\ view' = view /\ calls' = calls
  BY DEF Balance!Change, TheMonths
<1>2. /\ server'.book = new /\ {"book", "changes", "past"} \subseteq DOMAIN server'
      /\ \A m \in TheMonths : server'.past[m] = server.past[m] \cup {new[m]}
  BY <1>1
<1>3. HasBeen(new)' /\ \A book : HasBeen(book) => HasBeen(book)'
  BY <1>2 DEF HasBeen
<1>4. \A k, d : Served(k, d) => Served(k, d)'
  BY <1>3 DEF Served
<1>5. BalanceServer'
  BY <1>2, <1>3 DEF BalanceServer
<1> QED BY <1>1, <1>4, <1>5 DEF BalanceInv, BalanceCalls, BalanceView, BalanceCache

\* What is spent, and what is paid, keeps the books in cents.
LEMMA BooksKept ==
    ASSUME NEW book \in Books, NEW m \in TheMonths
    PROVE  /\ \A n \in {-1, 1} : [book EXCEPT ![m].charged = @ + n, ![m].spent = @ + 1] \in Books
           /\ [book EXCEPT ![m].paid = book[m].charged] \in Books
<1>1. book[m] \in [charged : Int, paid : Int, spent : Nat \ {0}]
  BY DEF Books
<1>2. ASSUME NEW n \in {-1, 1} PROVE [book EXCEPT ![m].charged = @ + n, ![m].spent = @ + 1] \in Books
  <2>1. [book[m] EXCEPT !.charged = @ + n, !.spent = @ + 1] \in [charged : Int, paid : Int, spent : Nat \ {0}]
    <3> DEFINE Month == [charged : Int, paid : Int, spent : Nat \ {0}]
    <3>1. \A q \in Month : \A c \in Int, s \in Nat \ {0} : [q EXCEPT !.charged = c, !.spent = s] \in Month
      OBVIOUS
    <3>2. \A q \in Month : q.charged + n \in Int /\ q.spent + 1 \in Nat \ {0}
      OBVIOUS
    <3> HIDE DEF Month
    <3>3. book[m] \in Month
      BY <1>1 DEF Month
    <3>4. [book[m] EXCEPT !.charged = book[m].charged + n, !.spent = book[m].spent + 1] \in Month
      BY <3>1, <3>2, <3>3
    <3> QED BY <3>4 DEF Month
  <2>2. [book EXCEPT ![m].charged = @ + n, ![m].spent = @ + 1]
          = [book EXCEPT ![m] = [book[m] EXCEPT !.charged = @ + n, !.spent = @ + 1]]
    BY <1>1 DEF Books
  <2> QED BY <2>1, <2>2 DEF Books
<1>3. [book EXCEPT ![m].paid = book[m].charged] \in Books
  <2>1. [book[m] EXCEPT !.paid = book[m].charged] \in [charged : Int, paid : Int, spent : Nat \ {0}]
    BY <1>1
  <2> QED BY <2>1 DEF Books
<1> QED BY <1>2, <1>3

\* Every step keeps the invariant.
LEMMA BalanceStep == BalanceInv /\ Balance!Next => BalanceInv'
<1> SUFFICES ASSUME BalanceInv, Balance!Next PROVE BalanceInv'
  OBVIOUS
<1>0. BalanceServer /\ BalanceCalls /\ BalanceView
  BY DEF BalanceInv
<1>1. ASSUME server' = server PROVE \A k, d : Served(k, d) <=> Served(k, d)'
  BY <1>1 DEF Served, HasBeen
<1>2. ASSUME server' = server, DOMAIN calls' \subseteq Balance!Keys,
             \A k \in DOMAIN calls' : Served(k, calls'[k]),
             DOMAIN view' = DOMAIN view, view'.scope \in {"household", "personal"},
             view'.month \in TheMonths \cup {None}, BalanceCache(view'.cache)
      PROVE  BalanceInv'
  <2>1. BalanceServer'
    BY <1>0, <1>2 DEF BalanceServer, HasBeen
  <2>2. BalanceCalls'
    BY <1>1, <1>2 DEF BalanceCalls
  <2>3. BalanceView'
    BY <1>0, <1>1, <1>2 DEF BalanceView, BalanceCache
  <2> QED BY <2>1, <2>2, <2>3 DEF BalanceInv
<1>3. ASSUME NEW k \in Balance!Keys, Balance!Fetch(k) PROVE BalanceInv'
  <2> DEFINE asked == [j \in DOMAIN calls \cup {k} |-> IF j = k THEN None ELSE calls[j]]
             entry == [view.cache[k] EXCEPT !.error = FALSE]
             cache == [view.cache EXCEPT ![k] = entry]
  <2>1. server' = server /\ calls' = asked
        /\ view' = [view EXCEPT !.try = @ + 1, !.cache[k].error = FALSE]
    BY <1>3 DEF Balance!Fetch
  <2>2. /\ DOMAIN view' = DOMAIN view /\ view'.scope = view.scope /\ view'.month = view.month
        /\ view'.cache = cache
    BY <1>0, <2>1 DEF BalanceView
  <2>3. DOMAIN entry = DOMAIN view.cache[k] /\ entry.data = view.cache[k].data
    BY <1>0 DEF BalanceView, BalanceCache
  <2> HIDE DEF entry
  <2>4. BalanceCache(cache)
    BY <1>0, <2>3 DEF BalanceView, BalanceCache
  <2>5. DOMAIN asked \subseteq Balance!Keys /\ \A j \in DOMAIN asked : Served(j, asked[j])
    BY <1>0 DEF BalanceCalls, Served
  <2> HIDE DEF asked, cache
  <2> QED BY <1>0, <1>2, <2>1, <2>2, <2>4, <2>5 DEF BalanceView
<1>4. ASSUME NEW k \in DOMAIN calls, Balance!ServerAnswers(k) PROVE BalanceInv'
  <2> DEFINE answer == Balance!Answer(k, server.book)
  <2>1. server' = server /\ view' = view /\ calls' = [calls EXCEPT ![k] = answer]
    BY <1>4 DEF Balance!ServerAnswers
  <2>2. Served(k, answer)
    BY <1>0 DEF Served, BalanceServer
  <2> HIDE DEF answer
  <2>3. DOMAIN calls' \subseteq Balance!Keys /\ \A j \in DOMAIN calls' : Served(j, calls'[j])
    BY <1>0, <2>1, <2>2 DEF BalanceCalls
  <2> QED BY <1>0, <1>2, <2>1, <2>3 DEF BalanceView
<1>5. ASSUME NEW k \in DOMAIN calls, Balance!Done(k)
      PROVE  DOMAIN calls' \subseteq Balance!Keys /\ \A j \in DOMAIN calls' : Served(j, calls'[j])
  BY <1>0, <1>5 DEF Balance!Done, BalanceCalls
<1>6. ASSUME NEW k \in DOMAIN calls, Balance!Arrive(k) PROVE BalanceInv'
  <2> DEFINE entry == [data |-> calls[k], error |-> FALSE]
             cache == [view.cache EXCEPT ![k] = entry]
  <2>1. server' = server /\ Balance!Done(k) /\ view' = [view EXCEPT !.cache[k] = entry]
    BY <1>6 DEF Balance!Arrive
  <2>2. /\ DOMAIN view' = DOMAIN view /\ view'.scope = view.scope /\ view'.month = view.month
        /\ view'.cache = cache
    BY <1>0, <2>1 DEF BalanceView
  <2>3. {"data", "error"} \subseteq DOMAIN entry /\ Served(k, entry.data)
    BY <1>0 DEF BalanceCalls
  <2> HIDE DEF entry
  <2>4. BalanceCache(cache)
    BY <1>0, <2>3 DEF BalanceView, BalanceCache
  <2> HIDE DEF cache
  <2> QED BY <1>0, <1>2, <1>5, <2>1, <2>2, <2>4 DEF BalanceView
<1>7. ASSUME NEW k \in DOMAIN calls, Balance!Fail(k) PROVE BalanceInv'
  <2> DEFINE entry == [view.cache[k] EXCEPT !.error = (view.cache[k].data = None)]
             cache == [view.cache EXCEPT ![k] = entry]
  <2>0. k \in Balance!Keys
    BY <1>0 DEF BalanceCalls
  <2>1. server' = server /\ Balance!Done(k) /\ view' = [view EXCEPT !.cache[k].error = view.cache[k].data = None]
    BY <1>7 DEF Balance!Fail
  <2>2. /\ DOMAIN view' = DOMAIN view /\ view'.scope = view.scope /\ view'.month = view.month
        /\ view'.cache = cache
    BY <1>0, <2>0, <2>1 DEF BalanceView
  <2>3. DOMAIN entry = DOMAIN view.cache[k] /\ entry.data = view.cache[k].data
    BY <1>0, <2>0 DEF BalanceView, BalanceCache
  <2> HIDE DEF entry
  <2>4. BalanceCache(cache)
    BY <1>0, <2>0, <2>3 DEF BalanceView, BalanceCache
  <2> HIDE DEF cache
  <2> QED BY <1>0, <1>2, <1>5, <2>1, <2>2, <2>4 DEF BalanceView
<1>8. ASSUME UNCHANGED <<server, calls>>, DOMAIN view' = DOMAIN view, view'.cache = view.cache,
             view'.scope \in {"household", "personal"}, view'.month \in TheMonths \cup {None}
      PROVE  BalanceInv'
  BY <1>0, <1>2, <1>8 DEF BalanceCalls, BalanceView
<1>9. ASSUME NEW s \in {"household", "personal"}, Balance!SetScope(s) PROVE BalanceInv'
  BY <1>0, <1>8, <1>9 DEF Balance!SetScope, BalanceView
<1>10. ASSUME NEW m \in TheMonths, Balance!OpenMonth(m) PROVE BalanceInv'
  BY <1>0, <1>8, <1>10 DEF Balance!OpenMonth, BalanceView
<1>11. ASSUME NEW m \in TheMonths \cup {None}, Balance!PickMonth(m) PROVE BalanceInv'
  BY <1>0, <1>8, <1>11 DEF Balance!PickMonth, BalanceView
<1>12. CASE Balance!Leave
  BY <1>0, <1>8, <1>12 DEF Balance!Leave, BalanceView
<1>13. ASSUME NEW m \in TheMonths, Balance!Pay(m) PROVE BalanceInv'
  <2> DEFINE new == [server.book EXCEPT ![m].paid = server.book[m].charged]
  <2>1. Balance!Change(new)
    BY <1>13 DEF Balance!Pay
  <2>2. new \in Books
    BY <1>0, BooksKept DEF BalanceServer
  <2> HIDE DEF new
  <2> QED BY <2>1, <2>2, BalanceChange
<1>14. ASSUME NEW m \in TheMonths, NEW n \in {-1, 1}, Balance!Spend(m, n) PROVE BalanceInv'
  <2> DEFINE new == [server.book EXCEPT ![m].charged = @ + n, ![m].spent = @ + 1]
  <2>1. Balance!Change(new)
    BY <1>14 DEF Balance!Spend
  <2>2. new \in Books
    BY <1>0, BooksKept DEF BalanceServer
  <2> HIDE DEF new
  <2> QED BY <2>1, <2>2, BalanceChange
<1> QED BY <1>3, <1>4, <1>6, <1>7, <1>9, <1>10, <1>11, <1>12, <1>13, <1>14
        DEF Balance!Next, TheMonths

\* What is owed is nothing, or a record that is neither None nor a saying.
LEMMA OwedIs ==
    ASSUME NEW n \in Int
    PROVE  /\ n = 0 <=> Balance!Owed(n) = None
           /\ n # 0 => /\ Balance!Owed(n).from \in {Me, Partner} /\ Balance!Owed(n).to \in {Me, Partner}
                       /\ Balance!Owed(n).from # Balance!Owed(n).to
                       /\ \A said : Balance!Owed(n) # Balance!Says(said)
<1> DEFINE owed(a, b, c) == [from |-> a, to |-> b, amount |-> c]
<1>1. /\ n > 0 => Balance!Owed(n) = owed(Partner, Me, n)
      /\ n < 0 => Balance!Owed(n) = owed(Me, Partner, -n)
      /\ n = 0 => Balance!Owed(n) = None
  BY DEF Balance!Owed
<1>2. ASSUME NEW a \in People, NEW b \in People, NEW c \in Int
      PROVE  owed(a, b, c) # None /\ \A said : owed(a, b, c) # Balance!Says(said)
  <2>1. owed(a, b, c) # None
    BY NoneIsNothing
  <2>2. ASSUME NEW said, owed(a, b, c) = Balance!Says(said) PROVE FALSE
    <3>1. "from" \in DOMAIN owed(a, b, c) /\ "from" \notin DOMAIN Balance!Says(said)
      BY DEF Balance!Says
    <3> QED BY <2>2, <3>1
  <2> QED BY <2>1, <2>2
<1>3. n > 0 \/ n < 0 \/ n = 0
  OBVIOUS
<1>4. \A a, b, c : owed(a, b, c).from = a /\ owed(a, b, c).to = b
  OBVIOUS
<1> HIDE DEF owed
<1>5. n \in Int /\ -n \in Int /\ Me \in People /\ Partner \in People /\ Me # Partner
  BY TwoPeople
<1> QED BY <1>1, <1>2, <1>3, <1>4, <1>5

\* The balances of the books are cents.
LEMMA BalanceCents ==
    ASSUME NEW book \in Books, NEW m \in TheMonths
    PROVE  Balance!Balance(book, m) \in Int /\ book[m].spent \in Nat \ {0}
BY DEF Books, Balance!Balance

\* Two months sum to the one and the other.
LEMMA BothMonths ==
    ASSUME NEW f, DOMAIN f = {1, 2}, f[1] \in Int, f[2] \in Int
    PROVE  Balance!Total(f) = f[1] + f[2]
<1>1. Balance!Total(f) = Sum(f, {1, 2})
  BY PageSums DEF Balance!Total
<1>2. 1 # 2
  OBVIOUS
<1> QED BY <1>1, <1>2, SumTwo

\* The card over the transactions.
LEMMA NeverClaims == BalanceInv => Balance!NeverClaimsSettled
<1> DEFINE m == view.month
           k == Balance!MonthKey(m)
           r == Balance!RowsKey(m)
           card == Balance!Card(m)
           gross == Balance!Kept(r).settlement
<1> SUFFICES ASSUME BalanceInv, m # None, Balance!Kept(r) # None
             PROVE  /\ card.caption = "balance" =>
                         \E b \in server.past[m] : card.headline = Balance!Label(Balance!Owed(b.charged - b.paid))
                    /\ card.caption = "gross" =>
                         \E b \in server.past[m] : card.headline = Balance!Owed(b.charged) /\ b.charged # 0
                    /\ card.headline = Balance!Says("Settled") => card.caption = "balance"
  BY DEF Balance!NeverClaimsSettled
<1>1. /\ m \in TheMonths /\ k = [page |-> "settle-up", at |-> m] /\ k \in Balance!Keys
      /\ r = [page |-> "transactions", at |-> m] /\ r \in Balance!Keys
  BY DEF BalanceInv, BalanceView, Balance!MonthKey, Balance!RowsKey, Balance!Keys, TheMonths
<1>2. PICK rows \in Books : view.cache[r].data = Balance!Answer(r, rows) /\ HasBeen(rows)
  BY <1>1 DEF BalanceInv, BalanceView, BalanceCache, Served, Balance!Kept
<1>3. gross = Balance!Owed(rows[m].charged)
  <2>1. Balance!Answer(r, rows) = [month |-> m, settlement |-> Balance!Owed(rows[m].charged)]
    BY <1>1 DEF Balance!Answer
  <2>2. Balance!Kept(r) = Balance!Answer(r, rows)
    BY <1>2 DEF Balance!Kept
  <2> QED BY <2>1, <2>2
<1>4. rows[m] \in server.past[m] /\ rows[m].charged \in Int
  BY <1>1, <1>2 DEF HasBeen, Books
<1>5. Balance!Kind(m) \in {"ready", "loading", "error", "disabled"}
  BY DEF Balance!Kind
<1>6. CASE Balance!Kind(m) = "ready"
  <2>1. Balance!ForMonth(m) # None /\ Balance!ForMonth(m) = view.cache[k].data
    BY <1>6 DEF Balance!Kind, Balance!ForMonth, Balance!Kept
  <2>2. PICK book \in Books : view.cache[k].data = Balance!Answer(k, book) /\ HasBeen(book)
    BY <1>1, <2>1 DEF BalanceInv, BalanceView, BalanceCache, Served
  <2>3. Balance!ForMonth(m).owed = Balance!Owed(book[m].charged - book[m].paid)
    <3>1. Balance!Answer(k, book).owed = Balance!Owed(book[m].charged - book[m].paid)
      BY <1>1 DEF Balance!Answer, Balance!Balance
    <3> QED BY <2>1, <2>2, <3>1
  <2>4. card = [caption |-> "balance", headline |-> Balance!Label(Balance!ForMonth(m).owed)]
    BY <1>6 DEF Balance!Card
  <2>5. book[m] \in server.past[m]
    BY <1>1, <2>2 DEF HasBeen
  <2> HIDE DEF card
  <2> QED BY <2>3, <2>4, <2>5
<1>7. CASE Balance!Kind(m) = "error" /\ gross # None
  <2>1. card = [caption |-> "gross", headline |-> gross]
    BY <1>7 DEF Balance!Card
  <2>2. rows[m].charged # 0 /\ gross # Balance!Says("Settled")
    <3> HIDE DEF gross
    <3> QED BY <1>3, <1>4, <1>7, OwedIs
  <2> HIDE DEF card, gross
  <2> QED BY <1>3, <1>4, <2>1, <2>2
<1>8. CASE Balance!Kind(m) # "ready" /\ ~(Balance!Kind(m) = "error" /\ gross # None)
  <2>1. card = [caption |-> Balance!Kind(m), headline |-> Balance!Says("unknown")]
    BY <1>8 DEF Balance!Card
  <2>2. Balance!Says("unknown") # Balance!Says("Settled")
    BY DEF Balance!Says
  <2> HIDE DEF card
  <2> QED BY <1>5, <2>1, <2>2
<1> QED BY <1>6, <1>7, <1>8

\* What the dashboard is answered.
LEMMA DashboardAnswer ==
    ASSUME NEW book \in Books, NEW scope \in {"household", "personal"}
    PROVE  LET d == Balance!Answer(Balance!DashboardKey(scope), book)
               both == Balance!Balance(book, 1) + Balance!Balance(book, 2)
           IN /\ d.scope = scope /\ both \in Int /\ d.year = Balance!Owed(both)
              /\ scope = "personal" => d.mine \in Int /\ d.mine > 0
              /\ \A m \in TheMonths : d.rows[m] = [owed |-> Balance!Owed(Balance!Balance(book, m)),
                                                   status |-> Balance!Status(book, m)]
<1> DEFINE d == Balance!Answer(Balance!DashboardKey(scope), book)
           balances == [m \in {1, 2} |-> Balance!Balance(book, m)]
           spent == [m \in {1, 2} |-> book[m].spent]
<1>1. /\ d.scope = scope /\ d.year = Balance!Owed(Balance!Total(balances))
      /\ scope = "personal" => d.mine = Balance!Total(spent)
      /\ \A m \in TheMonths : d.rows[m] = [owed |-> Balance!Owed(Balance!Balance(book, m)),
                                           status |-> Balance!Status(book, m)]
  BY DEF Balance!Answer, Balance!DashboardKey, TheMonths
<1>2. /\ balances[1] \in Int /\ balances[2] \in Int /\ DOMAIN balances = {1, 2}
      /\ balances[1] = Balance!Balance(book, 1) /\ balances[2] = Balance!Balance(book, 2)
      /\ spent[1] \in Nat \ {0} /\ spent[2] \in Nat \ {0} /\ DOMAIN spent = {1, 2}
  BY BalanceCents DEF TheMonths
<1> HIDE DEF d, balances, spent
<1>3. Balance!Total(balances) = balances[1] + balances[2]
  BY <1>2, BothMonths
<1>4. Balance!Total(spent) = spent[1] + spent[2]
  <2>1. spent[1] \in Int /\ spent[2] \in Int
    BY <1>2
  <2> QED BY <1>2, <2>1, BothMonths
<1>5. Balance!Total(spent) \in Int /\ Balance!Total(spent) > 0
  BY <1>2, <1>4
<1> QED BY <1>1, <1>2, <1>3, <1>5 DEF d

\* The dashboard.
LEMMA Speaks == BalanceInv => Balance!SpeaksForScope
<1> DEFINE k == Balance!DashboardKey(view.scope)
           d == Balance!Kept(k)
<1> SUFFICES ASSUME BalanceInv, d # None
             PROVE  /\ view.scope = "personal" => Balance!PersonalStats(d) > 0
                    /\ view.scope = "personal" /\ d.year # None =>
                         Balance!Hero(d) = IF d.year.from = Me THEN [said |-> "You owe", whom |-> Partner]
                                           ELSE [said |-> "owes you", whom |-> Partner]
                    /\ (\A m \in TheMonths : Balance!MonthHistory(d)[m] = Balance!Says("Settled"))
                         => Balance!Hero(d) \in {Balance!Says("Settled"), Balance!Says("Nothing to settle")}
  BY DEF Balance!SpeaksForScope, TheMonths
<1>1. view.scope \in {"household", "personal"} /\ k \in Balance!Keys
  BY DEF BalanceInv, BalanceView, Balance!DashboardKey, Balance!Keys
<1>2. PICK book \in Books : d = Balance!Answer(k, book)
  BY <1>1 DEF BalanceInv, BalanceView, BalanceCache, Served, Balance!Kept
<1> DEFINE both == Balance!Balance(book, 1) + Balance!Balance(book, 2)
<1>3. /\ d.scope = view.scope /\ both \in Int /\ d.year = Balance!Owed(both)
      /\ view.scope = "personal" => d.mine \in Int /\ d.mine > 0
      /\ \A m \in TheMonths : d.rows[m] = [owed |-> Balance!Owed(Balance!Balance(book, m)),
                                           status |-> Balance!Status(book, m)]
  BY <1>1, <1>2, DashboardAnswer
<1> HIDE DEF k, d
<1>4. view.scope = "personal" => Balance!PersonalStats(d) > 0
  BY <1>3, NoneIsNothing DEF Balance!PersonalStats
<1>5. ASSUME view.scope = "personal", d.year # None
      PROVE  Balance!Hero(d) = IF d.year.from = Me THEN [said |-> "You owe", whom |-> Partner]
                               ELSE [said |-> "owes you", whom |-> Partner]
  <2>1. /\ d.year.from \in {Me, Partner} /\ d.year.to \in {Me, Partner} /\ d.year.from # d.year.to
    <3>1. both # 0
      BY <1>3, <1>5, OwedIs
    <3> HIDE DEF both
    <3> QED BY <1>3, <3>1, OwedIs
  <2>2. d.year.from = Me => d.year.to = Partner
    BY <2>1
  <2>3. d.year.from # Me => d.year.to = Me /\ d.year.from = Partner
    BY <2>1
  <2>4. CASE d.year.from = Me
    <3>1. Balance!Hero(d) = [said |-> "You owe", whom |-> d.year.to]
      BY <1>3, <1>5, <2>1, <2>4 DEF Balance!Hero
    <3> QED BY <2>2, <2>4, <3>1
  <2>5. CASE d.year.from # Me
    <3>1. Balance!Hero(d) = [said |-> "owes you", whom |-> d.year.from]
      BY <1>3, <1>5, <2>3, <2>5 DEF Balance!Hero
    <3> QED BY <2>3, <2>5, <3>1
  <2> QED BY <2>4, <2>5
<1>6. ASSUME \A m \in TheMonths : Balance!MonthHistory(d)[m] = Balance!Says("Settled")
      PROVE  Balance!Hero(d) \in {Balance!Says("Settled"), Balance!Says("Nothing to settle")}
  <2>1. ASSUME NEW m \in TheMonths PROVE Balance!Balance(book, m) = 0
    <3> DEFINE n == Balance!Balance(book, m)
    <3>1. n \in Int
      BY BalanceCents
    <3>2. /\ d.rows[m].status = Balance!Status(book, m) /\ d.rows[m].owed = Balance!Owed(n)
      <4>1. d.rows[m] = [owed |-> Balance!Owed(n), status |-> Balance!Status(book, m)]
        BY <1>3
      <4> QED BY <4>1
    <3>3. IF Balance!Status(book, m) = "settled" THEN TRUE
          ELSE Balance!Label(Balance!Owed(n)) = Balance!Says("Settled")
      BY <1>6, <3>2 DEF Balance!MonthHistory, TheMonths
    <3>4. n # 0 => Balance!Status(book, m) # "settled"
      BY DEF Balance!Status
    <3> HIDE DEF n
    <3>5. n # 0 => Balance!Label(Balance!Owed(n)) # Balance!Says("Settled")
      BY <3>1, OwedIs DEF Balance!Label
    <3>6. n = 0
      BY <3>3, <3>4, <3>5
    <3> QED BY <3>6 DEF n
  <2>2. both = 0
    <3>1. Balance!Balance(book, 1) = 0 /\ Balance!Balance(book, 2) = 0
      BY <2>1 DEF TheMonths
    <3> QED BY <3>1
  <2>3. d.year = None
    BY <1>3, <2>2, OwedIs
  <2>4. Balance!Hero(d) = Balance!Says(IF d.charged = None THEN "Nothing to settle" ELSE "Settled")
    BY <2>3 DEF Balance!Hero
  <2> QED BY <2>4
<1> QED BY <1>3, <1>4, <1>5, <1>6

\* A screen never gives a balance for a month, "Settled" among them, that the
\* month did not have; what stands in for a ledger that failed is captioned gross
\* and is what the rows of that month came to; and the dashboard speaks of the
\* scope picked and from the side of the person who looks (DashboardPage.tsx,
\* TransactionsHeaderCards.tsx).
THEOREM BalancesSpeakTrue == Spec => []BalancesAsServed
<1> DEFINE Inv == On("balances", BalanceInv)
<1>1. Init => Inv
  BY BalanceInit DEF Init, On
<1>2. Inv /\ [Next]_vars => Inv'
  <2> SUFFICES ASSUME Inv, page = "balances", [Next]_vars PROVE On("balances", BalanceInv)'
    BY DEF Next, On, vars
  <2>1. CASE Balance!Next
    BY <2>1, BalanceStep DEF On
  <2>2. CASE UNCHANGED vars
    BY <2>2 DEF vars, On, BalanceInv, BalanceServer, BalanceCalls, BalanceView, BalanceCache,
                Served, HasBeen
  <2> QED BY <2>1, <2>2 DEF Next
<1>3. Inv => BalancesAsServed
  BY NeverClaims, Speaks DEF On, BalancesAsServed
<1> QED BY <1>1, <1>2, <1>3, PTL DEF Spec
=============================================================================
