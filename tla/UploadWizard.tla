---------------------------- MODULE UploadWizard ----------------------------
(* The upload page: pick a CSV, preview it against the stored rows, review   *)
(* the changes one by one, confirm. A file can be replaced while its preview *)
(* is under way, and the stored rows change behind the page                  *)
(* (UploadPage.tsx, FileDropZone.tsx, csv-validation.ts).                    *)
EXTENDS Integers, FiniteSets

CONSTANTS Files,        \* file -> [ok: headers are Monarch's, rows: id -> version]
          Stored,       \* the rows imported so far: id -> version
          None,
          MaxRequests, MaxElsewhere    \* bounds

VARIABLES server, view, calls
vars == <<server, view, calls>>

\* What the server finds comparing a file with its rows.
Diff(f, rows) ==
  LET file == Files[f].rows IN
  [file |-> f, new |-> DOMAIN file \ DOMAIN rows,
   changed |-> {i \in DOMAIN file \cap DOMAIN rows : file[i] # rows[i]},
   removed |-> DOMAIN rows \ DOMAIN file]
\* Mutant: an imported file replaces the rows it names.
MergedAll(f, rows, accepted) == Files[f].rows
Merged(f, rows, accepted) ==
  [i \in DOMAIN Files[f].rows |->
     IF i \in DOMAIN rows \ accepted THEN rows[i] ELSE Files[f].rows[i]]

\* ----- the file ------------------------------------------------------------
Cleared(v) == [v EXCEPT !.preview = None, !.watching = 0, !.failed = FALSE]
\* Mutant: the preview of the replaced file stays.
SelectFileOnly(f) ==
  /\ view.step = "form"
  /\ view' = [view EXCEPT !.file = f, !.headerError = FALSE, !.checking = @ \cup {f}, !.latest = f]
  /\ UNCHANGED <<server, calls>>
\* The drop zone is closed after the form step; a file of another kind, empty
\* or too large never gets here (validateFile).
SelectFile(f) ==
  /\ view.step = "form"
  /\ view' = [Cleared(view) EXCEPT !.file = f, !.headerError = FALSE, !.checking = @ \cup {f},
                                   !.latest = f]
  /\ UNCHANGED <<server, calls>>
\* Only the file picked last may report missing columns.
HeadersRead(f) ==
  /\ f \in view.checking
  /\ view' = [view EXCEPT !.checking = @ \ {f},
                          !.headerError = @ \/ (view.latest = f /\ ~Files[f].ok)]
  /\ UNCHANGED <<server, calls>>

\* ----- preview, review, confirm ----------------------------------------------
Busy == \E c \in calls : c.try = view.watching
Request(kind) ==
  [kind |-> kind, file |-> view.file, try |-> view.try + 1, accepted |-> {}, shown |-> None,
   answer |-> None]
Preview ==
  /\ view.step = "form" /\ view.file # None /\ ~view.headerError /\ ~Busy /\ view.try < MaxRequests
  /\ calls' = calls \cup {Request("preview")}
  /\ view' = [Cleared(view) EXCEPT !.try = @ + 1, !.watching = view.try + 1]
  /\ UNCHANGED server

\* onSuccess moves the page on, for a preview it no longer watches too; the
\* rows are shown only while it is watched.
PreviewArrives(c) ==
  /\ c.kind = "preview" /\ c.answer # None
  /\ calls' = calls \ {c}
  /\ view' = LET moved == IF c.answer.changed # {}
                          THEN [view EXCEPT !.accepted = c.answer.changed, !.step = "review"]
                          ELSE [view EXCEPT !.step = "preview"]
             IN IF c.try = view.watching THEN [moved EXCEPT !.preview = c.answer] ELSE moved
  /\ UNCHANGED server

Nothing(d) == d.new = {} /\ d.changed = {} /\ d.removed = {}
Shows(d) == view.step \in {"preview", "review"} /\ d # None
Toggle(i) ==
  /\ view.step = "review" /\ view.preview # None /\ i \in view.preview.changed
  /\ view' = [view EXCEPT !.accepted = IF i \in @ THEN @ \ {i} ELSE @ \cup {i}]
  /\ UNCHANGED <<server, calls>>
ToggleAll(accept) ==
  /\ view.step = "review" /\ view.preview # None /\ view.preview.changed # {}
  /\ view' = [view EXCEPT !.accepted = IF accept THEN view.preview.changed ELSE {}]
  /\ UNCHANGED <<server, calls>>
Confirm ==
  /\ Shows(view.preview) /\ ~Nothing(view.preview) /\ ~Busy /\ view.try < MaxRequests
  /\ calls' = calls \cup {[Request("confirm") EXCEPT !.accepted = view.accepted,
                                                         !.shown = view.preview]}
  /\ view' = [view EXCEPT !.try = @ + 1, !.watching = view.try + 1, !.failed = FALSE]
  /\ UNCHANGED server
ConfirmArrives(c) ==
  /\ c.kind = "confirm" /\ c.answer # None
  /\ calls' = calls \ {c}
  /\ view' = [view EXCEPT !.step = "confirmed"]
  /\ UNCHANGED server
\* From the review to the preview, from the preview to the form.
Back ==
  /\ Shows(view.preview) /\ ~Nothing(view.preview) /\ ~Busy
  /\ view' = IF view.step = "review" THEN [view EXCEPT !.step = "preview"]
             ELSE [Cleared(view) EXCEPT !.step = "form"]
  /\ UNCHANGED <<server, calls>>
\* handleReset: Upload Another, or Back when there is nothing to import.
Reset ==
  /\ view.step = "confirmed" \/ (view.step = "preview" /\ Shows(view.preview) /\ Nothing(view.preview))
  /\ view' = [Cleared(view) EXCEPT !.step = "form", !.accepted = {}, !.file = None,
                                   !.headerError = FALSE]
  /\ UNCHANGED <<server, calls>>

\* ----- the server ------------------------------------------------------------
ServerPreviews(c) ==
  /\ c.kind = "preview" /\ c.answer = None /\ Files[c.file].ok
  /\ calls' = (calls \ {c}) \cup {[c EXCEPT !.answer = Diff(c.file, server.rows)]}
  /\ UNCHANGED <<server, view>>
ServerImports(c) ==
  /\ c.kind = "confirm" /\ c.answer = None
  /\ server' = [server EXCEPT !.rows = Merged(c.file, server.rows, c.accepted)]
  /\ calls' = (calls \ {c}) \cup {[c EXCEPT !.answer = Diff(c.file, server.rows)]}
  /\ UNCHANGED view
ServerRefuses(c) ==
  /\ c.answer = None
  /\ calls' = calls \ {c}
  /\ view' = [view EXCEPT !.failed = @ \/ c.try = view.watching]
  /\ UNCHANGED server
\* Another tab imports a file with every change accepted.
Elsewhere(f) ==
  /\ Files[f].ok /\ server.elsewhere < MaxElsewhere
  /\ server' = [rows |-> Merged(f, server.rows, DOMAIN Files[f].rows),
                elsewhere |-> server.elsewhere + 1]
  /\ UNCHANGED <<view, calls>>

Init ==
  /\ server = [rows |-> Stored, elsewhere |-> 0]
  /\ view = [file |-> None, headerError |-> FALSE, checking |-> {}, latest |-> None,
             step |-> "form", preview |-> None, watching |-> 0, accepted |-> {},
             try |-> 0, failed |-> FALSE]
  /\ calls = {}

Next ==
  \/ \E f \in DOMAIN Files : SelectFile(f) \/ HeadersRead(f) \/ Elsewhere(f)
  \/ \E i \in DOMAIN Stored : Toggle(i)
  \/ \E accept \in BOOLEAN : ToggleAll(accept)
  \/ Preview \/ Confirm \/ Back \/ Reset
  \/ \E c \in calls : \/ PreviewArrives(c) \/ ConfirmArrives(c)
                      \/ ServerPreviews(c) \/ ServerImports(c) \/ ServerRefuses(c)

Spec == Init /\ [][Next]_vars

(* The file that is imported is the one whose preview is on the screen,      *)
(* however the user replaced it while a preview was under way and in         *)
(* whatever order the answers came. This is about the file alone: the late   *)
(* preview of a replaced file may still put its own rows in place of the     *)
(* ticks (PreviewArrives), and the confirmation sends those.                 *)
ConfirmsWhatWasShown ==
  \A c \in calls : c.kind = "confirm" => c.file = c.shown.file

(* A stored row shown as changed whose change the confirmation does not      *)
(* accept keeps its version through the import, and a new row is never left  *)
(* out of it.                                                                *)
KeepsRejected ==
  \A c \in calls : c.kind = "confirm" /\ ServerImports(c) =>
       /\ \A i \in c.shown.changed \ c.accepted :
            i \in DOMAIN server.rows => server'.rows[i] = server.rows[i]
       /\ \A i \in c.shown.new : i \in DOMAIN server'.rows
=============================================================================
