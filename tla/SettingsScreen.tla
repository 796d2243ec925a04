--------------------------- MODULE SettingsScreen ---------------------------
(* The forms of the settings page over lists that both partners change:      *)
(* category groups that are renamed, re-kinded and removed with their        *)
(* categories moved elsewhere, account labels that are marked joint and back,*)
(* settlement merchants, the co-owned house and the adjustment account       *)
(* (CategoryMappingEditor.tsx, AccountsSettings.tsx,                         *)
(* SettlementMerchantsEditor.tsx, CoOwnedAssetEditor.tsx,                    *)
(* PersonAccountSettings.tsx, with the use cases they call).                 *)
EXTENDS Integers, FiniteSets

CONSTANTS Groups, Categories, Values, None,
          MaxRequests, MaxElsewhere   \* bounds: my requests, the partner's changes

VARIABLES server, view, calls
vars == <<server, view, calls>>

Kinds == {"expense", "transfer"}
Sections == {"groups", "accounts", "merchants", "house", "profile"}
Homes(groupOf, g) == {c \in Categories : groupOf[c] = g}

\* ----- the page --------------------------------------------------------------
Shown == view.cache
Show(new) == view' = new /\ UNCHANGED <<server, calls>>
NoCard == [name |-> None, confirm |-> FALSE, moveTo |-> None]
\* A profile row follows the stored account: its effect drops what was typed.
FollowedDraft(cache, v) ==
  IF cache.profile = v.cache.profile THEN v.draft ELSE cache.profile
\* A card is keyed by its group and forgets its state with it.
Followed(cache, v) ==
  [v EXCEPT !.cache = cache, !.draft = FollowedDraft(cache, v),
            !.cards = [g \in Groups |-> IF g \in cache.groups THEN v.cards[g] ELSE NoCard]]
Stored == [groups |-> server.groups, kind |-> server.kind, groupOf |-> server.groupOf,
           joint |-> server.joint, profile |-> server.profile, merchants |-> server.merchants]
Refetch == Shown # Stored /\ Show(Followed(Stored, view))

\* A request has nothing in the fields its kind does not use.
Request(call) ==
  LET unused == [try |-> view.try, moveTo |-> None, checked |-> FALSE, group |-> None]
  IN [f \in DOMAIN call \cup DOMAIN unused |-> IF f \in DOMAIN call THEN call[f] ELSE unused[f]]
Send(call, new) ==
  /\ view.try < MaxRequests
  /\ calls' = calls \cup {Request(call)}
  /\ view' = [new EXCEPT !.try = @ + 1] /\ UNCHANGED server
Pending(kind) == \E c \in calls : c.kind = kind

\* ----- category groups -------------------------------------------------------
StartEditing(g) ==
  view.cards[g].name = None /\ Show([view EXCEPT !.cards[g].name = <<g>>])
TypeName(g) ==
  view.cards[g].name = <<g>> /\ Show([view EXCEPT !.cards[g].name = <<g, "new">>])
Put(g, name, kind) == Send([kind |-> "put", group |-> g, name |-> name, to |-> kind], view)
\* Enter, Save and leaving the field all save, and so does reaching for Cancel.
SaveRename(g) ==
  \/ view.cards[g].name = <<g, "new">> /\ Put(g, <<g, "new">>, Shown.kind[g])
  \/ view.cards[g].name = <<g>> /\ Show([view EXCEPT !.cards[g].name = None])
CancelEditing(g) == view.cards[g].name # None /\ Show([view EXCEPT !.cards[g].name = None])
\* Every other change of a card sends the whole group as the card shows it.
PickKind(g, k) == k # Shown.kind[g] /\ Put(g, <<g>>, k)
PickIcon(g) == Put(g, <<g>>, Shown.kind[g])

AskDelete(g) == ~view.cards[g].confirm /\ Show([view EXCEPT !.cards[g].confirm = TRUE])
PickMove(g, h) ==
  /\ view.cards[g].confirm /\ h \in Shown.groups \ {g}
  /\ Homes(Shown.groupOf, g) # {} /\ view.cards[g].moveTo # h
  /\ Show([view EXCEPT !.cards[g].moveTo = h])
CancelDelete(g) ==
  view.cards[g].confirm /\ Show([view EXCEPT !.cards[g].confirm = FALSE, !.cards[g].moveTo = None])
ConfirmDelete(g) ==
  LET moveTo == view.cards[g].moveTo IN
  /\ view.cards[g].confirm /\ ~Pending("delete")
  /\ Homes(Shown.groupOf, g) = {} \/ moveTo # None
  /\ Send([kind |-> "delete", group |-> g, moveTo |-> moveTo], view)
AddGroup(g) ==
  g \notin Shown.groups /\ ~Pending("add") /\ Send([kind |-> "add", group |-> g, to |-> "expense"], view)

\* ----- account labels: one stands for all --------------------------------------
\* The dialog keeps what the label's row offered when it opened.
AskMark == view.dialog = None /\ Show([view EXCEPT !.dialog = [joint |-> Shown.joint]])
CloseMark == view.dialog # None /\ Show([view EXCEPT !.dialog = None])
ConfirmMark ==
  /\ view.dialog # None /\ ~Pending("unmark") /\ ~Pending("mark")
  /\ Send([kind |-> IF view.dialog.joint THEN "unmark" ELSE "mark"], view)

\* ----- merchants, the house and the profile -------------------------------------
AddMerchant ==
  ~Pending("merchant") /\ Send([kind |-> "merchant"], view)
RemoveMerchant ==
  /\ Shown.merchants > 0 /\ ~(view.deleting /\ Pending("unmerchant"))
  /\ Send([kind |-> "unmerchant"], [view EXCEPT !.deleting = TRUE])
\* Fields of the house stay open while it is saved; any edit takes the tick away.
EditHouse(x) == view.house # x /\ Show([view EXCEPT !.house = x, !.saved = FALSE])
SaveHouse ==
  /\ view.house # None /\ ~Pending("house")
  /\ Send([kind |-> "house", value |-> view.house], [view EXCEPT !.saved = FALSE])
TypeProfile(x) ==
  view.draft # x /\ Show([view EXCEPT !.draft = x])
SaveProfile ==
  /\ view.draft # Shown.profile /\ ~Pending("profile") /\ ~view.saved
  /\ Send([kind |-> "profile", value |-> view.draft], view)
TickExpires == view.section = "profile" /\ view.saved /\ Show([view EXCEPT !.saved = FALSE])

\* ----- the server: reads and checks, then writes ----------------------------------
Groupless(c) == c.kind \notin {"put", "delete"}
Check(c) ==
  /\ ~c.checked
  /\ Groupless(c) \/ c.group \in server.groups
  /\ c.moveTo = None \/ c.moveTo \in server.groups
  /\ c.kind = "unmark" => server.joint
  /\ c.kind = "unmerchant" => server.merchants > 0
  /\ calls' = (calls \ {c}) \cup {[c EXCEPT !.checked = TRUE]} /\ UNCHANGED <<server, view>>
\* Mutant: no foreign key.
Anywhere(c, groups) == TRUE
\* What the foreign key refuses when the group moved to went meanwhile.
Grounded(c, groups) == c.moveTo \in groups \cup {None}
Answer(c, ok) ==
  /\ calls' = calls \ {c}
  /\ view' = IF ~ok THEN view ELSE CASE
       c.kind = "put" -> [view EXCEPT !.cards[c.group].name = None]
       [] c.kind = "delete" -> [view EXCEPT !.cards[c.group].confirm = FALSE, !.cards[c.group].moveTo = None]
       [] c.kind \in {"mark", "unmark"} -> [view EXCEPT !.dialog = None]
       [] c.kind \in {"house", "profile"} -> [view EXCEPT !.saved = TRUE]
       [] c.kind = "unmerchant" -> [view EXCEPT !.deleting = FALSE]
       [] OTHER -> view
Write(c) ==
  /\ c.checked /\ Answer(c, TRUE)
  /\ Groupless(c) \/ c.group \in server.groups
  /\ server' = CASE
       c.kind = "put" -> [server EXCEPT !.kind[c.group] = c.to]
       [] c.kind = "add" -> [server EXCEPT !.groups = @ \cup {c.group}, !.kind[c.group] = c.to]
       [] c.kind = "delete" ->
            [server EXCEPT !.groups = @ \ {c.group},
                           !.groupOf = [x \in Categories |-> IF @[x] = c.group THEN c.moveTo ELSE @[x]]]
       [] c.kind \in {"mark", "unmark"} -> [server EXCEPT !.joint = c.kind = "mark"]
       [] c.kind = "merchant" -> [server EXCEPT !.merchants = @ + 1]
       [] c.kind = "unmerchant" -> [server EXCEPT !.merchants = IF @ > 0 THEN @ - 1 ELSE 0]
       [] c.kind = "profile" -> [server EXCEPT !.profile = c.value]
       [] OTHER -> server
  /\ c.kind = "delete" => Grounded(c, server.groups)
  /\ c.kind = "add" => c.group \notin server.groups
Refuse(c) == Answer(c, FALSE) /\ UNCHANGED server

\* ----- the partner -------------------------------------------------------------
Elsewhere(new) ==
  /\ server.elsewhere < MaxElsewhere /\ new # server
  /\ server' = [new EXCEPT !.elsewhere = @ + 1] /\ UNCHANGED <<view, calls>>
PartnerRemoves(g) ==
  Homes(server.groupOf, g) = {} /\ Elsewhere([server EXCEPT !.groups = @ \ {g}])
PartnerMaps(c, g) == g \in server.groups /\ Elsewhere([server EXCEPT !.groupOf[c] = g])
PartnerMarks(joint) == Elsewhere([server EXCEPT !.joint = joint])
PartnerSaves(x) == Elsewhere([server EXCEPT !.profile = x])

Init ==
  /\ server = [groups |-> Groups, kind |-> [g \in Groups |-> "expense"],
               groupOf |-> [c \in Categories |-> CHOOSE g \in Groups : TRUE],
               joint |-> FALSE, profile |-> 0, merchants |-> 1, elsewhere |-> 0]
  /\ calls = {}
  \* The sections share no state: a behaviour follows one of them.
  /\ \E s \in Sections :
       view = [section |-> s, cache |-> Stored, cards |-> [g \in Groups |-> NoCard], dialog |-> None,
               deleting |-> FALSE, house |-> None, saved |-> FALSE, draft |-> 0, try |-> 0]

Next ==
  \/ view.section = "groups" /\
       (\/ \E g \in Shown.groups :
             \/ StartEditing(g) \/ TypeName(g) \/ SaveRename(g) \/ CancelEditing(g) \/ PickIcon(g)
             \/ AskDelete(g) \/ CancelDelete(g) \/ ConfirmDelete(g)
             \/ \E k \in Kinds : PickKind(g, k)
             \/ \E h \in Groups : PickMove(g, h)
        \/ \E g \in Groups : \/ AddGroup(g) \/ PartnerRemoves(g)
                             \/ \E c \in Categories : PartnerMaps(c, g))
  \/ view.section = "accounts" /\
       (AskMark \/ CloseMark \/ ConfirmMark \/ \E j \in BOOLEAN : PartnerMarks(j))
  \/ view.section = "merchants" /\ (AddMerchant \/ RemoveMerchant)
  \/ view.section = "house" /\ (SaveHouse \/ \E x \in Values : EditHouse(x))
  \/ view.section = "profile" /\ (SaveProfile \/ TickExpires \/ \E x \in Values : TypeProfile(x) \/ PartnerSaves(x))
  \/ Refetch
  \/ \E c \in calls : Check(c) \/ Write(c) \/ Refuse(c)

Spec == Init /\ [][Next]_vars

(* Removing a group never strands a category: it moves to a group that is    *)
(* there or becomes unmapped, whoever removes which group, or moves which    *)
(* category, between the check and the write (delete_category_group.py, the  *)
(* foreign key of categories.group_id).                                      *)
EveryCategoryHasAHome ==
  \A c \in Categories : server.groupOf[c] \in server.groups \cup {None}
=============================================================================
