--------------------------- MODULE TemplateEditor ---------------------------
(* The administrators' editor of pack templates in the web client             *)
(* (apps/web/components/admin/packs/): a list that is fetched again on focus   *)
(* and after every save, a selection that follows it, and a form that starts  *)
(* over whenever its key changes.  A save is pending until the list has been  *)
(* fetched again; the form stays open to edits, and others edit too.          *)
EXTENDS Naturals, Sequences, FiniteSets, SequencesExt

CONSTANTS
    Names,       \* of the plain fields: the name, the price and the image
    Sets,        \* sets of cards, each with one card that may be the cover
    Prints,      \* the rarities each set has
    Rarities,
    MaxSlots, MaxRows, MaxPack,   \* of a pack; MAX_CARDS_PER_PACK
    MaxActs,     \* bound: things the administrator does
    MaxOthers,   \* bound: times others create or change a template
    None, UnderWay, Bad

VARIABLES
    server,      \* the templates
    list,        \* GET /admin/pack-templates as cached
    fetch,       \* None, UnderWay, or the templates the server read
    failed,      \* its last fetch failed: the error stands in place of list and form
    chosen,      \* what was clicked: a template, New, or None for nothing yet
    editor,      \* the form on screen
    requests,    \* the mutations under way
    acts, others

editorVars == <<server, list, fetch, failed, chosen, editor, requests, acts, others>>

Ids == 1 .. 1 + MaxActs + MaxOthers
Fields == {"name", "sets", "slots", "cover", "active"}

Row == [rarity : Rarities \union {""}, weight : {0, 1}]
Slot == [count : {1, Bad}, rows : BoundedSeq(Row, MaxRows) \ {<<>>}]

\* TemplateDraft: what the inputs hold.
IsDraft(d) ==
    /\ d.name \in Names \union {Bad} /\ d.sets \subseteq Sets /\ d.cover \in Sets \union {None}
    /\ d.active \in BOOLEAN
    /\ Len(d.slots) \in 1 .. MaxSlots /\ \A i \in DOMAIN d.slots : d.slots[i] \in Slot

\* A template's slots: a count and a weight for each of its rarities, which a record names once.
OneCommon == [count |-> 1, rows |-> <<[rarity |-> "Common", weight |-> 1]>>]

NewDraft == [name |-> Bad, sets |-> {}, slots |-> <<OneCommon>>, cover |-> None, active |-> FALSE]

Weights(rows) ==
    [r \in {rows[j].rarity : j \in DOMAIN rows} |->
        rows[Max({j \in DOMAIN rows : rows[j].rarity = r})].weight]

BodyOf(d) ==
    [d EXCEPT !.slots = [i \in DOMAIN d.slots |->
        [count |-> d.slots[i].count, weights |-> Weights(d.slots[i].rows)]]]

DraftOf(t) ==
    [t EXCEPT !.slots = [i \in DOMAIN t.slots |->
        [count |-> t.slots[i].count,
         rows |-> SetToSortSeq({[rarity |-> r, weight |-> t.slots[i].weights[r]] :
                                    r \in DOMAIN t.slots[i].weights},
                               LAMBDA a, b : a.rarity # b.rarity /\ a.rarity = "Common")]]]

-----------------------------------------------------------------------------
(* What may be saved, and what a save carries.                                *)

NamedTwice(rows) == \E j, k \in DOMAIN rows : j < k /\ rows[j].rarity = rows[k].rarity

\* CreatePackTemplateSchema, which the API validates with too.
SchemaProblems(b) ==
    (IF b.name = Bad THEN {"name"} ELSE {})
    \union (IF b.sets = {} THEN {"sets"} ELSE {})
    \union (IF \E i \in DOMAIN b.slots :
                \/ b.slots[i].count = Bad
                \/ "" \in DOMAIN b.slots[i].weights
                \/ \A r \in DOMAIN b.slots[i].weights : b.slots[i].weights[r] = 0
            THEN {"slot"} ELSE {})
    \union (IF Len(b.slots) > MaxPack THEN {"slots"} ELSE {})

ProblemsOfTheRecord(d) == SchemaProblems(BodyOf(d))

\* And a rarity named twice, which the record could not say.
ProblemsOf(d) ==
    SchemaProblems(BodyOf(d))
    \union (IF \E i \in DOMAIN d.slots : NamedTwice(d.slots[i].rows) THEN {"row"} ELSE {})

\* What the odds are shown of: the slots whose numbers are usable.
PreviewSlots(d) ==
    SelectSeq(BodyOf(d).slots,
              LAMBDA slot : /\ slot.count # Bad /\ "" \notin DOMAIN slot.weights
                            /\ \E r \in DOMAIN slot.weights : slot.weights[r] > 0)

\* Only what changed.
ChangesOf(t, body) == {f \in Fields \ {"active"} : body[f] # t[f]}

New == 0
NewKey == [id |-> New]

Selection(ts, c) ==
    IF c # None THEN c
    ELSE IF ts = {} THEN New
    ELSE (CHOOSE t \in ts : \A u \in ts : t.name < u.name \/ (t.name = u.name /\ t.id <= u.id)).id

Terms(t) == [f \in Fields |-> t[f]]

KeyWithoutName(t) == [t EXCEPT !.name = None, !.active = TRUE]
KeyWithActive(t) == t

\* The form's React key: a change of anything but `active` starts it over.
KeyOf(t) == [t EXCEPT !.active = TRUE]

Key(ts, c) ==
    LET s == Selection(ts, c)
    IN  IF s = New THEN NewKey
        ELSE IF \E t \in ts : t.id = s THEN KeyOf(CHOOSE t \in ts : t.id = s)
        ELSE None

Template == CHOOSE t \in list : t.id = Selection(list, chosen)
OnNew == editor.key = NewKey
Open == editor.key # None

Body == BodyOf(editor.draft)
Dirty == ~OnNew => ChangesOf(Template, Body) # {}

Started(ts, c, key) ==
    [key |-> key, born |-> editor.born + 1, touched |-> {}, picking |-> FALSE,
     draft |-> IF key \in {NewKey, None} THEN NewDraft
               ELSE DraftOf(Terms(CHOOSE t \in ts : t.id = key.id))]

\* The page is drawn again: a form whose key is another starts over, and none is drawn on an error.
Render(ts, c, error) ==
    /\ list' = ts /\ chosen' = c /\ failed' = error
    /\ LET key == IF error THEN None ELSE Key(ts, c)
       IN  editor' = IF key = editor.key THEN editor ELSE Started(ts, c, key)

FirstTemplate ==
    [id |-> 1, name |-> 2, sets |-> Sets, cover |-> CHOOSE s \in Sets : TRUE, active |-> FALSE,
     slots |-> <<[count |-> 1, weights |-> [r \in Rarities |-> 1]]>>]

Init ==
    /\ server \in {{}, {FirstTemplate}} /\ list = server /\ fetch = None /\ failed = FALSE
    /\ chosen \in {None} \union {t.id : t \in server}
    /\ editor = [key |-> Key(list, chosen), born |-> 0, touched |-> {}, picking |-> FALSE,
                 draft |-> IF server = {} THEN NewDraft ELSE DraftOf(Terms(FirstTemplate))]
    /\ requests = {} /\ acts = 0 /\ others = 0

Act == acts < MaxActs /\ acts' = acts + 1

-----------------------------------------------------------------------------
(* The administrator.                                                         *)

Choose(c) ==
    /\ Act /\ ~editor.picking /\ c # chosen /\ (failed => c = New)
    /\ Render(list, c, failed)
    /\ UNCHANGED <<server, fetch, requests, others>>

Edit(d, fields) ==
    /\ Act /\ Open
    /\ editor' = [editor EXCEPT !.draft = d, !.touched = @ \union fields, !.picking = FALSE]
    /\ UNCHANGED <<server, list, fetch, failed, chosen, requests, others>>

Typing == Open /\ ~editor.picking

EditName(n) == Typing /\ Edit([editor.draft EXCEPT !.name = n], {"name"})

AfterSetsKeepingCover(sets) == [editor.draft EXCEPT !.sets = sets]

\* Other sets: the chosen cover is cleared.
AfterSets(sets) == [editor.draft EXCEPT !.sets = sets, !.cover = None]

EditSets(s) ==
    /\ Typing
    /\ LET sets == IF s \in editor.draft.sets THEN editor.draft.sets \ {s}
                   ELSE editor.draft.sets \union {s}
       IN  Edit(AfterSets(sets), {"sets", "cover"})

\* The picker shows the cards of the draft's sets.
OpenPicker ==
    /\ Act /\ Typing /\ editor.draft.sets # {}
    /\ editor' = [editor EXCEPT !.picking = TRUE]
    /\ UNCHANGED <<server, list, fetch, failed, chosen, requests, others>>

PickCover(s) ==
    editor.picking /\ s \in editor.draft.sets /\ Edit([editor.draft EXCEPT !.cover = s], {"cover"})

UseDefault ==
    Typing /\ editor.draft.cover # None /\ Edit([editor.draft EXCEPT !.cover = None], {"cover"})

EditSlots(slots) == Typing /\ Edit([editor.draft EXCEPT !.slots = slots], {"slots"})

EditSomeSlot ==
    LET slots == editor.draft.slots
    IN  \/ Len(slots) < MaxSlots /\ EditSlots(Append(slots,
                [count |-> 1, rows |-> <<[rarity |-> "", weight |-> 1]>>]))
        \/ \E i \in DOMAIN slots :
              LET rows == slots[i].rows
                  With(new) == EditSlots([slots EXCEPT ![i].rows = new])
              IN  \/ Len(slots) > 1 /\ EditSlots(RemoveAt(slots, i))
                  \/ \E n \in {1, Bad} \ {slots[i].count} : EditSlots([slots EXCEPT ![i].count = n])
                  \/ Len(rows) < MaxRows /\ With(Append(rows, [rarity |-> "", weight |-> 1]))
                  \/ \E j \in DOMAIN rows :
                        \/ Len(rows) > 1 /\ With(RemoveAt(rows, j))
                        \/ \E r \in Rarities \union {""} : rows[j].rarity # r
                              /\ With([rows EXCEPT ![j].rarity = r])
                        \/ With([rows EXCEPT ![j].weight = 1 - @])

EditActive ==
    Typing /\ OnNew /\ Edit([editor.draft EXCEPT !.active = ~@], {"active"})

Mine(kind) == {r \in requests : r.born = editor.born /\ r.kind = kind}

Request(kind, id, body) ==
    requests' = requests \union
        {[kind |-> kind, born |-> editor.born, number |-> acts, id |-> id, body |-> body,
          draft |-> editor.draft, touched |-> editor.touched, phase |-> "asked"]}

\* Save; the button and Enter do nothing while one is pending.
Submit ==
    /\ Act /\ Typing /\ Mine("save") = {} /\ ProblemsOf(editor.draft) = {} /\ Dirty
    /\ IF OnNew THEN Request("save", New, Body)
       ELSE Request("save", Template.id, [f \in ChangesOf(Template, Body) |-> Body[f]])
    /\ UNCHANGED <<server, list, fetch, failed, chosen, editor, others>>

\* On sale, off sale: saved at once.
ToggleActive ==
    /\ Act /\ Typing /\ ~OnNew /\ Mine("activate") = {}
    /\ Request("activate", Template.id, [f \in {"active"} |-> ~Template.active])
    /\ UNCHANGED <<server, list, fetch, failed, chosen, editor, others>>

Focus ==
    /\ Act /\ fetch = None
    /\ fetch' = UnderWay
    /\ UNCHANGED <<server, list, failed, chosen, editor, requests, others>>

-----------------------------------------------------------------------------
(* The API, each handler one step (PackTemplates has its statements).         *)

Pool(sets) == UNION {Prints[s] : s \in sets}

InPool(t) == \A i \in DOMAIN t.slots : DOMAIN t.slots[i].weights \subseteq Pool(t.sets)
CoverFits(t) == t.cover = None \/ t.cover \in t.sets

NextId == Cardinality(server) + 1

\* create and update: a change of what a pack can contain is checked against the pool, one of the sets
\* or the cover against each other.
Merged(r) ==
    IF r.id = New THEN [f \in Fields \union {"id"} |-> IF f = "id" THEN NextId ELSE r.body[f]]
    ELSE LET t == CHOOSE u \in server : u.id = r.id
         IN  [f \in Fields \union {"id"} |-> IF f \in DOMAIN r.body THEN r.body[f] ELSE t[f]]

Refusal(r) ==
    LET t == Merged(r)
    IN  IF DOMAIN r.body \intersect {"sets", "slots"} # {} /\ ~InPool(t) THEN "pool"
        ELSE IF DOMAIN r.body \intersect {"sets", "cover"} # {} /\ ~CoverFits(t) THEN "cover"
        ELSE "none"

ServerSaves(r) ==
    /\ r \in requests /\ r.phase = "asked"
    /\ LET saved == Refusal(r) = "none"
           t == Merged(r)
       IN  /\ server' = IF saved THEN {u \in server : u.id # t.id} \union {t} ELSE server
           /\ requests' = (requests \ {r}) \union
                  {[r EXCEPT !.phase = IF saved THEN "saved" ELSE Refusal(r), !.id = t.id]}
    /\ UNCHANGED <<list, fetch, failed, chosen, editor, acts, others>>

\* Another administrator creates a template or changes a field of one.
OthersChange(t) ==
    {[t EXCEPT !.name = n] : n \in Names}
    \union {[t EXCEPT !.sets = s, !.cover = None] : s \in (SUBSET Sets) \ {{}}}
    \union {[t EXCEPT !.cover = c] : c \in t.sets}
    \union {[t EXCEPT !.active = ~@]}

OthersSave ==
    /\ others < MaxOthers /\ others' = others + 1
    /\ \/ server' = server \union {[FirstTemplate EXCEPT !.id = NextId, !.name = 1]}
       \/ \E t \in server : \E u \in OthersChange(t) \ {t} :
              InPool(u) /\ server' = (server \ {t}) \union {u}
    /\ UNCHANGED <<list, fetch, failed, chosen, editor, requests, acts>>

-----------------------------------------------------------------------------
(* Answers.                                                                   *)

Refetching == {r \in requests : r.phase = "refetching"}

\* onSaved, for the forms still on screen: the saved template is selected.
AfterCallbacks(done) ==
    LET mine == {r \in done : r.born = editor.born}
    IN  IF mine = {} THEN chosen ELSE (CHOOSE r \in mine : \A s \in mine : s.number <= r.number).id

\* A success invalidates the list and stays pending until it has come; the fetch it cancels
\* ends the mutation that was waiting for that one.
Saved(r) ==
    /\ r \in requests /\ r.phase = "saved"
    /\ fetch' = UnderWay
    /\ requests' = (requests \ ({r} \union Refetching)) \union {[r EXCEPT !.phase = "refetching"]}
    /\ Render(list, AfterCallbacks(Refetching), failed)
    /\ UNCHANGED <<server, acts, others>>

\* The refusal is shown over the button; the draft stays.
Refused(r) ==
    /\ r \in requests /\ r.phase \in {"pool", "cover"}
    /\ requests' = requests \ {r}
    /\ UNCHANGED <<server, list, fetch, failed, chosen, editor, acts, others>>

AnswerLost(r) ==
    /\ Act /\ r \in requests /\ r.phase # "refetching"
    /\ requests' = requests \ {r}
    /\ UNCHANGED <<server, list, fetch, failed, chosen, editor, others>>

ServerReads ==
    /\ fetch = UnderWay
    /\ fetch' = [ts |-> server]
    /\ UNCHANGED <<server, list, failed, chosen, editor, requests, acts, others>>

\* The list comes, the callbacks of the mutations that waited for it run, and the page is drawn.
ListArrives ==
    /\ fetch \notin {None, UnderWay}
    /\ Render(fetch.ts, AfterCallbacks(Refetching), FALSE)
    /\ fetch' = None /\ requests' = requests \ Refetching
    /\ UNCHANGED <<server, acts, others>>

\* So does a failure, with the list and the form gone from the screen until a fetch succeeds.
ListFails ==
    /\ Act /\ fetch # None
    /\ fetch' = None /\ requests' = requests \ Refetching
    /\ Render(list, AfterCallbacks(Refetching), TRUE)
    /\ UNCHANGED <<server, others>>

Next ==
    \/ \E c \in {New} \union {t.id : t \in list} : Choose(c)
    \/ \E n \in Names \union {Bad} : n # editor.draft.name /\ EditName(n)
    \/ \E s \in Sets : EditSets(s) \/ PickCover(s)
    \/ OpenPicker \/ UseDefault \/ EditSomeSlot \/ EditActive
    \/ Submit \/ ToggleActive \/ Focus \/ OthersSave
    \/ \E r \in requests : ServerSaves(r) \/ Saved(r) \/ Refused(r) \/ AnswerLost(r)
    \/ ServerReads \/ ListArrives \/ ListFails

Spec == Init /\ [][Next]_editorVars

-----------------------------------------------------------------------------

TypeOK ==
    /\ \A t \in server : t.id \in Ids /\ SchemaProblems(Terms(t)) = {}
    /\ \A t \in list : t.id \in Ids
    /\ chosen \in {None, New} \union Ids /\ failed \in BOOLEAN
    /\ IsDraft(editor.draft) /\ editor.touched \subseteq Fields /\ editor.picking \in BOOLEAN
    /\ \A r \in requests : r.phase \in {"asked", "saved", "refetching", "pool", "cover"}

\* "an edit sends only the fields that changed" (docs/Pages.md, Pack templates): never one that
\* another administrator changed while the form was open, which would put the old value back.
PatchesCarryOwnEdits ==
    \A r \in requests : r.kind = "save" =>
        DOMAIN r.body = Fields \/ DOMAIN r.body \subseteq r.touched

\* What is saved is what the rows show: no row stands for nothing because a later one names its rarity.
SavedRowsAreTheRowsShown ==
    \A r \in requests : r.kind = "save" /\ "slots" \in DOMAIN r.body =>
        \A i \in DOMAIN r.draft.slots :
            LET rows == r.draft.slots[i].rows
                weights == r.body["slots"][i].weights
            IN  /\ Len(rows) = Cardinality(DOMAIN weights)
                /\ \A j \in DOMAIN rows : weights[rows[j].rarity] = rows[j].weight

\* The pull rates beside the form are of every slot, once it may be saved.
PreviewIsOfWhatIsSaved ==
    ProblemsOf(editor.draft) = {} => PreviewSlots(editor.draft) = Body.slots

\* The form never composes sets and a cover that the API refuses for each other; it may be refused so
\* only when another administrator acted after the form's template was read.
CoversFitTheirSets ==
    \A r \in requests : r.phase = "cover" => others > 0

\* Edits are given up for another template that was clicked or has just been created, when the list
\* brings the selected template with other terms than the form began with or cannot be fetched, or,
\* before anything was clicked, another first template: not for the switch On sale, which is saved
\* at once beside them.
DraftsAreGivenUpForAReason ==
    [][(editor'.born # editor.born /\ editor.touched # {}) =>
          \/ failed'
          \/ Selection(list', chosen') # Selection(list, chosen)
          \/ \E t \in list, u \in list' :
                t.id = u.id /\ \E f \in Fields \ {"active"} : t[f] # u[f]]_editorVars
=============================================================================
