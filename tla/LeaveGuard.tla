----------------------------- MODULE LeaveGuard -----------------------------
(* What keeps unsaved edits from being left by accident: useUnsavedChanges    *)
(* (apps/web/lib/use-unsaved-changes.ts), under the deck builder and the      *)
(* trade composer.  The App Router cannot cancel a navigation, so the hook    *)
(* keeps a sentinel entry in the browser's history while the page is dirty;   *)
(* history.back() and history.go() only take effect later, and so does        *)
(* router.push, while the member goes on editing, saving and clicking.        *)
EXTENDS Integers, Sequences

CONSTANTS
    Before,      \* entries of other pages already in the history, at most
    MaxActs,     \* bound: things the member does; each adds an entry at most
    Nothing

VARIABLES
    entries,     \* the browser's history
    at,          \* the entry the tab is on
    dirty,       \* the page has unsaved edits
    leaving,     \* leaving.current
    dialog,      \* how the member tried to leave, while asked (onAttempt's pendingLeave)
    traversals,  \* history.back() and history.go() that have not taken effect
    pushing,     \* the page router.push is on its way to
    timer,       \* "off", "armed", or "loose" when its effect is gone and cannot clear it
    acts,
    marks        \* what happened that the hook makes no promise about

guardVars == <<entries, at, dirty, leaving, dialog, traversals, pushing, timer,
               acts, marks>>

Pages == {"page", "other"}

\* An entry's state is null after a fragment link, else the router's, with or without the mark.
Entry == [page : Pages, state : {"null", "router", "guard"}]

OnPage == entries[at].page = "page"
OnGuardEntry == entries[at].state = "guard"
Guarded == OnPage /\ dirty

Plain(page) == [page |-> page, state |-> "router"]
Sentinel(page) == [page |-> page, state |-> "guard"]

Init ==
    /\ at \in 1 .. Before + 1
    /\ entries = [i \in 1 .. at |-> Plain(IF i < at THEN "other" ELSE "page")]
    /\ dirty = FALSE /\ leaving = FALSE /\ dialog = Nothing
    /\ traversals = <<>> /\ pushing = Nothing /\ timer = "off"
    /\ acts = 0 /\ marks = {}

\* "cluttered": an entry of the page was left behind that the hook does not promise to remove;
\* "revoked": the member went back before the router had followed a link; "stranded": the fallback
\* took the place of the page's own entry, under a sentinel that Forward may return to.
Marked(mark, when) == IF when THEN marks \union {mark} ELSE marks

\* A new entry after the i-th, and none behind it.
PushAfter(i, entry) == entries' = Append(SubSeq(entries, 1, i), entry) /\ at' = i + 1

Act == acts < MaxActs /\ acts' = acts + 1

-----------------------------------------------------------------------------
(* The page's edits, and what the effect does when they begin and end.        *)

\* The first edit installs the guard, unless the tab is on a sentinel already.
Edit ==
    /\ Act /\ OnPage /\ ~dirty /\ dialog = Nothing
    /\ dirty' = TRUE /\ leaving' = FALSE
    /\ IF OnGuardEntry THEN UNCHANGED <<entries, at>> ELSE PushAfter(at, Sentinel("page"))
    /\ UNCHANGED <<dialog, traversals, pushing, timer, marks>>

NeverGoesBack == FALSE

CleanupGoesBack == ~leaving /\ OnGuardEntry

\* Saved, by the button or Ctrl+S over the dialog, or edited back: the cleanup asks for one Back,
\* from the sentinel only and not under a navigation meant to leave.
Clean ==
    /\ Act /\ Guarded
    /\ dirty' = FALSE
    /\ timer' = IF timer = "armed" THEN "off" ELSE timer
    /\ traversals' = IF CleanupGoesBack THEN Append(traversals, -1) ELSE traversals
    /\ UNCHANGED <<entries, at, leaving, dialog, pushing, marks>>

\* The page is gone from the screen with all its state; its cleanup runs after the router has
\* put the new entry in place.
Unmount(newLanding) ==
    /\ dirty' = FALSE /\ leaving' = FALSE /\ dialog' = Nothing
    /\ timer' = IF Guarded /\ timer = "armed" THEN "off" ELSE timer
    /\ traversals' = IF Guarded /\ ~leaving /\ newLanding = "guard"
                     THEN Append(Tail(traversals), -1) ELSE Tail(traversals)

-----------------------------------------------------------------------------
(* What the member does.                                                      *)

Back ==
    /\ Act /\ at > 1
    /\ traversals' = Append(traversals, -1)
    /\ UNCHANGED <<entries, at, dirty, leaving, dialog, pushing, timer, marks>>

Forward ==
    /\ Act /\ at < Len(entries)
    /\ traversals' = Append(traversals, 1)
    /\ marks' = Marked("cluttered", TRUE)
    /\ UNCHANGED <<entries, at, dirty, leaving, dialog, pushing, timer>>

\* A link to another page: asked about on a guarded page, else followed.
Link(page) ==
    /\ Act /\ entries[at].page # page /\ dialog = Nothing
    /\ IF Guarded /\ ~leaving
       THEN dialog' = "link" /\ UNCHANGED pushing
       ELSE pushing' = page /\ UNCHANGED dialog
    /\ UNCHANGED <<entries, at, dirty, leaving, traversals, timer, marks>>

\* A skip link adds an entry with no state; the handler ignores its popstate.
FragmentLink ==
    /\ Act /\ OnPage /\ dialog = Nothing
    /\ PushAfter(at, [page |-> "page", state |-> "null"])
    /\ marks' = Marked("cluttered", TRUE)
    /\ UNCHANGED <<dirty, leaving, dialog, traversals, pushing, timer>>

\* A reload, which the browser asks about while the page is guarded and not leaving: the page
\* starts afresh on the entry it was on.
Reload ==
    /\ Act /\ OnPage
    /\ dirty' = FALSE /\ leaving' = FALSE /\ dialog' = Nothing
    /\ traversals' = <<>> /\ pushing' = Nothing /\ timer' = "off"
    /\ marks' = Marked("cluttered", OnGuardEntry)
    /\ UNCHANGED <<entries, at>>

Stay ==
    /\ dialog # Nothing
    /\ dialog' = Nothing
    /\ UNCHANGED <<entries, at, dirty, leaving, traversals, pushing, timer, acts, marks>>

\* "Discard changes", or "Save and leave", which saves first and leaves the draft dirty: the
\* leave() of the last attempt.  After a Ctrl+S it belongs to an effect that is cleaned up.
LeaveByLink ==
    /\ dialog = "link"
    /\ dialog' = Nothing /\ leaving' = TRUE /\ pushing' = "other"
    /\ UNCHANGED <<entries, at, dirty, traversals, timer, acts, marks>>

NoTimer == timer

LeaveTimer == IF dirty THEN "armed" ELSE "loose"

LeaveByBack ==
    /\ dialog = "back"
    /\ dialog' = Nothing /\ leaving' = TRUE
    /\ traversals' = Append(traversals, -2)
    /\ timer' = LeaveTimer
    /\ UNCHANGED <<entries, at, dirty, pushing, acts, marks>>

\* A sent offer leaves on purpose.
LeaveTo ==
    /\ Act /\ Guarded /\ dialog = Nothing
    /\ leaving' = TRUE /\ pushing' = "other"
    /\ UNCHANGED <<entries, at, dirty, dialog, traversals, timer, marks>>

-----------------------------------------------------------------------------
(* What takes effect later.                                                   *)

\* A traversal past either end of the history does nothing.
TraverseNowhere ==
    /\ traversals # <<>> /\ at + Head(traversals) \notin DOMAIN entries
    /\ traversals' = Tail(traversals)
    /\ UNCHANGED <<entries, at, dirty, leaving, dialog, pushing, timer, acts, marks>>

AskWithoutSentinel(to) == at' = to /\ UNCHANGED entries

PutSentinelBack(to) == PushAfter(to, Sentinel(entries[to].page))

\* popstate: the router shows the entry's page, and the guard puts the sentinel back and asks,
\* unless the entry has no state or is a sentinel.  A link the router is still following is given
\* up for it, or is not.
Traverse ==
    /\ traversals # <<>> /\ at + Head(traversals) \in DOMAIN entries
    /\ LET to == at + Head(traversals)
           asks == Guarded /\ ~leaving /\ entries[to].state = "router"
       IN  /\ IF asks THEN PutSentinelBack(to) ELSE at' = to /\ UNCHANGED entries
           /\ IF OnPage /\ entries[to].page # "page"
              THEN Unmount(IF asks THEN "guard" ELSE entries[to].state)
              ELSE /\ traversals' = Tail(traversals)
                   /\ dialog' = IF asks THEN "back" ELSE dialog
                   /\ UNCHANGED <<dirty, leaving, timer>>
           /\ \/ UNCHANGED <<pushing, marks>>
              \/ /\ pushing # Nothing /\ entries[to].state # "null"
                 /\ pushing' = Nothing /\ marks' = Marked("revoked", TRUE)
    /\ UNCHANGED acts

\* The router has the page and puts its entry in the history, over whatever traversal is under way.
PushLands ==
    /\ pushing # Nothing
    /\ PushAfter(at, Plain(pushing)) /\ pushing' = Nothing
    /\ marks' = Marked("cluttered", OnGuardEntry \/ pushing = entries[at].page)
    /\ dirty' = FALSE /\ leaving' = FALSE /\ dialog' = Nothing
    /\ timer' = IF Guarded /\ timer = "armed" THEN "off" ELSE timer
    /\ UNCHANGED <<traversals, acts>>

\* Half a second after leave() went back: with the page still there, its entry becomes the fallback.
\* Traversals take effect sooner.
FallbackTimer ==
    /\ timer # "off" /\ traversals = <<>>
    /\ timer' = "off"
    /\ IF OnPage
       THEN /\ entries' = [entries EXCEPT ![at] = Plain("other")]
            /\ dirty' = FALSE /\ leaving' = FALSE /\ dialog' = Nothing
            /\ marks' = Marked("stranded", ~OnGuardEntry)
       ELSE UNCHANGED <<entries, dirty, leaving, dialog, marks>>
    /\ UNCHANGED <<at, traversals, pushing, acts>>

Browser == TraverseNowhere \/ Traverse \/ PushLands \/ FallbackTimer

Next ==
    \/ Edit \/ Clean \/ Back \/ Forward \/ FragmentLink \/ Reload
    \/ Stay \/ LeaveByLink \/ LeaveByBack \/ LeaveTo
    \/ \E page \in Pages : Link(page)
    \/ Browser

Spec == Init /\ [][Next]_guardVars /\ WF_guardVars(Browser)

-----------------------------------------------------------------------------

TypeOK ==
    /\ entries \in Seq(Entry) /\ Len(entries) \in 1 .. Before + 1 + MaxActs /\ at \in DOMAIN entries
    /\ dirty \in BOOLEAN /\ leaving \in BOOLEAN
    /\ marks \subseteq {"cluttered", "revoked", "stranded"}
    /\ dialog \in {Nothing, "link", "back"}
    /\ traversals \in Seq({-2, -1, 1}) /\ pushing \in Pages \union {Nothing}
    /\ timer \in {"off", "armed", "loose"} /\ acts \in 0 .. MaxActs

\* Unsaved edits are left only by a member who was asked, or who sent the offer: not by Back, not
\* by a link, however they cross.  Forward is not caught (use-unsaved-changes.ts:22-30), nor is
\* a link followed before the first edit, nor an edit between the consent and the leaving,
\* nor Back from a sentinel whose page's own entry the fallback replaced.
EditsAreLeftOnlyWhenAsked ==
    [][Guarded /\ ~OnPage' =>
          \/ leaving \/ pushing # Nothing \/ timer = "loose"
          \/ Head(traversals) \in {1, -2} \/ "stranded" \in marks]_guardVars

\* "The sentinel is removed when the page stops being dirty, so one Back leaves after a save":
\* unless entries were added by a fragment link, or a sentinel was returned to.
OneBackLeavesACleanPage ==
    (OnPage /\ ~dirty /\ ~leaving /\ traversals = <<>> /\ pushing = Nothing
        /\ timer = "off" /\ "cluttered" \notin marks)
        => at = 1 \/ entries[at - 1].page # "page"

\* Who chose to leave gets away, even where Back has nowhere to go; or saves, or goes back, and stays.
HasLeft == leaving => ~dirty \/ "revoked" \in marks
=============================================================================
