---------------------------- MODULE PackShowcase ----------------------------
(***************************************************************************)
(* The landing page's pack opening: an effect that loads a 3D scene when   *)
(* its section comes near, a clock of animation frames that feeds it, and  *)
(* a scene with its own frames, observers and GPU resources.  Chunks and   *)
(* textures arrive, fail or never come; the section scrolls, the window is *)
(* resized, the tab is hidden, the context is lost and the page is left at *)
(* any moment, also while the scene is being made.                         *)
(*                                                                         *)
(* One visit of the page: another is a component of its own, which shares  *)
(* nothing with it.  The device is capable (use-three-mode).  Time is told *)
(* in frames, and the opening's loop is four of them.                      *)
(***************************************************************************)
EXTENDS Integers

CONSTANT
    MaxActs      \* bound: what the visitor and the device do

VARIABLES
    here,      \* the page is not left
    where,     \* the section: 0 far off, 1 near enough to load, 2 near enough to draw
    hidden,    \* the tab is in the background
    narrow,    \* the window is
    showing,   \* the component's states
    effect,    \* the effect's variables
    scene,     \* what init() made
    marks,     \* ghost: what went past the code (see Marks)
    acts       \* acts so far

showVars == <<here, where, hidden, narrow, showing, effect, scene, marks, acts>>

\* The tab was hidden; the clock jumped; the window was resized while the scene was being made; a scene that was never
\* built was asked for a frame, or to be resized.
Marks == {"hidden", "jumped", "resized", "threw"}

Loading == {"chunk", "three", "textures"}

NoEffect == [at |-> "watching", gone |-> FALSE, visible |-> FALSE, frame |-> FALSE,
             elapsed |-> 0, age |-> 0, handle |-> FALSE]
NoScene == [made |-> FALSE, built |-> FALSE, held |-> FALSE, disposed |-> FALSE, raf |-> FALSE,
            visible |-> TRUE, progress |-> 0, ready |-> FALSE, compact |-> FALSE]
Fresh == [ready |-> FALSE, failed |-> FALSE, stage |-> 0]

TypeOK ==
    /\ where \in 0 .. 2
    /\ effect.at \in Loading \cup {"watching", "over"}
    /\ effect.elapsed \in 0 .. 3 /\ effect.age \in 0 .. 2
    /\ effect.handle => effect.at = "over"
    /\ scene.progress \in 0 .. 2 /\ showing.stage \in 0 .. 2
    /\ scene.made => scene.held
    /\ marks \subseteq Marks

Init ==
    /\ here = TRUE /\ acts = 0
    /\ where \in {0, 2} /\ hidden = FALSE /\ narrow = FALSE
    /\ showing = Fresh
    /\ effect = NoEffect
    /\ scene = NoScene
    /\ marks = {}

-----------------------------------------------------------------------------
(* The loop's clock: sealed, tearing, revealed, rewinding.                 *)

LOOP == 4
loopProgress(t) == CASE t = 0 -> 0 [] t = 1 -> 1 [] t = 2 -> 2 [] t = 3 -> 1
stageOf(p) == p

-----------------------------------------------------------------------------
(* The scene's operations, on its record.                                  *)

\* Mutant of MayDraw: progress asks a scene that is gone for a frame.
MayAlwaysDraw(s) == s.visible /\ ~hidden
MayDraw(s) == ~s.disposed /\ s.visible /\ ~hidden
Start(s) == [s EXCEPT !.raf = @ \/ MayDraw(s)]
Stop(s) == [s EXCEPT !.raf = FALSE]
SetProgress(s, p) == Start([s EXCEPT !.progress = p])
SetCompact(s, c) == IF s.built THEN Start([s EXCEPT !.compact = c]) ELSE [s EXCEPT !.compact = c]

\* The frames, the listeners, the textures, the context and the canvas go.
Dispose(s) == IF s.disposed THEN s
              ELSE [Stop(s) EXCEPT !.disposed = TRUE, !.made = FALSE, !.held = FALSE]

\* One animation frame: it draws, the first one says so, and the next is asked for.
Frame(s) == IF s.built THEN Start([s EXCEPT !.raf = FALSE, !.ready = TRUE])
                       ELSE [s EXCEPT !.raf = FALSE]

FallBack == showing' = [showing EXCEPT !.ready = FALSE, !.failed = TRUE]

-----------------------------------------------------------------------------
(* The effect.                                                             *)

\* Mutant of Observe: the clock goes on from its last frame.
ObserveGoingOn ==
    /\ ~effect.gone /\ ~hidden
    /\ effect.visible # (here /\ where > 0)
    /\ LET shows == ~effect.visible
       IN  effect' = [effect EXCEPT !.visible = shows, !.frame = @ \/ shows,
                                    !.at = IF shows /\ @ = "watching" THEN "chunk" ELSE @]
    /\ UNCHANGED <<here, where, hidden, narrow, showing, scene, marks, acts>>

\* The section's observer reports: the clock starts anew, and the scene is loaded once.
Observe ==
    /\ ~effect.gone /\ ~hidden
    /\ effect.visible # (here /\ where > 0)
    /\ LET shows == ~effect.visible
           starts == shows /\ ~effect.frame
       IN  effect' = [effect EXCEPT !.visible = shows,
                                    !.frame = @ \/ starts,
                                    !.age = IF starts THEN 0 ELSE @,
                                    !.at = IF shows /\ @ = "watching" THEN "chunk" ELSE @]
    /\ UNCHANGED <<here, where, hidden, narrow, showing, scene, marks, acts>>

\* Mutants of Answered: a scene made for nobody stays; one that is kept starts sealed.
AnsweredToNobody(s) ==
    /\ effect' = [effect EXCEPT !.at = "over", !.handle = ~effect.gone]
    /\ scene' = IF effect.gone THEN s ELSE SetProgress(s, loopProgress(effect.elapsed))
AnsweredSealed(s) ==
    /\ effect' = [effect EXCEPT !.at = "over", !.handle = ~effect.gone]
    /\ scene' = IF effect.gone THEN Dispose(s) ELSE s

\* After init() has answered, in the same turn: the scene is kept, or disposed if the effect is gone.
Answered(s) ==
    LET e == effect
    IN  /\ effect' = [effect EXCEPT !.at = "over", !.handle = ~e.gone]
        /\ scene' = IF e.gone THEN Dispose(s) ELSE SetProgress(s, loopProgress(e.elapsed))

ChunkComes ==
    /\ effect.at = "chunk"
    /\ IF effect.gone THEN effect' = [effect EXCEPT !.at = "over"] /\ UNCHANGED scene
       ELSE /\ effect' = [effect EXCEPT !.at = "three"]
            /\ scene' = [scene EXCEPT !.compact = narrow]
    /\ UNCHANGED <<here, where, hidden, narrow, showing, marks, acts>>

ChunkFails ==
    /\ effect.at = "chunk"
    /\ effect' = [effect EXCEPT !.at = "over"]
    /\ FallBack
    /\ UNCHANGED <<here, where, hidden, narrow, scene, marks, acts>>

\* init(): three.js comes or does not.
ThreeComes ==
    /\ effect.at = "three"
    /\ effect' = [effect EXCEPT !.at = "textures"]
    /\ UNCHANGED <<here, where, hidden, narrow, showing, scene, marks, acts>>

ThreeFails ==
    /\ effect.at = "three"
    /\ FallBack
    /\ Answered(scene)
    /\ UNCHANGED <<here, where, hidden, narrow, marks, acts>>

\* Every card's texture came, and the scene is built and asks for its first frame.
Built ==
    /\ effect.at = "textures"
    /\ Answered(Start([scene EXCEPT !.held = TRUE, !.made = TRUE, !.built = TRUE]))
    /\ UNCHANGED <<here, where, hidden, narrow, showing, marks, acts>>

\* A texture did not come and the others are disposed; or there is no 2D canvas, or no WebGL, and
\* they are held until the handle is disposed.
NotBuilt ==
    /\ effect.at = "textures"
    /\ FallBack
    /\ \E held \in BOOLEAN : Answered([scene EXCEPT !.held = held])
    /\ UNCHANGED <<here, where, hidden, narrow, marks, acts>>

\* React ends the effect some time after the page was left or the fallback rendered.
CleanUp ==
    /\ ~effect.gone
    /\ ~here \/ showing.failed
    /\ effect' = [effect EXCEPT !.gone = TRUE, !.frame = FALSE]
    /\ scene' = IF effect.handle THEN Dispose(scene) ELSE scene
    /\ UNCHANGED <<here, where, hidden, narrow, showing, marks, acts>>

-----------------------------------------------------------------------------
(* The browser.                                                            *)

\* What one frame's callbacks do: the clock's tick, which feeds the scene, and the scene's frame.
Ticked(e) ==
    IF e.frame THEN [e EXCEPT !.elapsed = (@ + e.age) % LOOP, !.age = 1, !.frame = e.visible]
    ELSE [e EXCEPT !.age = IF @ = 0 THEN 0 ELSE 2]
Drawn ==
    LET s == IF scene.raf THEN Frame(scene) ELSE scene
    IN  IF effect.frame /\ effect.handle
        THEN SetProgress(s, loopProgress(Ticked(effect).elapsed)) ELSE s
MarksOf ==
    marks \cup (IF effect.frame /\ effect.age = 2 THEN {"jumped"} ELSE {})
             \cup (IF scene.raf /\ ~scene.built THEN {"threw"} ELSE {})

AnimationFrame ==
    /\ ~hidden
    /\ effect.frame \/ scene.raf
    /\ effect' = Ticked(effect)
    /\ scene' = Drawn
    /\ marks' = MarksOf
    /\ showing' = 
          [showing EXCEPT
              !.ready = @ \/ (scene.raf /\ scene.built /\ ~scene.ready),
              !.stage = IF effect.frame
                        THEN stageOf(loopProgress(Ticked(effect).elapsed)) ELSE @]
    /\ UNCHANGED <<here, where, hidden, narrow, acts>>

\* The scene's own observer, which looks at a narrower margin.
SceneObserves ==
    /\ scene.built /\ ~scene.disposed /\ ~hidden
    /\ scene.visible # (here /\ where = 2)
    /\ LET seen == [scene EXCEPT !.visible = ~@]
       IN  scene' = IF seen.visible THEN Start(seen) ELSE Stop(seen)
    /\ UNCHANGED <<here, where, hidden, narrow, showing, effect, marks, acts>>

-----------------------------------------------------------------------------
(* The visitor and the device.                                             *)

Act == acts < MaxActs /\ acts' = acts + 1

Scroll(to) ==
    /\ Act /\ ~hidden /\ to # where
    /\ where' = to
    /\ UNCHANGED <<here, hidden, narrow, showing, effect, scene, marks>>

\* visibilitychange: a built scene stops, or starts if it is on screen.  However long the tab is
\* away, the frame that the clock asked for comes when it is back.
TurnTab ==
    /\ Act
    /\ hidden' = ~hidden
    /\ scene' = IF ~scene.built \/ scene.disposed THEN scene
                ELSE [scene EXCEPT !.raf = ~hidden' /\ (@ \/ scene.visible)]
    /\ effect' = [effect EXCEPT !.age = IF @ = 0 THEN 0 ELSE 2]
    /\ marks' = marks \cup {"hidden"}
    /\ UNCHANGED <<here, where, narrow, showing>>

\* Mutant of Resize: only the next scene is told.
ResizeUntold ==
    /\ Act
    /\ narrow' = ~narrow
    /\ UNCHANGED <<here, where, hidden, showing, effect, scene, marks>>

\* The window's listener reaches a scene that the effect already has.
Resize ==
    /\ Act
    /\ narrow' = ~narrow
    /\ LET reached == effect.handle /\ ~effect.gone
       IN  /\ scene' = IF reached THEN SetCompact(scene, narrow') ELSE scene
           /\ marks' = marks \cup (IF effect.at \in {"three", "textures"} THEN {"resized"} ELSE {})
                             \cup (IF reached /\ ~scene.built THEN {"threw"} ELSE {})
    /\ UNCHANGED <<here, where, hidden, showing, effect>>

\* Mutant of ContextIsLost: the scene goes and nothing takes its place.
ContextIsLostSilently ==
    /\ Act
    /\ scene.made
    /\ scene' = Dispose(scene)
    /\ UNCHANGED <<here, where, hidden, narrow, showing, effect, marks>>

ContextIsLost ==
    /\ Act
    /\ scene.made
    /\ scene' = Dispose(scene)
    /\ FallBack
    /\ UNCHANGED <<here, where, hidden, narrow, effect, marks>>

Leave ==
    /\ Act /\ here
    /\ here' = FALSE
    /\ UNCHANGED <<where, hidden, narrow, showing, effect, scene, marks>>

Loads ==
    \/ ChunkComes \/ ChunkFails \/ ThreeComes \/ ThreeFails \/ Built \/ NotBuilt

Next ==
    \/ Loads \/ Observe \/ SceneObserves \/ CleanUp \/ AnimationFrame
    \/ \E to \in 0 .. 2 : Scroll(to)
    \/ TurnTab \/ Resize \/ ContextIsLost \/ Leave

-----------------------------------------------------------------------------

\* The stage is never blank: the sealed pack that stands in for the scene is faded only while a scene
\* that has drawn is there, and what replaces both is the fan.
StageIsNeverBlank == here /\ showing.ready /\ ~showing.failed => scene.made /\ scene.ready

\* A page that was left, or fell back, ends up holding no canvas, context, texture or frame, at
\* whatever point of its making it was left; and a disposed scene asks for no frame.
NothingIsLeftBehind ==
    /\ scene.disposed => ~scene.raf /\ ~scene.made
    /\ effect.gone => ~effect.frame
    /\ effect.gone /\ effect.at \notin Loading => ~scene.made /\ ~scene.held /\ ~scene.raf

\* Off screen, and in a hidden tab, a scene draws nothing.
OffScreenNothingIsDrawn == scene.built /\ scene.raf => scene.visible /\ ~hidden

\* The chips and the scene tell one moment of the loop.
ChipsTellTheScene ==
    /\ showing.stage = stageOf(loopProgress(effect.elapsed))
    /\ effect.handle => scene.progress = loopProgress(effect.elapsed)

\* "Time only runs while the section is on screen" (pack-showcase.tsx:85): the loop goes on where it
\* was, unless the tab was hidden meanwhile.
TimeRunsOnScreen == "jumped" \in marks => "hidden" \in marks

\* The fan is arranged for the window as it is, unless it was resized while the scene was made.
FanFitsTheWindow ==
    scene.made /\ effect.handle /\ ~effect.gone /\ "resized" \notin marks => scene.compact = narrow

\* On screen, the scene is drawn or the fan is there.
Arrived == here /\ where = 2 /\ ~hidden => showing.ready \/ showing.failed
=============================================================================
