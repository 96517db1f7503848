------------------------------ MODULE HeroCard ------------------------------
(***************************************************************************)
(* The landing page's hero: a poster, over which a 3D card fades in once   *)
(* the page has loaded and the browser is idle.  Its canvas is there while *)
(* its texture still loads, so the context may be lost before there is a   *)
(* card, and the page left before there is anything.                       *)
(***************************************************************************)
EXTENDS Integers

CONSTANT MaxActs   \* bound: what the visitor and the device do

VARIABLES
    here,      \* the page is not left
    inView,    \* the hero is on screen
    hidden,    \* the tab is in the background
    ready,     \* the poster is faded out
    effect,    \* where the effect is, whether it has ended and whether it has the scene
    scene,     \* what init() made
    acts       \* acts so far

heroVars == <<here, inView, hidden, ready, effect, scene, acts>>

TypeOK ==
    /\ effect.at \in {"waiting", "chunk", "three", "texture", "over"}
    /\ effect.handle => effect.at = "over"
    /\ {here, inView, hidden, ready} \subseteq BOOLEAN
    /\ scene.built => scene.made \/ scene.disposed
    /\ acts \in 0 .. MaxActs

Init ==
    /\ here = TRUE /\ ready = FALSE /\ acts = 0
    /\ inView \in BOOLEAN /\ hidden \in BOOLEAN
    /\ effect = [at |-> "waiting", gone |-> FALSE, handle |-> FALSE]
    /\ scene = [made |-> FALSE, built |-> FALSE, disposed |-> FALSE,
                raf |-> FALSE, visible |-> TRUE, drawn |-> FALSE]

-----------------------------------------------------------------------------
(* The scene's operations, on its record.                                  *)

start(s) == [s EXCEPT !.raf = @ \/ (~s.disposed /\ ~hidden)]
stop(s) == [s EXCEPT !.raf = FALSE]

\* Mutant of dispose: the frame that was asked for still comes.
disposeRunning(s) == IF s.disposed THEN s ELSE [s EXCEPT !.disposed = TRUE, !.made = FALSE]
dispose(s) == IF s.disposed THEN s ELSE [stop(s) EXCEPT !.disposed = TRUE, !.made = FALSE]

-----------------------------------------------------------------------------
(* The effect, and init() under way.                                       *)

\* The page has loaded and the browser is idle.
whenIdle ==
    /\ effect.at = "waiting" /\ ~effect.gone
    /\ effect' = [effect EXCEPT !.at = "chunk"]
    /\ UNCHANGED <<here, inView, hidden, ready, scene, acts>>

Answered(s) ==
    /\ effect' = [effect EXCEPT !.at = "over", !.handle = ~effect.gone]
    /\ scene' = IF effect.gone THEN dispose(s) ELSE s

ChunkComes ==
    /\ effect.at = "chunk"
    /\ effect' = [effect EXCEPT !.at = IF effect.gone THEN "over" ELSE "three"]
    /\ UNCHANGED <<here, inView, hidden, ready, scene, acts>>

ChunkFails ==
    /\ effect.at = "chunk"
    /\ effect' = [effect EXCEPT !.at = "over"]
    /\ ready' = FALSE
    /\ UNCHANGED <<here, inView, hidden, scene, acts>>

\* three.js has come and there is WebGL: a canvas is over the poster, and the texture is asked for.
CanvasIsMade ==
    /\ effect.at = "three"
    /\ effect' = [effect EXCEPT !.at = "texture"]
    /\ scene' = [scene EXCEPT !.made = TRUE]
    /\ UNCHANGED <<here, inView, hidden, ready, acts>>

\* three.js does not come, or there is no WebGL.
NoCanvas ==
    /\ effect.at = "three"
    /\ ready' = FALSE
    /\ Answered(scene)
    /\ UNCHANGED <<here, inView, hidden, acts>>

\* Mutant of TextureComes: a card on a context that was lost meanwhile.
TextureComesAnyway ==
    /\ effect.at = "texture"
    /\ Answered([scene EXCEPT !.built = TRUE, !.raf = ~hidden])
    /\ UNCHANGED <<here, inView, hidden, ready, acts>>

\* The card is made, unless the context was lost meanwhile.
TextureComes ==
    /\ effect.at = "texture"
    /\ Answered(IF scene.disposed THEN scene ELSE start([scene EXCEPT !.built = TRUE]))
    /\ UNCHANGED <<here, inView, hidden, ready, acts>>

TextureFails ==
    /\ effect.at = "texture"
    /\ ready' = (ready /\ scene.disposed)
    /\ Answered(dispose(scene))
    /\ UNCHANGED <<here, inView, hidden, acts>>

CleanUp ==
    /\ ~here /\ ~effect.gone
    /\ effect' = [effect EXCEPT !.gone = TRUE]
    /\ scene' = IF effect.handle THEN dispose(scene) ELSE scene
    /\ UNCHANGED <<here, inView, hidden, ready, acts>>

-----------------------------------------------------------------------------
(* The browser, the visitor and the device.                                *)

\* The next frame is asked for before this one is drawn; the first fades the poster out.
frame ==
    /\ scene.raf /\ ~hidden
    /\ scene' = [scene EXCEPT !.drawn = TRUE]
    /\ ready' = (ready \/ ~scene.drawn)
    /\ UNCHANGED <<here, inView, hidden, effect, acts>>

Observes ==
    /\ scene.built /\ ~scene.disposed /\ ~hidden
    /\ scene.visible # (here /\ inView)
    /\ scene' = IF scene.visible THEN [stop(scene) EXCEPT !.visible = FALSE]
                                 ELSE [start(scene) EXCEPT !.visible = TRUE]
    /\ UNCHANGED <<here, inView, hidden, ready, effect, acts>>

Act == acts < MaxActs /\ acts' = acts + 1

onVisibility ==
    /\ Act
    /\ hidden' = ~hidden
    /\ scene' = IF ~scene.built \/ scene.disposed THEN scene
                ELSE [scene EXCEPT !.raf = ~hidden' /\ (@ \/ scene.visible)]
    /\ UNCHANGED <<here, inView, ready, effect>>

Scroll ==
    /\ Act /\ ~hidden
    /\ inView' = ~inView
    /\ UNCHANGED <<here, hidden, ready, effect, scene>>

onLost ==
    /\ Act
    /\ scene.made
    /\ scene' = dispose(scene)
    /\ ready' = FALSE
    /\ UNCHANGED <<here, inView, hidden, effect>>

Leave ==
    /\ Act /\ here
    /\ here' = FALSE
    /\ UNCHANGED <<inView, hidden, ready, effect, scene>>

Loads == whenIdle \/ ChunkComes \/ ChunkFails \/ CanvasIsMade \/ NoCanvas \/ TextureComes \/ TextureFails

Next ==
    \/ Loads \/ CleanUp \/ frame \/ Observes \/ onVisibility \/ Scroll \/ onLost \/ Leave

-----------------------------------------------------------------------------

\* The poster is faded out only under a card that was drawn and is still there.
PosterOrCard == here /\ ready => scene.made /\ scene.drawn

\* However far it came, a page that was left ends up with no canvas, context or frame, and a card
\* whose context was lost asks for no frame.
NothingIsLeftBehind ==
    /\ scene.disposed => ~scene.raf /\ ~scene.made
    /\ effect.gone /\ effect.at \in {"waiting", "over"} => ~scene.made /\ ~scene.raf

\* Off screen, and in a hidden tab, the card draws nothing.
OffScreenNothingIsDrawn == scene.raf => scene.visible /\ ~hidden

\* On screen, the card is drawn unless something failed.
Arrived == here /\ inView /\ ~hidden => ready \/ (effect.at = "over" /\ ~scene.made)
=============================================================================
