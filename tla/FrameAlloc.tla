----------------------------- MODULE FrameAlloc -----------------------------
(***************************************************************************)
(* cFixedAlloc (src/Project2/src/Policy/frameAlloc.cpp): which frames are  *)
(* allocated, which are pinned while I/O goes on, and openFrames, a count  *)
(* that is kept beside the bits.                                           *)
(***************************************************************************)
EXTENDS Integers, FiniteSets

VARIABLES
  numFrames,   \* total_frames of the settings
  frames,      \* the frames whose bit is set
  pinned,
  openFrames

frameVars == <<numFrames, frames, pinned, openFrames>>

Frames == 0 .. numFrames - 1

FrameInit(total) ==
  /\ numFrames = total
  /\ frames = {} /\ pinned = {}
  /\ openFrames = numFrames

\* findFirstOf(false, frames).
IsFirstFree(f) == /\ f \in Frames \ frames
                  /\ \A g \in Frames \ frames : f <= g

\* getFrame looks at the first free frame only; if that one is pinned there is
\* none for it.
CanGet(f) == IsFirstFree(f) /\ f \notin pinned
NoneFree == \A f \in Frames \ frames : ~ CanGet(f)

\* A free frame is handed out, and pinned by the caller.
GetFrame(f) ==
  /\ CanGet(f)
  /\ frames' = frames \cup {f}
  /\ openFrames' = openFrames - 1
  /\ pinned' = pinned \cup {f}
  /\ UNCHANGED numFrames

\* Variant: the count is left alone.
ReturnFramesUncounted(gone, times) ==
  /\ frames' = frames \ gone
  /\ UNCHANGED <<numFrames, pinned, openFrames>>

\* returnFrame, for the frames `gone', called so many times.  It does not look
\* whether a bit is set.
ReturnFrames(gone, times) ==
  /\ frames' = frames \ gone
  /\ openFrames' = openFrames + times
  /\ UNCHANGED <<numFrames, pinned>>

Pin(f) == pinned' = pinned \cup {f} /\ UNCHANGED <<numFrames, frames, openFrames>>

Unpin(f) == pinned' = pinned \ {f} /\ UNCHANGED <<numFrames, frames, openFrames>>

\* checkOpen(true), as the cleaning daemon asks.
CheckOpen == openFrames + Cardinality(pinned)
=============================================================================
