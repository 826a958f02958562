---------------------------- MODULE ScreenBuffers ----------------------------
(***************************************************************************)
(* The back ends of lib/framebuffer.c: Qualcomm overlay (when it is built  *)
(* in), DRM, fbdev and the generic one, tried in this order.  Each keeps   *)
(* two or more pieces of memory, of which one is scanned out; a frame is   *)
(* copied into another one, which the driver is then asked to show.        *)
(***************************************************************************)
EXTENDS Naturals, Sequences

CONSTANTS
    Built,          \* the back ends of the build, in the order of impls[]
    DoubleBuffered  \* fbdev: the frame buffer's memory holds two screens

ASSUME BuiltAssumption ==
    \A i \in 1..Len(Built) : Built[i] \in {"qcom_overlay", "drm", "fbdev", "generic"}

VARIABLES
    impl,       \* fb.impl
    active,     \* active_buff, displayed_buffer, current_buffer or active_mem
    yoffset,    \* the screen of fb0's memory the kernel shows; nobody puts it back
    front,      \* the memory of its own the back end shows (DRM, overlay), or NoneOfOurs
    flip,       \* DRM: the buffer of the page flip that waits for the next blank, or NoFlip
    astray      \* history: what is shown need not be what the back end takes it for

bufferVars == <<impl, active, yoffset, front, flip, astray>>

Impls == {"qcom_overlay", "drm", "fbdev", "generic"}
Buffers == 0..2
NoneOfOurs == 3
NoFlip == 3

BuffersTypeOK ==
    /\ impl \in Impls \cup {"none"}
    /\ active \in Buffers /\ yoffset \in 0..1 /\ front \in Buffers \cup {NoneOfOurs}
    /\ flip \in Buffers \cup {NoFlip}
    /\ astray \in BOOLEAN

\* Whoever had fb0 before may have left either screen of it shown.
BuffersInit ==
    /\ impl = "none"
    /\ active = 0 /\ front = NoneOfOurs /\ flip = NoFlip
    /\ yoffset \in 0..1
    /\ astray = FALSE

NumBuffers_OneMore == IF impl = "qcom_overlay" THEN 4 ELSE IF impl = "fbdev" /\ ~DoubleBuffered THEN 1 ELSE 2

\* The overlay has three pieces of memory, the others two, fbdev on a small device one.
NumBuffers == IF impl = "qcom_overlay" THEN 3 ELSE IF impl = "fbdev" /\ ~DoubleBuffered THEN 1 ELSE 2

\* What the display shows.
Shown == IF impl \in {"fbdev", "generic"} THEN yoffset ELSE front

\* fbdev's set_displayed_framebuffer, at the opening and after each copy: its records move
\* on whether FBIOPUT_VSCREENINFO and, where it is built in, FBIOPAN_DISPLAY accept or not.
set_displayed_framebuffer(n, ok) ==
    IF DoubleBuffered
    THEN /\ active' = n
         /\ yoffset' \in IF ok THEN {n} ELSE {yoffset, n}
         /\ astray' = ~ok
    ELSE UNCHANGED <<active, yoffset, astray>>

-----------------------------------------------------------------------------
\* Opening.  What each back end leaves behind when it opens; a step that fails (no device,
\* no monitor, no memory, an ioctl) makes fb_open_impl try the next one.

qcom_open ==
    /\ impl' = "qcom_overlay" /\ active' = 0 /\ front' = NoneOfOurs
    /\ astray' = FALSE
    /\ UNCHANGED yoffset

\* The monitor is set up with the second surface, and it is not looked at whether the
\* driver does so; current_buffer is the first.
drm_init ==
    /\ impl' = "drm" /\ active' = 0 /\ front' \in {1, NoneOfOurs}
    /\ astray' = FALSE
    /\ UNCHANGED yoffset

fbdev_init ==
    /\ impl' = "fbdev"
    /\ \E ok \in BOOLEAN : set_displayed_framebuffer(0, ok)
    /\ UNCHANGED front

\* A new active_buff starts from 0; the settings fb_open has read go back to the driver
\* with the offset they came with.
generic_open ==
    /\ impl' = "generic" /\ active' = 0
    /\ astray' = (yoffset # 0)
    /\ UNCHANGED <<yoffset, front>>

\* impls[] from its head, or the generic one alone when force_generic is set: the first
\* that opens.
fb_open_impl(forced) ==
    /\ impl = "none"
    /\ \E i \in 1..Len(Built) :
        /\ forced => Built[i] = "generic"
        /\ CASE Built[i] = "qcom_overlay" -> qcom_open
             [] Built[i] = "drm" -> drm_init
             [] Built[i] = "fbdev" -> fbdev_init
             [] Built[i] = "generic" -> generic_open
    /\ flip' = NoFlip

close_impl == impl' = "none" /\ flip' = NoFlip /\ UNCHANGED <<active, yoffset, front, astray>>

-----------------------------------------------------------------------------
\* A frame.

\* The generic back end's get_frame_dest turns the buffer over before the copy; fbdev
\* copies its own surface into the buffer that is not displayed; DRM and the overlay
\* write the one they will ask for next.
Target_Shown == active

Target ==
    IF impl \in {"drm", "qcom_overlay"} \/ NumBuffers = 1 THEN active ELSE 1 - active

fbdev_flip(ok) ==
    /\ impl = "fbdev"
    /\ set_displayed_framebuffer(Target, ok)
    /\ UNCHANGED <<front, flip>>

\* FBIOPUT_VSCREENINFO; active_buff has moved on before it.
generic_update(ok) ==
    /\ impl = "generic"
    /\ active' = Target
    /\ yoffset' = IF ok THEN Target ELSE yoffset
    /\ astray' = ~ok
    /\ UNCHANGED <<front, flip>>

\* drmModePageFlip only queues the flip, and refuses while one is queued.
drm_update(ok) ==
    /\ impl = "drm"
    /\ ok => flip = NoFlip
    /\ flip' = IF ok THEN active ELSE flip
    /\ active' = IF ok THEN 1 - active ELSE active
    /\ UNCHANGED <<yoffset, front, astray>>

\* MSMFB_OVERLAY_PLAY and MSMFB_DISPLAY_COMMIT; when the second fails the first may have
\* had its effect.
qcom_update(ok) ==
    /\ impl = "qcom_overlay"
    /\ front' \in IF ok THEN {active} ELSE {front, active}
    /\ active' = IF ok THEN (active + 1) % NumBuffers ELSE active
    /\ astray' = ~ok
    /\ UNCHANGED <<yoffset, flip>>

\* The copy, with the rotation, and the driver's answer.
fb_update ==
    /\ \E ok \in BOOLEAN : fbdev_flip(ok) \/ generic_update(ok) \/ drm_update(ok) \/ qcom_update(ok)
    /\ UNCHANGED impl

\* The display reaches the blank: the queued flip happens.
VerticalBlank ==
    /\ flip # NoFlip
    /\ front' = flip
    /\ flip' = NoFlip
    /\ UNCHANGED <<impl, active, yoffset, astray>>

\* A frame is copied into memory the display does not show: a copy into the shown buffer is
\* seen half done.  It is not so where the device has one screen of memory, while a page
\* flip still waits, and for the frames from a request the driver has not carried out, or
\* an opening that found the other screen shown, to the next one the driver accepts.
CopyOffScreen ==
    NumBuffers > 1 /\ ~astray /\ flip = NoFlip /\ impl # "none" => Target # Shown
===============================================================================
