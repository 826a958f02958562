---- MODULE MCFramebuffer ----
(***************************************************************************)
(* Bounds of the drawing and the caches run.  The three parts of the frame *)
(* buffer hardly touch one another: a behaviour exercises one of them in   *)
(* full, and the others only as far as that one needs them.                *)
(***************************************************************************)
EXTENDS Framebuffer, FrameGeometry

CONSTANT Parts  \* of "lists", "pictures" and "buffers", those the run exercises

VARIABLE focus

ASSUME GeometryChecked == GeometryHolds

MCBuilt == <<"qcom_overlay", "drm", "fbdev", "generic">>

Kinds == {img[i].kind : i \in Items}
Ops == {job[t].op : t \in Threads}

\* Items, contexts, freezes and draws, on the generic back end; one file, added by Main.
Lists ==
    /\ impl \in {"none", "generic"} /\ ~astray /\ yoffset = active
    /\ "text" \notin Kinds /\ "render" \notin Ops /\ job[Input].op # "get"
    /\ Cardinality({i \in Items : img[i].kind \in {"png", "blank"}}) <= 1

\* The caches under two threads, nothing being drawn.
Caches ==
    /\ impl \in {"none", "generic"} /\ ~astray /\ yoffset = active
    /\ inactive_ctx = <<>> /\ ~frozen /\ ~requested
    /\ Ops \cap {"batch", "shot", "tested", "freezing"} = {}

\* Every back end, with no items.
BackEnds == Kinds = {"none"} /\ inactive_ctx = <<>> /\ "batch" \notin Ops

Bound ==
    /\ focus = "lists" => Lists
    /\ focus = "pictures" => Caches
    /\ focus = "buffers" => BackEnds

Symmetric == Permutations(Items) \cup Permutations(Texts) \cup Permutations(Colours)

MCInit == Init /\ focus \in Parts
MCNext == Next /\ UNCHANGED focus /\ Bound'
MCSpec == MCInit /\ [][MCNext]_<<vars, focus>> /\ Fairness
====
