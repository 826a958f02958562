--------------------------- MODULE Framebuffer_proofs ---------------------------
(***************************************************************************)
(* framebuffer.c and what it draws with, for every screen, every set of    *)
(* items and any number of contexts: rectangles and pictures are drawn     *)
(* inside the screen, a line at most one row or column past it along its   *)
(* axis; the copy into the frame puts every pixel where the rotation takes *)
(* it, and goes into a buffer that is not on the screen; a freeze holds;   *)
(* every frame is the list of items as it was at one moment (Screen); an   *)
(* item has one owner; and no item shows pixels that have been freed.      *)
(***************************************************************************)
EXTENDS Framebuffer, FrameGeometry, FiniteSetTheorems, SequenceTheorems, TLAPS

LEMMA SmallerOfTwo ==
    ASSUME NEW a \in Int, NEW b \in Int
    PROVE  imin(a, b) \in Int /\ imin(a, b) <= a /\ imin(a, b) <= b
BY DEF imin

\* clamp_to_parent: what a parent shows lies on the screen.
LEMMA ParentOnScreen ==
    ASSUME NEW Screen \in Nat, NEW p \in Int, NEW size \in Nat, NEW own \in BOOLEAN,
           own => p = 0 /\ size = Screen
    PROVE  LET parent == Parent(own, p, size, Screen)
           IN  parent.at \in Nat /\ parent.size \in Int /\ parent.at + parent.size <= Screen
<1> DEFINE start == IF ~own /\ p < 0 THEN 0 ELSE p
           cut == IF ~own /\ p < 0 THEN size + p ELSE size
<1>1. CASE own
  BY <1>1 DEF Parent
<1>2. CASE ~own
  <2>1. start \in Int /\ cut \in Int
    OBVIOUS
  <2>2. imin(start + cut, Screen) \in Int /\ imin(start + cut, Screen) <= Screen
    BY <2>1, SmallerOfTwo
  <2>3. Parent(own, p, size, Screen) = [at |-> start, size |-> imin(start + cut, Screen) - start]
    BY <1>2 DEF Parent
  <2>. QED
    BY <1>2, <2>2, <2>3
<1>. QED
  BY <1>1, <1>2

\* The pixels of an item lie within its parent.
LEMMA DrawnInParent ==
    ASSUME NEW x \in Int, NEW w \in Nat, NEW at \in Nat, NEW size \in Int,
           NEW n \in clamp_min(x, [at |-> at, size |-> size])..(clamp_max(x, w, [at |-> at, size |-> size]) - 1)
    PROVE  x + n \in Int /\ at <= x + n /\ x + n < at + size
<1> DEFINE parent == [at |-> at, size |-> size]
           first == clamp_min(x, parent)
           end == clamp_max(x, w, parent)
<1>1. first \in Int /\ first >= at - x
  BY DEF clamp_min
<1>2. end = imin(w, at + size - x)
  BY DEF clamp_max
<1>3. end \in Int /\ end <= at + size - x
  BY <1>2, SmallerOfTwo
<1>4. n \in first..(end - 1)
  OBVIOUS
<1>. HIDE DEF first, end
<1>. QED
  BY <1>1, <1>3, <1>4

\* No rectangle or picture writes outside the screen, wherever an animation has moved it
\* and its parent and whatever their sizes (fb_draw_rect and fb_draw_img after
\* clamp_to_parent) ...
LEMMA ClippedInside == \A Screen \in Nat : DrawnInside(Int, Screen)
<1>. SUFFICES ASSUME NEW Screen \in Nat, NEW x \in Int, NEW q \in Int, NEW w \in Int \cap Nat,
                     NEW s \in Int \cap Nat, NEW own \in BOOLEAN
              PROVE  fb_draw_rect(x, w, Parent(own, IF own THEN 0 ELSE q, IF own THEN Screen ELSE s, Screen))
                        \subseteq 0..(Screen - 1)
  BY DEF DrawnInside
<1> DEFINE p == IF own THEN 0 ELSE q
           size == IF own THEN Screen ELSE s
           parent == Parent(own, p, size, Screen)
<1>1. p \in Int /\ size \in Nat /\ (own => p = 0 /\ size = Screen)
  OBVIOUS
<1>2. parent.at \in Nat /\ parent.size \in Int /\ parent.at + parent.size <= Screen
  BY <1>1, ParentOnScreen
<1>3. parent = [at |-> parent.at, size |-> parent.size]
  BY DEF Parent
<1>4. ASSUME NEW pixel \in fb_draw_rect(x, w, parent)
      PROVE  pixel \in 0..(Screen - 1)
  <2>1. PICK n \in clamp_min(x, parent)..(clamp_max(x, w, parent) - 1) : pixel = x + n
    BY DEF fb_draw_rect
  <2>. HIDE DEF parent
  <2>2. x + n \in Int /\ parent.at <= x + n /\ x + n < parent.at + parent.size
    BY <1>2, <1>3, <2>1, DrawnInParent
  <2>. QED
    BY <1>2, <2>1, <2>2
<1>. QED
  BY <1>4

LEMMA EndInParent ==
    ASSUME NEW Screen \in Nat, NEW x \in Int
    PROVE  LineEnd(x, Parent(TRUE, 0, Screen, Screen)) \in 0..Screen
<1>1. Parent(TRUE, 0, Screen, Screen) = [at |-> 0, size |-> Screen]
  BY DEF Parent
<1>2. [at |-> 0, size |-> Screen].at = 0 /\ [at |-> 0, size |-> Screen].size = Screen
  OBVIOUS
<1>3. LineEnd(x, Parent(TRUE, 0, Screen, Screen)) = imin(imax(x, 0), 0 + Screen)
  BY <1>1, <1>2 DEF LineEnd
<1>4. imax(x, 0) \in Nat
  BY DEF imax
<1>5. imin(imax(x, 0), 0 + Screen) \in 0..Screen
  BY <1>4 DEF imin
<1>. QED
  BY <1>3, <1>5

\* ... and a line, wherever its ends are, writes along its axis at most into the row or
\* column after the screen's last (fb_draw_line).
THEOREM AlwaysInside == \A Screen \in Nat : DrawnInside(Int, Screen) /\ LinesReach(Int, Screen)
<1>. SUFFICES ASSUME NEW Screen \in Nat
              PROVE  LinesReach(Int, Screen)
  BY ClippedInside
<1> DEFINE parent == Parent(TRUE, 0, Screen, Screen)
<1>1. ASSUME NEW x \in Int, NEW x2 \in Int
      PROVE  fb_draw_line(x, x2, parent) \subseteq 0..Screen
  <2> DEFINE a == LineEnd(x, parent)
             b == LineEnd(x2, parent)
  <2>1. a \in 0..Screen /\ b \in 0..Screen
    BY EndInParent, Zenon
  <2>2. fb_draw_line(x, x2, parent) = imin(a, b)..imax(a, b)
    BY DEF fb_draw_line
  <2>. HIDE DEF a, b
  <2>3. imin(a, b) \in 0..Screen /\ imax(a, b) \in 0..Screen
    BY <2>1 DEF imin, imax
  <2>4. \A m, n \in 0..Screen : m..n \subseteq 0..Screen
    OBVIOUS
  <2>. QED
    BY <2>2, <2>3, <2>4, Zenon
<1>. QED
  BY <1>1, Zenon DEF LinesReach

-----------------------------------------------------------------------------
\* The offsets the copy reads, with the place a turn takes x, y to put in for row and column.
LEMMA Upright ==
    ASSUME NEW x \in Int, NEW y \in Int, NEW xres \in Int, NEW yres \in Int, NEW v \in Int
    PROVE  fb_cpy_fb_with_rotation(0, y, x, xres, yres, v) = y * v + x
BY DEF fb_cpy_fb_with_rotation

LEMMA QuarterTurn ==
    ASSUME NEW x \in Int, NEW y \in Int, NEW height \in Int, NEW st \in Int
    PROVE  fb_rotate_90deg(x, height - 1 - y, height, st) = y * st + x
<1>1. height - 1 - (height - 1 - y) = y
  OBVIOUS
<1>. QED
  BY <1>1 DEF fb_rotate_90deg

LEMMA ThreeQuarterTurn ==
    ASSUME NEW x \in Int, NEW y \in Int, NEW width \in Int, NEW st \in Int
    PROVE  fb_rotate_270deg(width - 1 - x, y, width, st) = y * st + x
<1>1. width - 1 - (width - 1 - x) = x
  OBVIOUS
<1>2. y * st \in Int
  OBVIOUS
<1>3. y * st + width - 1 - (width - 1 - x) = y * st + x
  BY <1>2
<1>. QED
  BY <1>3 DEF fb_rotate_270deg

LEMMA HalfTurn ==
    ASSUME NEW row \in Int, NEW col \in Int, NEW yres \in Int, NEW pad \in Int, NEW v \in Int
    PROVE  fb_rotate_180deg(row, col, v, yres, pad) = (yres - 1 - row) * v + (v - pad - 1 - col)
<1>1. (yres - 1 - row) * v = yres * v - v - row * v
  OBVIOUS
<1>2. (row + 1) * pad = row * pad + pad
  OBVIOUS
<1>3. row * (v - pad) = row * v - row * pad
  OBVIOUS
<1>4. v * yres = yres * v
  OBVIOUS
<1>. QED
  BY <1>1, <1>2, <1>3, <1>4 DEF fb_rotate_180deg

\* The copy into the frame reads, for every place of it, the pixel that the rotation takes
\* there (fb_cpy_fb_with_rotation), for every size of the screen and padding of its rows.
THEOREM AlwaysFaithful ==
    ASSUME NEW Sizes \in SUBSET (Nat \ {0}), NEW Paddings \in SUBSET Nat
    PROVE  CopyFaithful(Sizes, Paddings)
<1>. SUFFICES ASSUME NEW rotation \in {0, 90, 180, 270}, NEW xres \in Sizes, NEW yres \in Sizes, NEW pad \in Paddings,
                     NEW x \in 0..(fb_width(rotation, xres, yres) - 1), NEW y \in 0..(fb_height(rotation, xres, yres) - 1)
              PROVE  LET to == Turned(rotation, x, y, fb_width(rotation, xres, yres), fb_height(rotation, xres, yres))
                     IN  fb_cpy_fb_with_rotation(rotation, to[2], to[1], xres, yres, xres + pad)
                            = y * stride(rotation, xres + pad, yres) + x
  BY DEF CopyFaithful
<1>0. x \in Int /\ y \in Int /\ xres \in Nat /\ yres \in Nat /\ pad \in Nat
  OBVIOUS
<1>. PICK v \in Int : v = xres + pad
  OBVIOUS
<1>1. CASE rotation = 0
  <2>1. stride(rotation, v, yres) = v
    BY <1>1 DEF stride
  <2>2. Turned(rotation, x, y, fb_width(rotation, xres, yres), fb_height(rotation, xres, yres)) = <<x, y>>
    BY <1>1 DEF Turned
  <2>3. fb_cpy_fb_with_rotation(0, y, x, xres, yres, v) = y * v + x
    BY <1>0, Upright
  <2>. QED
    BY <1>1, <2>1, <2>2, <2>3
<1>2. CASE rotation = 90
  <2>1. stride(rotation, v, yres) = yres
    BY <1>2 DEF stride
  <2>2. Turned(rotation, x, y, fb_width(rotation, xres, yres), fb_height(rotation, xres, yres)) = <<xres - 1 - y, x>>
    BY <1>2 DEF Turned, fb_height
  <2>3. fb_cpy_fb_with_rotation(rotation, x, xres - 1 - y, xres, yres, v) = fb_rotate_90deg(x, xres - 1 - y, xres, yres)
    BY <1>2 DEF fb_cpy_fb_with_rotation, fb_height, stride
  <2>4. fb_rotate_90deg(x, xres - 1 - y, xres, yres) = y * yres + x
    BY <1>0, QuarterTurn
  <2>. QED
    BY <2>1, <2>2, <2>3, <2>4
<1>3. CASE rotation = 180
  <2>1. stride(rotation, v, yres) = v
    BY <1>3 DEF stride
  <2>2. Turned(rotation, x, y, fb_width(rotation, xres, yres), fb_height(rotation, xres, yres)) = <<xres - 1 - x, yres - 1 - y>>
    BY <1>3 DEF Turned, fb_height, fb_width
  <2>3. fb_cpy_fb_with_rotation(rotation, yres - 1 - y, xres - 1 - x, xres, yres, v)
          = fb_rotate_180deg(yres - 1 - y, xres - 1 - x, v, yres, pad)
    <3>1. v - xres = pad
      OBVIOUS
    <3>. QED
      BY <1>3, <3>1 DEF fb_cpy_fb_with_rotation
  <2>4. fb_rotate_180deg(yres - 1 - y, xres - 1 - x, v, yres, pad) = y * v + x
    <3>1. yres - 1 - (yres - 1 - y) = y /\ v - pad - 1 - (xres - 1 - x) = x
      BY <1>0
    <3>2. fb_rotate_180deg(yres - 1 - y, xres - 1 - x, v, yres, pad)
            = (yres - 1 - (yres - 1 - y)) * v + (v - pad - 1 - (xres - 1 - x))
      BY <1>0, HalfTurn
    <3>. QED
      BY <3>1, <3>2
  <2>. QED
    BY <2>1, <2>2, <2>3, <2>4
<1>4. CASE rotation = 270
  <2>1. stride(rotation, v, yres) = yres
    BY <1>4 DEF stride
  <2>2. Turned(rotation, x, y, fb_width(rotation, xres, yres), fb_height(rotation, xres, yres)) = <<y, yres - 1 - x>>
    BY <1>4 DEF Turned, fb_width
  <2>3. fb_cpy_fb_with_rotation(rotation, yres - 1 - x, y, xres, yres, v) = fb_rotate_270deg(yres - 1 - x, y, yres, yres)
    BY <1>4 DEF fb_cpy_fb_with_rotation, fb_width, stride
  <2>4. fb_rotate_270deg(yres - 1 - x, y, yres, yres) = y * yres + x
    BY <1>0, ThreeQuarterTurn
  <2>. QED
    BY <2>1, <2>2, <2>3, <2>4
<1>. QED
  BY <1>1, <1>2, <1>3, <1>4

-----------------------------------------------------------------------------
\* What the calls of the other threads leave alone, and what a thread in one of them
\* holds: in a batch, in fb_clear and while it changes a text's content, fb_ctx.mutex.
Backs == {"idle", "batch", "clear", "link"}
Resting == {"idle", "batch", "clear", "files", "texts"}
Holding(j) ==
    \/ j.op \in {"batch", "clear"}
    \/ j.op \in CallOps /\ j.back \in {"batch", "clear"}
    \/ j.op \in {"unlink", "render", "use", "store"} /\ j.back = "idle"

ShapeInv ==
    /\ items \in Seq(Items) /\ inactive_ctx \in Seq(Seq(Items))
    /\ job = [t \in Threads |-> job[t]]
    /\ \A t \in Threads : /\ job[t].op \in CallOps => job[t].item \in Items /\ job[t].back \in Backs
                          /\ Holding(job[t]) => ctxLock = t
    /\ pc = "paint" => ctxLock = Draw

Undrawn == UNCHANGED <<bufferVars, inactive_ctx, drawLock, requested, frozen, draw_run, pc, it, canvas, why>>

\* A step of a call at the items, by which the thread's job becomes j.
Moved(t, j) ==
    /\ Undrawn
    /\ job' = [job EXCEPT ![t] = j]
    /\ job[t].op \in CallOps \cup Resting
    /\ j.op \in CallOps \cup Resting
    /\ j.op \in CallOps => j.item \in Items /\ j.back \in Backs
    /\ Holding(j) => ctxLock' = t
    /\ ctxLock' = ctxLock \/ (ctxLock \in {NoOne, t} /\ ctxLock' \in {NoOne, t})
    /\ items' \in Seq(Items)
    /\ items' = items \/ ctxLock \in {NoOne, t}

Moves(t) == \E j : Moved(t, j)

Begins(t) ==
    \/ fb_batch_start(t) \/ fb_batch_end(t)
    \/ \E i \in Items :
        \/ \E k \in Texts, c \in Colours : fb_text_finalize(t, i, k, c)
        \/ \E p \in Paths : fb_add_png_img(t, i, p)
        \/ fb_add_rect(t, i)
        \/ fb_ctx_rm_item(t, i)
        \/ \E k \in Texts : ChangeText(t, i, k)
        \/ \E c \in Colours : ChangeColour(t, i, c)

ClearStep ==
    \/ fb_clear \/ ClearItem \/ Cleared
    \/ \E p \in Paths : DropFile(p)
    \/ FilesDropped
    \/ \E k \in Texts : DropText(k)
    \/ TextsDropped

\* Lists of items with one taken out or put in.
LEMMA ListsTyped ==
    ASSUME NEW S, NEW s \in Seq(S)
    PROVE  /\ \A n \in 1..Len(s) : RemoveAt(s, n) \in Seq(S)
           /\ \A n \in 1..(Len(s) + 1), e \in S : InsertAt(s, n, e) \in Seq(S)
           /\ s # <<>> => Head(s) \in S /\ Tail(s) \in Seq(S) /\ Front(s) \in Seq(S) /\ Last(s) \in S
<1>1. ASSUME NEW m \in 1..(Len(s) + 1), NEW n \in 0..Len(s) PROVE SubSeq(s, m, n) \in Seq(S)
  OBVIOUS
<1>2. \A n \in 1..Len(s) : RemoveAt(s, n) \in Seq(S)
  <2>. SUFFICES ASSUME NEW n \in 1..Len(s) PROVE RemoveAt(s, n) \in Seq(S)
    OBVIOUS
  <2>1. SubSeq(s, 1, n - 1) \in Seq(S) /\ SubSeq(s, n + 1, Len(s)) \in Seq(S)
    BY <1>1
  <2>. QED
    BY <2>1 DEF RemoveAt
<1>3. \A n \in 1..(Len(s) + 1), e \in S : InsertAt(s, n, e) \in Seq(S)
  <2>. SUFFICES ASSUME NEW n \in 1..(Len(s) + 1), NEW e \in S PROVE InsertAt(s, n, e) \in Seq(S)
    OBVIOUS
  <2>1. SubSeq(s, 1, n - 1) \in Seq(S) /\ SubSeq(s, n, Len(s)) \in Seq(S)
    BY <1>1
  <2>. QED
    BY <2>1 DEF InsertAt
<1>4. s # <<>> => Head(s) \in S /\ Tail(s) \in Seq(S) /\ Front(s) \in Seq(S) /\ Last(s) \in S
  <2>. SUFFICES ASSUME s # <<>> PROVE Head(s) \in S /\ Tail(s) \in Seq(S) /\ Front(s) \in Seq(S) /\ Last(s) \in S
    OBVIOUS
  <2>1. Len(s) \in Nat /\ Len(s) >= 1
    OBVIOUS
  <2>. QED
    BY <2>1, <1>1 DEF Front, Last
<1>. QED
  BY <1>2, <1>3, <1>4

\* A step to another point of the same call, and one to its end.
LEMMA ToMoves ==
    ASSUME ShapeInv, NEW t \in Threads, job[t].op \in CallOps, Undrawn,
           NEW op \in CallOps, NEW as, NEW entry, To(t, op, as, entry),
           ctxLock' = ctxLock, items' \in Seq(Items), items' = items \/ ctxLock \in {NoOne, t},
           op \in {"unlink", "render", "use", "store"} => job[t].op \in {"unlink", "render", "use", "store"}
    PROVE  Moves(t)
<1> DEFINE j == Step(op, job[t].item, as, entry, job[t].back)
<1>1. job[t].item \in Items /\ job[t].back \in Backs
  BY DEF ShapeInv
<1>2. /\ j.op = op /\ j.item = job[t].item /\ j.back = job[t].back
      /\ Holding(j) <=> \/ job[t].back \in {"batch", "clear"}
                        \/ op \in {"unlink", "render", "use", "store"} /\ job[t].back = "idle"
  BY <1>1 DEF Step, CallOps, Backs, Holding
<1>. HIDE DEF j
<1>3. Holding(j) => Holding(job[t])
  BY <1>2 DEF Holding
<1>4. job' = [job EXCEPT ![t] = j]
  BY DEF To, Turn, j
<1>5. Moved(t, j)
  BY <1>1, <1>2, <1>3, <1>4 DEF Moved, ShapeInv
<1>. QED
  BY <1>5 DEF Moves

LEMMA BackMoves ==
    ASSUME ShapeInv, NEW t \in Threads, job[t].op \in CallOps, Undrawn, Back(t),
           items' = items,
           \/ ctxLock' = ctxLock
           \/ ctxLock = t /\ ctxLock' = NoOne /\ job[t].back = "idle"
    PROVE  Moves(t)
<1>1. job[t].item \in Items /\ job[t].back \in Backs /\ items' \in Seq(Items) /\ "link" \in CallOps
  BY DEF ShapeInv, CallOps
<1>2. CASE job[t].back = "link"
  <2>1. To(t, "link", Blank, "none") /\ ctxLock' = ctxLock
    BY <1>2 DEF Back
  <2>. QED
    BY <1>1, <2>1, ToMoves
<1>3. CASE job[t].back # "link"
  <2> DEFINE j == [op |-> job[t].back]
  <2>1. job' = [job EXCEPT ![t] = j]
    BY <1>3 DEF Back, Turn
  <2>2. j.op = job[t].back /\ j.op \in Resting /\ j.op \notin CallOps
    BY <1>1, <1>3 DEF Backs, Resting, CallOps
  <2>3. Holding(j) <=> job[t].back \in {"batch", "clear"}
    BY <2>2, <1>1, <1>3 DEF Holding, CallOps, Backs
  <2>. HIDE DEF j
  <2>4. Holding(j) => ctxLock = t /\ ctxLock' = ctxLock
    BY <2>3 DEF Holding, ShapeInv
  <2>5. Moved(t, j)
    BY <1>1, <2>1, <2>2, <2>4 DEF Moved
  <2>. QED
    BY <2>5 DEF Moves
<1>. QED
  BY <1>2, <1>3

LEMMA AgainMoves ==
    ASSUME ShapeInv, NEW t \in Threads, job[t].op \in CallOps \cup Resting, Undrawn, Turn(t, Again(t)),
           ctxLock' = ctxLock, items' \in Seq(Items), items' = items \/ ctxLock \in {NoOne, t}
    PROVE  Moves(t)
<1>1. /\ Again(t).op \in Resting /\ Again(t).op \notin CallOps
      /\ Holding(Again(t)) => ctxLock = t
  BY DEF Again, Resting, CallOps, Holding
<1>2. Moved(t, Again(t))
  BY <1>1 DEF Moved, Turn
<1>. QED
  BY <1>2 DEF Moves

LEMMA ItemMoves == ASSUME ShapeInv, NEW t \in Threads, Begins(t) \/ CallStep(t) PROVE Moves(t)
<1>. USE DEF Turn, KeepDraw, drawVars, KeepLists
<1>0. items \in Seq(Items) /\ "idle" \in Backs /\ "batch" \in Backs /\ "link" \in Backs
  BY DEF ShapeInv, Backs
<1>1. CASE fb_batch_start(t)
  <2>1. Moved(t, [op |-> "batch"])
    BY <1>0, <1>1 DEF fb_batch_start, Moved, Undrawn, Resting, CallOps, Holding, Idle
  <2>. QED
    BY <2>1 DEF Moves
<1>2. CASE fb_batch_end(t)
  <2>1. ctxLock = t
    BY <1>2 DEF fb_batch_end, ShapeInv, Holding
  <2>2. Moved(t, Idle)
    BY <1>0, <1>2, <2>1 DEF fb_batch_end, Moved, Undrawn, Resting, CallOps, Holding, Idle
  <2>. QED
    BY <2>2 DEF Moves
<1>3. ASSUME NEW i \in Items, NEW k \in Texts, NEW c \in Colours, fb_text_finalize(t, i, k, c) PROVE Moves(t)
  <2> DEFINE j == Step("render", i, [kind |-> "text", text |-> k, colour |-> c, data |-> NoPixels], "none", "link")
  <2>1. j.op = "render" /\ j.item = i /\ j.back = "link" /\ ~Holding(j)
    BY DEF Step, Holding, CallOps
  <2>2. job' = [job EXCEPT ![t] = j] /\ job[t].op \in Resting /\ Undrawn /\ ctxLock' = ctxLock /\ items' = items
    BY <1>3 DEF fb_text_finalize, Ready, Resting, Undrawn
  <2>. HIDE DEF j
  <2>3. Moved(t, j)
    BY <1>0, <2>1, <2>2 DEF Moved, CallOps
  <2>. QED
    BY <2>3 DEF Moves
<1>4. ASSUME NEW i \in Items, NEW p \in Paths, fb_add_png_img(t, i, p) PROVE Moves(t)
  <2> DEFINE j == Step("get", i, [kind |-> "png", path |-> p], SeenFile(p), "link")
  <2>1. j.op = "get" /\ j.item = i /\ j.back = "link" /\ ~Holding(j)
    BY DEF Step, Holding, CallOps
  <2>2. job' = [job EXCEPT ![t] = j] /\ job[t].op \in Resting /\ Undrawn /\ ctxLock' = ctxLock /\ items' = items
    BY <1>4 DEF fb_add_png_img, Ready, Resting, Undrawn
  <2>. HIDE DEF j
  <2>3. Moved(t, j)
    BY <1>0, <2>1, <2>2 DEF Moved, CallOps
  <2>. QED
    BY <2>3 DEF Moves
<1>5. ASSUME NEW i \in Items, fb_add_rect(t, i) PROVE Moves(t)
  <2> DEFINE j == Step("link", i, Blank, "none", "link")
  <2>1. j.op = "link" /\ j.item = i /\ j.back = "link" /\ ~Holding(j)
    BY DEF Step, Holding, CallOps
  <2>2. job' = [job EXCEPT ![t] = j] /\ job[t].op \in Resting /\ Undrawn /\ ctxLock' = ctxLock /\ items' = items
    BY <1>5 DEF fb_add_rect, Ready, Resting, Undrawn
  <2>. HIDE DEF j
  <2>3. Moved(t, j)
    BY <1>0, <2>1, <2>2 DEF Moved, CallOps
  <2>. QED
    BY <2>3 DEF Moves
<1>6. ASSUME NEW i \in Items, fb_ctx_rm_item(t, i) PROVE Moves(t)
  <2> DEFINE j == Step("destroy", i, Blank, "none", job[t].op)
  <2>1. /\ job' = [job EXCEPT ![t] = j] /\ job[t].op \in {"idle", "batch"} /\ Undrawn /\ ctxLock' = ctxLock
        /\ ctxLock \in {NoOne, t}
    BY <1>6 DEF fb_ctx_rm_item, Ready, Undrawn, fb_items_lock
  <2>2. j.op = "destroy" /\ j.item = i /\ j.back = job[t].op /\ (Holding(j) <=> job[t].op = "batch")
    BY <2>1 DEF Step, Holding, CallOps
  <2>3. Holding(j) => ctxLock = t
    BY <2>2 DEF ShapeInv, Holding
  <2>4. PICK n \in DOMAIN items : items' = RemoveAt(items, n)
    BY <1>6 DEF fb_ctx_rm_item
  <2>5. n \in 1..Len(items)
    BY <1>0
  <2>6. items' \in Seq(Items)
    BY <1>0, <2>4, <2>5, ListsTyped
  <2>. HIDE DEF j
  <2>7. job[t].op \in Resting /\ job[t].op \in Backs
    BY <2>1 DEF Resting, Backs
  <2>8. Moved(t, j)
    BY <2>1, <2>2, <2>3, <2>6, <2>7 DEF Moved, CallOps
  <2>. QED
    BY <2>8 DEF Moves
<1>7. ASSUME NEW i \in Items, NEW k \in Texts, ChangeText(t, i, k) PROVE Moves(t)
  <2> DEFINE j == Step("unlink", i, [img[i] EXCEPT !.text = k], SeenText(img[i].text, img[i].colour), job[t].op)
  <2>1. /\ job' = [job EXCEPT ![t] = j] /\ job[t].op \in {"idle", "batch"} /\ Undrawn /\ ctxLock' = t
        /\ ctxLock \in {NoOne, t} /\ items' = items
    BY <1>7 DEF ChangeText, Changes, Ready, Undrawn, fb_items_lock
  <2>2. j.op = "unlink" /\ j.item = i /\ j.back = job[t].op
    BY <2>1 DEF Step
  <2>. HIDE DEF j
  <2>3. job[t].op \in Resting /\ job[t].op \in Backs
    BY <2>1 DEF Resting, Backs
  <2>4. Moved(t, j)
    BY <1>0, <2>1, <2>2, <2>3 DEF Moved, CallOps
  <2>. QED
    BY <2>4 DEF Moves
<1>8. ASSUME NEW i \in Items, NEW c \in Colours, ChangeColour(t, i, c) PROVE Moves(t)
  <2> DEFINE j == Step("recolour", i, [img[i] EXCEPT !.colour = c], SeenText(img[i].text, img[i].colour), job[t].op)
  <2>1. /\ job' = [job EXCEPT ![t] = j] /\ job[t].op \in {"idle", "batch"} /\ Undrawn /\ ctxLock' = ctxLock
        /\ items' = items
    BY <1>8 DEF ChangeColour, Changes, Ready, Undrawn
  <2>2. j.op = "recolour" /\ j.item = i /\ j.back = job[t].op /\ (Holding(j) <=> job[t].op = "batch")
    BY <2>1 DEF Step, Holding, CallOps
  <2>3. Holding(j) => ctxLock = t
    BY <2>2 DEF ShapeInv, Holding
  <2>. HIDE DEF j
  <2>4. job[t].op \in Resting /\ job[t].op \in Backs
    BY <2>1 DEF Resting, Backs
  <2>5. Moved(t, j)
    BY <1>0, <2>1, <2>2, <2>3, <2>4 DEF Moved, CallOps
  <2>. QED
    BY <2>5 DEF Moves
<1>9. CASE fb_text_render(t)
  <2>1. job[t].op = "render" /\ Undrawn /\ ctxLock' = ctxLock /\ items' = items
    BY <1>9 DEF fb_text_render, Undrawn
  <2>2. \E as, entry : To(t, "use", as, entry) \/ To(t, "store", as, entry)
    BY <1>9, Zenon DEF fb_text_render
  <2>3. job[t].op \in CallOps /\ "use" \in CallOps /\ "store" \in CallOps
    BY <2>1 DEF CallOps
  <2>. QED
    BY <1>0, <2>1, <2>2, <2>3, ToMoves
<1>10. CASE Used(t) \/ Stored(t)
  <2>1. /\ job[t].op \in {"use", "store"} /\ Undrawn /\ items' = items /\ Back(t)
        /\ ctxLock' = IF job[t].back = "idle" THEN NoOne ELSE ctxLock
    BY <1>10 DEF Used, Stored, Finished, Undrawn
  <2>2. job[t].back = "idle" => ctxLock = t
    BY <2>1 DEF ShapeInv, Holding
  <2>3. job[t].op \in CallOps
    BY <2>1 DEF CallOps
  <2>. QED
    BY <2>1, <2>2, <2>3, BackMoves
<1>11. CASE Got(t)
  <2>1. job[t].op = "get" /\ Undrawn /\ ctxLock' = ctxLock /\ items' = items
    BY <1>11 DEF Got, Undrawn
  <2>2. Back(t) \/ Turn(t, Again(t))
    BY <1>11 DEF Got
  <2>3. job[t].op \in CallOps
    BY <2>1 DEF CallOps
  <2>4. CASE Back(t)
    BY <2>1, <2>3, <2>4, BackMoves
  <2>5. CASE Turn(t, Again(t))
    BY <1>0, <2>1, <2>3, <2>5, AgainMoves
  <2>. QED
    BY <2>2, <2>4, <2>5
<1>12. CASE fb_ctx_add_item(t)
  <2>1. /\ job[t].op = "link" /\ Undrawn /\ ctxLock' = ctxLock /\ ctxLock \in {NoOne, t} /\ Turn(t, Again(t))
    BY <1>12 DEF fb_ctx_add_item, Undrawn, fb_items_lock
  <2>2. PICK n \in 1..(Len(items) + 1) : items' = InsertAt(items, n, job[t].item)
    BY <1>12 DEF fb_ctx_add_item
  <2>3. job[t].op \in CallOps /\ job[t].item \in Items
    BY <2>1 DEF CallOps, ShapeInv
  <2>4. items' \in Seq(Items)
    BY <1>0, <2>2, <2>3, ListsTyped
  <2>. QED
    BY <2>1, <2>3, <2>4, AgainMoves
<1>13. CASE Unlinked(t)
  <2>1. /\ job[t].op = "unlink" /\ Undrawn /\ ctxLock' = ctxLock /\ items' = items
        /\ To(t, "render", job[t].as, "none")
    BY <1>13 DEF Unlinked, Undrawn
  <2>2. job[t].op \in CallOps /\ "render" \in CallOps
    BY <2>1 DEF CallOps
  <2>. QED
    BY <1>0, <2>1, <2>2, ToMoves
<1>14. CASE Recoloured(t)
  <2>1. /\ job[t].op = "recolour" /\ Undrawn /\ ctxLock' = ctxLock /\ items' = items
        /\ To(t, "paint", Blank, job[t].entry)
    BY <1>14 DEF Recoloured, Undrawn
  <2>2. job[t].op \in CallOps /\ "paint" \in CallOps
    BY <2>1 DEF CallOps
  <2>. QED
    BY <1>0, <2>1, <2>2, ToMoves
<1>15. CASE Painted(t)
  <2>1. job[t].op = "paint" /\ Undrawn /\ ctxLock' = ctxLock /\ items' = items /\ Back(t)
    BY <1>15 DEF Painted, Undrawn
  <2>2. job[t].op \in CallOps
    BY <2>1 DEF CallOps
  <2>. QED
    BY <2>1, <2>2, BackMoves
<1>16. CASE fb_destroy_item(t)
  <2>1. job[t].op = "destroy" /\ Undrawn /\ ctxLock' = ctxLock /\ items' = items
    BY <1>16 DEF fb_destroy_item, Undrawn
  <2>2. Back(t) \/ \E entry : To(t, "leave", Blank, entry)
    BY <1>16, Zenon DEF fb_destroy_item
  <2>3. job[t].op \in CallOps /\ "leave" \in CallOps
    BY <2>1 DEF CallOps
  <2>4. CASE Back(t)
    BY <2>1, <2>3, <2>4, BackMoves
  <2>5. CASE \E entry : To(t, "leave", Blank, entry)
    BY <1>0, <2>1, <2>3, <2>5, ToMoves
  <2>. QED
    BY <2>2, <2>4, <2>5
<1>17. CASE Left(t)
  <2>1. job[t].op = "leave" /\ Undrawn /\ ctxLock' = ctxLock /\ items' = items /\ Back(t)
    BY <1>17 DEF Left, Undrawn
  <2>2. job[t].op \in CallOps
    BY <2>1 DEF CallOps
  <2>. QED
    BY <2>1, <2>2, BackMoves
<1>. QED
  BY <1>1, <1>2, <1>3, <1>4, <1>5, <1>6, <1>7, <1>8, <1>9, <1>10, <1>11, <1>12, <1>13, <1>14, <1>15,
     <1>16, <1>17, Zenon DEF Begins, CallStep

LEMMA ClearMoves == ASSUME ShapeInv, ClearStep PROVE Moves(Main)
<1>. USE DEF Turn, KeepDraw, drawVars, KeepLists
<1>0. items \in Seq(Items) /\ "clear" \in Backs /\ Main \in Threads
  BY DEF ShapeInv, Backs, Threads
<1>1. CASE fb_clear
  <2>1. Moved(Main, [op |-> "clear"])
    BY <1>0, <1>1 DEF fb_clear, Moved, Undrawn, Resting, CallOps, Holding, Idle
  <2>. QED
    BY <2>1 DEF Moves
<1>2. CASE ClearItem
  <2> DEFINE j == Step("destroy", Head(items), Blank, "none", "clear")
  <2>1. /\ job' = [job EXCEPT ![Main] = j] /\ job[Main].op = "clear" /\ Undrawn /\ ctxLock' = ctxLock
        /\ items # <<>> /\ items' = Tail(items)
    BY <1>2 DEF ClearItem, Undrawn
  <2>2. ctxLock = Main
    BY <1>0, <2>1 DEF ShapeInv, Holding
  <2>3. Head(items) \in Items /\ items' \in Seq(Items)
    BY <1>0, <2>1, ListsTyped
  <2>4. j.op = "destroy" /\ j.item = Head(items) /\ j.back = "clear"
    BY DEF Step
  <2>. HIDE DEF j
  <2>5. Moved(Main, j)
    BY <1>0, <2>1, <2>2, <2>3, <2>4 DEF Moved, Resting, CallOps
  <2>. QED
    BY <2>5 DEF Moves
<1>3. CASE Cleared
  <2> DEFINE j == [op |-> "files", left |-> {p \in Paths : png_cache[p] # Absent}]
  <2>1. /\ job' = [job EXCEPT ![Main] = j] /\ job[Main].op = "clear" /\ Undrawn /\ ctxLock' = NoOne /\ items' = items
    BY <1>3 DEF Cleared, Undrawn
  <2>2. ctxLock = Main
    BY <1>0, <2>1 DEF ShapeInv, Holding
  <2>3. j.op = "files" /\ ~Holding(j)
    BY DEF Holding, CallOps
  <2>. HIDE DEF j
  <2>4. Moved(Main, j)
    BY <1>0, <2>1, <2>2, <2>3 DEF Moved, Resting, CallOps
  <2>. QED
    BY <2>4 DEF Moves
<1>4. CASE FilesDropped \/ (\E p \in Paths : DropFile(p)) \/ (\E k \in Texts : DropText(k)) \/ TextsDropped
  <2> DEFINE Goes == /\ job[Main].op \in {"files", "texts"} /\ Undrawn /\ ctxLock' = ctxLock /\ items' = items
                     /\ \E j : job' = [job EXCEPT ![Main] = j] /\ j.op \in {"files", "texts", "idle"}
  <2>0. ASSUME NEW j, job' = [job EXCEPT ![Main] = j], j.op \in {"files", "texts", "idle"}
        PROVE  \E k : job' = [job EXCEPT ![Main] = k] /\ k.op \in {"files", "texts", "idle"}
    BY <2>0
  <2>1. Goes
    <3>1. CASE FilesDropped
      <4>1. /\ job[Main].op \in {"files", "texts"} /\ Undrawn /\ ctxLock' = ctxLock /\ items' = items
            /\ job' = [job EXCEPT ![Main] = [op |-> "texts", left |-> {k \in Texts : strings[k] # Absent}]]
        BY <3>1 DEF FilesDropped, Undrawn
      <4>2. [op |-> "texts", left |-> {k \in Texts : strings[k] # Absent}].op \in {"files", "texts", "idle"}
        OBVIOUS
      <4>. QED
        BY <2>0, <4>1, <4>2, Zenon
    <3>2. CASE TextsDropped
      BY <3>2 DEF TextsDropped, Undrawn, Idle
    <3>3. ASSUME NEW p \in Paths, DropFile(p) PROVE Goes
      <4>1. /\ job[Main].op \in {"files", "texts"} /\ Undrawn /\ ctxLock' = ctxLock /\ items' = items
            /\ job' = [job EXCEPT ![Main] = [op |-> "files", left |-> job[Main].left \ {p}]]
        BY <3>3 DEF DropFile, Undrawn
      <4>2. [op |-> "files", left |-> job[Main].left \ {p}].op \in {"files", "texts", "idle"}
        OBVIOUS
      <4>. QED
        BY <2>0, <4>1, <4>2, Zenon
    <3>4. ASSUME NEW k \in Texts, DropText(k) PROVE Goes
      <4>1. /\ job[Main].op \in {"files", "texts"} /\ Undrawn /\ ctxLock' = ctxLock /\ items' = items
            /\ job' = [job EXCEPT ![Main] = [op |-> "texts", left |-> job[Main].left \ {k}]]
        BY <3>4 DEF DropText, Undrawn
      <4>2. [op |-> "texts", left |-> job[Main].left \ {k}].op \in {"files", "texts", "idle"}
        OBVIOUS
      <4>. QED
        BY <2>0, <4>1, <4>2, Zenon
    <3>. QED
      BY <1>4, <3>1, <3>2, <3>3, <3>4
  <2>2. PICK j : job' = [job EXCEPT ![Main] = j] /\ j.op \in {"files", "texts", "idle"}
    BY <2>1
  <2>3. ~Holding(j)
    BY <2>2 DEF Holding, CallOps
  <2>4. Moved(Main, j)
    BY <1>0, <2>1, <2>2, <2>3 DEF Moved, Resting, CallOps
  <2>. QED
    BY <2>4 DEF Moves
<1>. QED
  BY <1>1, <1>2, <1>3, <1>4 DEF ClearStep

-----------------------------------------------------------------------------
Outside == {"idle", "tested", "waiting", "freezing", "shot", "closing"}

LEMMA MovesShape == ASSUME ShapeInv, NEW t \in Threads, Moves(t) PROVE ShapeInv'
<1>. PICK j : Moved(t, j)
  BY DEF Moves
<1>1. job' = [u \in Threads |-> job'[u]] /\ \A u \in Threads : job'[u] = IF u = t THEN j ELSE job[u]
  BY DEF ShapeInv, Moved
<1>2. \A u \in Threads : /\ job'[u].op \in CallOps => job'[u].item \in Items /\ job'[u].back \in Backs
  BY <1>1 DEF ShapeInv, Moved
<1>3. \A u \in Threads : Holding(job'[u]) => ctxLock' = u
  <2>. SUFFICES ASSUME NEW u \in Threads, Holding(job'[u]) PROVE ctxLock' = u
    OBVIOUS
  <2>1. CASE u = t
    BY <1>1, <2>1 DEF Moved
  <2>2. CASE u # t
    <3>1. ctxLock = u
      BY <1>1, <2>2 DEF ShapeInv
    <3>. QED
      BY <2>2, <3>1, FramebufferAssumption DEF Moved, Threads
  <2>. QED
    BY <2>1, <2>2
<1>4. pc' = "paint" => ctxLock' = Draw
  BY FramebufferAssumption DEF ShapeInv, Moved, Undrawn, Threads, NoOne, Draw
<1>5. items' \in Seq(Items) /\ inactive_ctx' \in Seq(Seq(Items))
  BY DEF ShapeInv, Moved, Undrawn
<1>. QED
  BY <1>1, <1>2, <1>3, <1>4, <1>5 DEF ShapeInv

\* A call that is not at the items.
LEMMA AskShape ==
    ASSUME ShapeInv, NEW t \in Threads, NEW j, job' = [job EXCEPT ![t] = j], j.op \in Outside,
           items' \in Seq(Items), inactive_ctx' \in Seq(Seq(Items)), ctxLock' = ctxLock,
           pc' = "paint" => pc = "paint"
    PROVE  ShapeInv'
<1>1. job' = [u \in Threads |-> job'[u]] /\ \A u \in Threads : job'[u] = IF u = t THEN j ELSE job[u]
  BY DEF ShapeInv
<1>2. j.op \notin CallOps /\ ~Holding(j)
  BY DEF Outside, CallOps, Holding
<1>. QED
  BY <1>1, <1>2 DEF ShapeInv

LEMMA SameShape ==
    ASSUME ShapeInv, UNCHANGED <<items, inactive_ctx, ctxLock, job>>, pc' = "paint" => pc = "paint"
    PROVE  ShapeInv'
BY DEF ShapeInv

LEMMA ShapeBegins == Init => ShapeInv
<1>. SUFFICES ASSUME Init PROVE ShapeInv
  OBVIOUS
<1>1. <<>> \in Seq(Items) /\ <<>> \in Seq(Seq(Items))
  OBVIOUS
<1>2. job = [t \in Threads |-> Idle]
  BY DEF Init
<1>3. job = [t \in Threads |-> job[t]]
  BY <1>2
<1>4. \A t \in Threads : job[t].op \notin CallOps /\ ~Holding(job[t])
  BY <1>2 DEF Idle, CallOps, Holding
<1>. QED
  BY <1>1, <1>3, <1>4 DEF Init, ShapeInv

LEMMA ShapeKept == ShapeInv /\ [Next]_vars => ShapeInv'
<1>. SUFFICES ASSUME ShapeInv, [Next]_vars PROVE ShapeInv'
  OBVIOUS
<1>. USE DEF Turn, KeepItems, Idle, Outside
<1>0. /\ items \in Seq(Items) /\ inactive_ctx \in Seq(Seq(Items)) /\ Main \in Threads /\ Input \in Threads
      /\ NoOne \notin Threads /\ Draw \notin Threads /\ NoOne # Draw
  BY FramebufferAssumption DEF ShapeInv, Threads, NoOne, Draw
<1>1. ASSUME NEW t \in Threads, ItemCall(t) PROVE ShapeInv'
  <2>1. CASE fb_request_draw(t)
    BY <1>0, <2>1, AskShape DEF fb_request_draw
  <2>2. CASE Requested(t)
    BY <1>0, <2>2, AskShape DEF Requested
  <2>. QED
    BY <1>1, <2>1, <2>2, ItemMoves, MovesShape, Zenon DEF ItemCall, Begins
<1>2. CASE fb_open \/ Opened
  BY <1>2, SameShape DEF fb_open, Opened
<1>3. CASE fb_close \/ Closed
  BY <1>0, <1>3, AskShape DEF fb_close, Closed
<1>4. CASE ClearStep
  BY <1>0, <1>4, ClearMoves, MovesShape
<1>5. CASE fb_push_context
  <2>1. items' \in Seq(Items) /\ inactive_ctx' \in Seq(Seq(Items))
    BY <1>0, <1>5 DEF fb_push_context
  <2>2. UNCHANGED <<ctxLock, job, pc>>
    BY <1>5 DEF fb_push_context, KeepDraw, drawVars
  <2>. QED
    BY <2>1, <2>2 DEF ShapeInv
<1>6. CASE fb_pop_context
  <2>1. inactive_ctx # <<>> /\ items' = Last(inactive_ctx) /\ inactive_ctx' = Front(inactive_ctx)
    BY <1>6 DEF fb_pop_context
  <2>2. items' \in Seq(Items) /\ inactive_ctx' \in Seq(Seq(Items))
    BY <1>0, <2>1, ListsTyped
  <2>3. PICK j \in {Idle, [op |-> "tested"]} : job' = [job EXCEPT ![Main] = j]
    BY <1>6 DEF fb_pop_context
  <2>4. j.op \in Outside /\ UNCHANGED <<ctxLock, pc>>
    BY <1>6 DEF fb_pop_context, KeepDraw, drawVars
  <2>. QED
    BY <1>0, <2>2, <2>3, <2>4, AskShape
<1>7. CASE fb_force_draw \/ fb_freeze \/ Frozen
  BY <1>0, <1>7, AskShape DEF fb_force_draw, fb_freeze, Frozen
<1>8. CASE fb_unfreeze
  BY <1>8, SameShape DEF fb_unfreeze
<1>9. CASE fb_save_screenshot
  BY <1>0, <1>9, AskShape DEF fb_save_screenshot
<1>10. CASE ShotTaken
  <2>1. PICK j \in {Idle, [op |-> "tested"]} : job' = [job EXCEPT ![Input] = j]
    BY <1>10 DEF ShotTaken
  <2>2. j.op \in Outside
    OBVIOUS
  <2>3. UNCHANGED <<items, inactive_ctx, ctxLock, pc>>
    BY <1>10 DEF ShotTaken
  <2>. QED
    BY <1>0, <2>1, <2>2, <2>3, AskShape
<1>11. CASE DrawThread
  <2>1. CASE DrawTaken \/ DrawItem \/ DrawThreadEnd
    BY <2>1, SameShape DEF DrawTaken, DrawItem, DrawThreadEnd, KeepThreads
  <2>2. CASE DrawBegin
    <3>1. /\ ctxLock = NoOne /\ ctxLock' = Draw /\ UNCHANGED <<items, inactive_ctx, job>>
      BY <2>2 DEF DrawBegin, KeepThreads
    <3>. QED
      BY <1>0, <3>1 DEF ShapeInv
  <2>3. CASE DrawEnd
    <3>1. /\ pc = "paint" /\ pc' = "update" /\ UNCHANGED <<items, inactive_ctx, job>>
      BY <2>3 DEF DrawEnd, KeepThreads
    <3>. QED
      BY <1>0, <3>1 DEF ShapeInv
  <2>4. CASE DrawShown
    <3>1. /\ job' = [t \in Threads |-> IF job[t].op = "waiting" THEN Idle ELSE job[t]] /\ pc' = "check"
          /\ UNCHANGED <<items, inactive_ctx, ctxLock>>
      BY <2>4 DEF DrawShown, KeepThreads
    <3>2. /\ job' = [t \in Threads |-> job'[t]]
          /\ \A t \in Threads : job'[t].op \in CallOps => job'[t] = job[t]
          /\ \A t \in Threads : Holding(job'[t]) => job'[t] = job[t]
      BY <3>1 DEF CallOps, Holding
    <3>. QED
      BY <3>1, <3>2 DEF ShapeInv
  <2>. QED
    BY <1>11, <2>1, <2>2, <2>3, <2>4 DEF DrawThread
<1>12. CASE Vsync \/ UNCHANGED vars
  BY <1>12, SameShape DEF Vsync, vars, drawVars
<1>. QED
  BY <1>1, <1>2, <1>3, <1>4, <1>5, <1>6, <1>7, <1>8, <1>9, <1>10, <1>11, <1>12, Zenon DEF Next, MainCall, ClearStep

-----------------------------------------------------------------------------
\* What fb_freeze counts on: fb_draw_mutex is the draw thread's from the taken request to
\* the shown frame, the input thread's during a screenshot, and a request there is, or a
\* draw under way, in a freeze has a reason.
Drawing == pc \in {"begin", "paint", "update"}

FreezeInv ==
    /\ Drawing => drawLock = Draw
    /\ job[Input].op = "shot" => drawLock = Input
    /\ frozen /\ job[Main].op # "freezing" /\ (requested \/ Drawing) => why \in {"late", "force"}

LEMMA FreezeBegins == Init => FreezeInv
BY FramebufferAssumption DEF Init, FreezeInv, Drawing, Idle, Threads

\* A call about items or contexts.
LEMMA ItemsFreeze ==
    ASSUME FreezeInv, ShapeInv, UNCHANGED <<drawLock, requested, frozen, pc, why>>,
           NEW t \in Threads, NEW j, job' = [job EXCEPT ![t] = j],
           job[t].op \notin {"freezing", "shot"}, j.op \notin {"freezing", "shot"}
    PROVE  FreezeInv'
<1>1. job' = [u \in Threads |-> job'[u]]
  BY DEF ShapeInv
<1>2. \A u \in Threads : job'[u] = IF u = t THEN j ELSE job[u]
  BY DEF ShapeInv
<1>3. Drawing' = Drawing
  BY DEF Drawing
<1>. QED
  BY <1>1, <1>2, <1>3, FramebufferAssumption DEF FreezeInv, Threads

LEMMA SameFreeze ==
    ASSUME FreezeInv, UNCHANGED <<drawLock, requested, frozen, pc, why, job>>
    PROVE  FreezeInv'
BY DEF FreezeInv, Drawing

LEMMA MovesFreeze == ASSUME FreezeInv, ShapeInv, NEW t \in Threads, Moves(t) PROVE FreezeInv'
<1>. PICK j : Moved(t, j)
  BY DEF Moves
<1>1. job[t].op \notin {"freezing", "shot"} /\ j.op \notin {"freezing", "shot"}
  BY DEF Moved, CallOps, Resting
<1>. QED
  BY <1>1, ItemsFreeze DEF Moved, Undrawn

LEMMA ItemCallFreezes == ASSUME FreezeInv, ShapeInv, NEW t \in Threads, ItemCall(t) PROVE FreezeInv'
<1>. USE DEF Turn, KeepItems, Idle
<1>1. CASE Begins(t) \/ CallStep(t)
  BY <1>1, ItemMoves, MovesFreeze
<1>11. CASE fb_request_draw(t)
  <2>1. job[t].op = "idle" /\ job' = [job EXCEPT ![t] = [op |-> "tested"]]
    BY <1>11 DEF fb_request_draw
  <2>2. UNCHANGED <<drawLock, requested, frozen, pc, why>>
    BY <1>11 DEF fb_request_draw
  <2>. QED
    BY <2>1, <2>2, ItemsFreeze
<1>12. CASE Requested(t)
  <2>1. /\ \A u \in Threads : job'[u] = IF u = t THEN Idle ELSE job[u]
        /\ job' = [u \in Threads |-> job'[u]]
    BY <1>12 DEF Requested, ShapeInv
  <2>2. pc' = pc /\ Drawing' = Drawing /\ frozen' = frozen /\ drawLock' = drawLock
    BY <1>12 DEF Requested, Drawing
  <2>3. requested' /\ why' = IF requested THEN why ELSE IF frozen THEN "late" ELSE "open"
    BY <1>12 DEF Requested, Request
  <2>4. job[t].op = "tested"
    BY <1>12 DEF Requested
  <2>5. frozen' /\ job'[Main].op # "freezing" => why' \in {"late", "force"}
    BY <2>1, <2>2, <2>3, <2>4 DEF FreezeInv, Threads
  <2>. QED
    BY <2>1, <2>2, <2>4, <2>5, FramebufferAssumption DEF FreezeInv, Threads
<1>. QED
  BY <1>1, <1>11, <1>12, Zenon DEF ItemCall, Begins

\* The draw thread: it keeps fb_draw_mutex while it draws.
LEMMA DrawThreadFreezes == ASSUME FreezeInv, ShapeInv, DrawThread PROVE FreezeInv'
<1>. USE DEF FreezeInv, Drawing, KeepThreads, bufferVars
<1>1. CASE DrawTaken
  BY <1>1, FramebufferAssumption DEF DrawTaken
<1>2. CASE DrawBegin
  BY <1>2 DEF DrawBegin
<1>3. CASE DrawItem
  BY <1>3 DEF DrawItem
<1>4. CASE DrawEnd
  BY <1>4 DEF DrawEnd
<1>5. CASE DrawShown
  <2>1. /\ job' = [t \in Threads |-> IF job[t].op = "waiting" THEN Idle ELSE job[t]]
        /\ pc = "update" /\ pc' = "check" /\ drawLock = Draw
        /\ UNCHANGED <<frozen, requested, why>>
    BY <1>5 DEF DrawShown
  <2>3. /\ job'[Main].op = "freezing" <=> job[Main].op = "freezing"
        /\ job'[Input].op = "shot" <=> job[Input].op = "shot"
    BY <2>1 DEF Idle, Threads
  <2>4. job[Input].op # "shot"
    BY <2>1, FramebufferAssumption
  <2>. QED
    BY <2>1, <2>3, <2>4
<1>6. CASE DrawThreadEnd
  BY <1>6 DEF DrawThreadEnd
<1>. QED
  BY <1>1, <1>2, <1>3, <1>4, <1>5, <1>6 DEF DrawThread

\* Main's calls: a freeze is asked for first, and takes a request back once nothing is drawn.
LEMMA MainFreezes == ASSUME FreezeInv, ShapeInv, MainCall PROVE FreezeInv'
<1>. USE DEF Turn, KeepItems, Idle, Threads
<1>0. job = [t \in Threads |-> job[t]]
  BY DEF ShapeInv
<1>1. CASE fb_open \/ Opened
  BY <1>1 DEF fb_open, Opened, FreezeInv, Drawing
<1>2. CASE fb_close
  <2>1. job[Main].op = "idle" /\ job' = [job EXCEPT ![Main] = [op |-> "closing"]]
        /\ UNCHANGED <<drawLock, requested, frozen, pc, why>>
    BY <1>2 DEF fb_close
  <2>. QED
    BY <2>1, ItemsFreeze
<1>3. CASE Closed
  <2>1. job' = [job EXCEPT ![Main] = Idle] /\ pc' = "none" /\ UNCHANGED <<drawLock, requested, frozen, why>> /\ pc = "ended"
        /\ job[Main].op = "closing"
    BY <1>3 DEF Closed
  <2>. QED
    BY <1>0, <2>1, FramebufferAssumption DEF FreezeInv, Drawing
<1>4. CASE ClearStep
  BY <1>4, ClearMoves, MovesFreeze
<1>8. CASE fb_push_context
  BY <1>8, SameFreeze DEF fb_push_context, KeepDraw, drawVars
<1>9. CASE fb_pop_context
  <2>1. job[Main].op = "idle" /\ UNCHANGED <<drawLock, requested, frozen, pc, why>>
    BY <1>9 DEF fb_pop_context, Quiet, KeepDraw, drawVars
  <2>2. \/ job' = [job EXCEPT ![Main] = Idle]
        \/ job' = [job EXCEPT ![Main] = [op |-> "tested"]]
    BY <1>9 DEF fb_pop_context
  <2>. QED
    BY <2>1, <2>2, ItemsFreeze
<1>10. CASE fb_force_draw
  <2>1. job[Main].op = "idle" /\ job' = [job EXCEPT ![Main] = [op |-> "waiting"]] /\ drawLock = NoOne
    BY <1>10 DEF fb_force_draw
  <2>2. UNCHANGED <<drawLock, frozen, pc>> /\ requested' /\ why' = (IF requested THEN why ELSE "force")
    BY <1>10 DEF fb_force_draw, Request
  <2>3. ~Drawing /\ ~Drawing'
    BY <2>1, <2>2, FramebufferAssumption DEF FreezeInv, Drawing, NoOne, Draw
  <2>. QED
    BY <1>0, <2>1, <2>2, <2>3, FramebufferAssumption DEF FreezeInv
<1>11. CASE fb_freeze
  <2>1. job[Main].op = "idle" /\ job' = [job EXCEPT ![Main] = [op |-> "freezing"]]
        /\ UNCHANGED <<drawLock, requested, pc, why>>
    BY <1>11 DEF fb_freeze
  <2>. QED
    BY <1>0, <2>1, FramebufferAssumption DEF FreezeInv, Drawing
<1>12. CASE Frozen
  <2>1. job[Main].op = "freezing" /\ job' = [job EXCEPT ![Main] = Idle] /\ drawLock = NoOne /\ ~requested'
        /\ UNCHANGED <<drawLock, frozen, pc>>
    BY <1>12 DEF Frozen
  <2>2. ~Drawing /\ ~Drawing'
    BY <2>1, FramebufferAssumption DEF FreezeInv, Drawing, NoOne, Draw
  <2>. QED
    BY <1>0, <2>1, <2>2, FramebufferAssumption DEF FreezeInv
<1>13. CASE fb_unfreeze
  BY <1>13 DEF fb_unfreeze, FreezeInv, Drawing
<1>. QED
  BY <1>1, <1>2, <1>3, <1>4, <1>8, <1>9, <1>10, <1>11, <1>12, <1>13, Zenon DEF MainCall, ClearStep

LEMMA FreezeKept == FreezeInv /\ ShapeInv /\ [Next]_vars => FreezeInv'
<1>. SUFFICES ASSUME FreezeInv, ShapeInv, [Next]_vars PROVE FreezeInv'
  OBVIOUS
<1>0. job = [t \in Threads |-> job[t]]
  BY DEF ShapeInv
<1>1. CASE fb_save_screenshot
  <2>1. job[Input].op = "idle" /\ job' = [job EXCEPT ![Input] = [op |-> "shot"]] /\ drawLock = NoOne /\ drawLock' = Input
        /\ UNCHANGED <<requested, frozen, pc, why>>
    BY <1>1 DEF fb_save_screenshot, Turn, Idle
  <2>. QED
    BY <1>0, <2>1, FramebufferAssumption DEF FreezeInv, Drawing, Threads, NoOne, Draw
<1>2. CASE ShotTaken
  <2>1. /\ job[Input].op = "shot" /\ drawLock' = NoOne
        /\ UNCHANGED <<requested, frozen, pc, why>>
    BY <1>2 DEF ShotTaken
  <2>2. PICK j \in {Idle, [op |-> "tested"]} : job' = [job EXCEPT ![Input] = j]
    BY <1>2 DEF ShotTaken, Turn
  <2>3. j.op # "shot" /\ j.op # "freezing"
    BY DEF Idle
  <2>4. job'[Input] = j /\ job'[Main] = job[Main]
    BY <1>0, <2>2, FramebufferAssumption DEF Threads
  <2>5. ~Drawing /\ ~Drawing'
    BY <2>1, FramebufferAssumption DEF FreezeInv, Drawing
  <2>. QED
    BY <2>1, <2>3, <2>4, <2>5 DEF FreezeInv
<1>3. CASE Vsync
  BY <1>3, SameFreeze DEF Vsync, drawVars
<1>4. CASE UNCHANGED vars
  BY <1>4, SameFreeze DEF vars, drawVars
<1>. QED
  BY <1>1, <1>2, <1>3, <1>4, DrawThreadFreezes, MainFreezes, ItemCallFreezes DEF Next

\* Once fb_freeze is back, nothing is drawn until fb_freeze(0) but what was forced, or asked
\* for by a call that had looked at fb_frozen before, for any items and contexts.
THEOREM FreezeAlwaysHolds == Spec => []FreezeHolds
<1>1. FreezeInv => FreezeHolds
  <2>. SUFFICES ASSUME FreezeInv, frozen, job[Main].op # "freezing", pc \in {"begin", "paint", "update"}
                PROVE  why \in {"late", "force"}
    BY DEF FreezeHolds
  <2>. QED
    BY DEF FreezeInv, Drawing
<1>. QED
  BY <1>1, FreezeBegins, FreezeKept, ShapeBegins, ShapeKept, PTL DEF Spec

-----------------------------------------------------------------------------
\* What the draw thread counts on while it goes through the list: fb_ctx.mutex is its own
\* then, and what it has drawn is what it has passed.
PictureInv ==
    /\ requested \in BOOLEAN
    /\ pc = "paint" => /\ it \in 1..(Len(items) + 1)
                       /\ canvas = SubSeq(items, 1, it - 1)
    /\ pc \notin {"paint", "update"} => canvas = <<>>

LEMMA PictureBegins == Init => PictureInv
BY DEF Init, PictureInv

Pictured == PictureInv' /\ [Promise!Next]_(Promise!screenVars)

\* A step that leaves the draw thread where it is, and a list that is being drawn.
LEMMA ListPictured ==
    ASSUME PictureInv, UNCHANGED <<requested, pc, it, canvas>>, items' \in Seq(Items),
           pc = "paint" => items' = items
    PROVE  Pictured
<1>1. PictureInv'
  BY DEF PictureInv
<1>2. CASE pc = "paint"
  BY <1>1, <1>2 DEF Promise!screenVars, Pictured
<1>3. CASE pc # "paint"
  <2>1. Promise!Change
    BY <1>3 DEF Promise!Change
  <2>. QED
    BY <1>1, <2>1 DEF Promise!Next, Pictured
<1>. QED
  BY <1>2, <1>3

\* A step that touches neither the list nor the draw thread's own.
LEMMA AskPictured ==
    ASSUME PictureInv, UNCHANGED <<items, pc, it, canvas>>, requested' \in BOOLEAN
    PROVE  Pictured
<1>1. PictureInv'
  BY DEF PictureInv
<1>2. Promise!Ask \/ Promise!Withdraw
  BY DEF Promise!Ask, Promise!Withdraw
<1>. QED
  BY <1>1, <1>2 DEF Promise!Next, Pictured

LEMMA MovesPictured == ASSUME PictureInv, ShapeInv, NEW t \in Threads, Moves(t) PROVE Pictured
<1>. PICK j : Moved(t, j)
  BY DEF Moves
<1>1. pc = "paint" => items' = items
  BY FramebufferAssumption DEF Moved, ShapeInv, Threads, NoOne, Draw
<1>. QED
  BY <1>1, ListPictured DEF Moved, Undrawn

LEMMA MainCallPictured == ASSUME PictureInv, ShapeInv, MainCall PROVE Pictured
<1>. USE DEF KeepItems
<1>0. /\ items \in Seq(Items) /\ inactive_ctx \in Seq(Seq(Items)) /\ requested \in BOOLEAN
      /\ Main \in Threads /\ NoOne # Draw
  BY DEF PictureInv, ShapeInv, Threads, NoOne, Draw
<1>1. CASE fb_open \/ Opened \/ Closed
  <2>1. /\ UNCHANGED <<items, requested, it, canvas>>
        /\ pc \notin {"begin", "paint", "update"} /\ pc' \notin {"begin", "paint", "update"}
    BY <1>1 DEF fb_open, Opened, Closed
  <2>. QED
    BY <2>1 DEF PictureInv, Pictured, Promise!screenVars
<1>2. CASE fb_close \/ fb_freeze \/ fb_unfreeze
  BY <1>0, <1>2, AskPictured DEF fb_close, fb_freeze, fb_unfreeze
<1>3. CASE ClearStep
  BY <1>0, <1>3, ClearMoves, MovesPictured
<1>4. CASE fb_push_context
  <2>1. UNCHANGED <<requested, pc, it, canvas>> /\ ctxLock = NoOne /\ items' = <<>>
    BY <1>4 DEF fb_push_context, KeepDraw, drawVars
  <2>2. items' \in Seq(Items) /\ pc # "paint"
    BY <1>0, <2>1 DEF ShapeInv
  <2>. QED
    BY <2>1, <2>2, ListPictured
<1>5. CASE fb_pop_context
  <2>1. UNCHANGED <<requested, pc, it, canvas>> /\ ctxLock = NoOne /\ inactive_ctx # <<>> /\ items' = Last(inactive_ctx)
    BY <1>5 DEF fb_pop_context, KeepDraw, drawVars
  <2>2. items' \in Seq(Items)
    BY <1>0, <2>1, ListsTyped
  <2>3. pc # "paint"
    BY <1>0, <2>1 DEF ShapeInv
  <2>. QED
    BY <2>1, <2>2, <2>3, ListPictured
<1>6. CASE fb_force_draw \/ Frozen
  BY <1>6, AskPictured DEF fb_force_draw, Request, Frozen
<1>. QED
  BY <1>1, <1>2, <1>3, <1>4, <1>5, <1>6, Zenon DEF MainCall, ClearStep

LEMMA DrawPictured == ASSUME PictureInv, ShapeInv, DrawThread PROVE Pictured
<1>. USE DEF KeepThreads
<1>1. CASE DrawTaken
  <2>1. Promise!Take /\ PictureInv'
    BY <1>1 DEF DrawTaken, Promise!Take, PictureInv
  <2>. QED
    BY <2>1 DEF Promise!Next, Pictured
<1>2. CASE DrawBegin
  <2>1. PictureInv'
    <3>1. pc = "begin" /\ it' = 1 /\ pc' = "paint" /\ UNCHANGED <<items, requested, canvas>>
      BY <1>2 DEF DrawBegin
    <3>2. canvas = <<>> /\ SubSeq(items, 1, 0) = <<>> /\ 1 \in 1..(Len(items) + 1)
      BY <3>1 DEF PictureInv, ShapeInv
    <3>. QED
      BY <3>1, <3>2 DEF PictureInv
  <2>2. Promise!Capture
    BY <1>2 DEF DrawBegin, Promise!Capture
  <2>. QED
    BY <2>1, <2>2 DEF Promise!Next, Pictured
<1>3. CASE DrawItem
  <2>1. /\ pc = "paint" /\ it <= Len(items) /\ canvas' = Append(canvas, items[it]) /\ it' = it + 1
        /\ UNCHANGED <<items, requested, pc>>
    BY <1>3 DEF DrawItem
  <2>2. /\ items \in Seq(Items) /\ it \in 1..Len(items) /\ canvas = SubSeq(items, 1, it - 1)
    BY <2>1 DEF PictureInv, ShapeInv
  <2>3. Append(SubSeq(items, 1, it - 1), items[it]) = SubSeq(items, 1, it)
    BY <2>2
  <2>4. canvas' = SubSeq(items', 1, it' - 1) /\ it' \in 1..(Len(items') + 1)
    BY <2>1, <2>2, <2>3
  <2>5. PictureInv'
    BY <2>1, <2>4 DEF PictureInv
  <2>6. UNCHANGED Promise!screenVars
    BY <2>1 DEF Promise!screenVars
  <2>. QED
    BY <2>5, <2>6 DEF Pictured
<1>4. CASE DrawEnd
  <2>1. pc = "paint" /\ it > Len(items) /\ pc' = "update" /\ UNCHANGED <<items, requested, it, canvas>>
    BY <1>4 DEF DrawEnd
  <2>2. items \in Seq(Items) /\ it = Len(items) + 1 /\ canvas = SubSeq(items, 1, it - 1)
    BY <2>1 DEF PictureInv, ShapeInv
  <2>3. canvas = items
    BY <2>2
  <2>5. PictureInv'
    BY <2>1 DEF PictureInv
  <2>6. UNCHANGED Promise!screenVars
    BY <2>1, <2>3 DEF Promise!screenVars
  <2>. QED
    BY <2>5, <2>6 DEF Pictured
<1>5. CASE DrawShown
  <2>1. pc = "update" /\ pc' = "check" /\ canvas' = <<>> /\ UNCHANGED <<items, requested>>
    BY <1>5 DEF DrawShown
  <2>3. PictureInv'
    BY <2>1 DEF PictureInv
  <2>4. Promise!Show
    BY <2>1 DEF Promise!Show
  <2>. QED
    BY <2>3, <2>4 DEF Promise!Next, Pictured
<1>6. CASE DrawThreadEnd
  BY <1>6 DEF DrawThreadEnd, PictureInv, Pictured, Promise!screenVars
<1>. QED
  BY <1>1, <1>2, <1>3, <1>4, <1>5, <1>6 DEF DrawThread

LEMMA StepPictured == PictureInv /\ ShapeInv /\ [Next]_vars => Pictured
<1>. SUFFICES ASSUME PictureInv, ShapeInv, [Next]_vars PROVE Pictured
  OBVIOUS
<1>. USE DEF KeepItems
<1>0. requested \in BOOLEAN
  BY DEF PictureInv
<1>1. ASSUME NEW t \in Threads, ItemCall(t) PROVE Pictured
  <2>1. CASE fb_request_draw(t) \/ Requested(t)
    BY <1>0, <2>1, AskPictured DEF fb_request_draw, Requested, Request
  <2>. QED
    BY <1>1, <2>1, ItemMoves, MovesPictured, Zenon DEF ItemCall, Begins
<1>2. CASE fb_save_screenshot \/ ShotTaken
  BY <1>0, <1>2, AskPictured DEF fb_save_screenshot, ShotTaken
<1>3. CASE Vsync \/ UNCHANGED vars
  BY <1>0, <1>3, AskPictured DEF Vsync, vars, drawVars
<1>. QED
  BY <1>1, <1>2, <1>3, DrawPictured, MainCallPictured DEF Next


\* The draw thread and the other threads' calls do what the rest of the program is promised,
\* whatever the items and however the calls meet: every frame is the list as it was at one
\* moment after the request was taken.
THEOREM DrawsWhatIsListed == Spec => ShowsTheList
<1>1. Init => Promise!Init
  BY DEF Init, Promise!Init
<1>2. PictureInv /\ ShapeInv /\ [Next]_vars => PictureInv' /\ [Promise!Next]_(Promise!screenVars)
  BY StepPictured DEF Pictured
<1>. QED
  BY <1>1, <1>2, PictureBegins, ShapeBegins, ShapeKept, PTL DEF Spec, ShowsTheList, Promise!Spec

-----------------------------------------------------------------------------
\* Where each back end writes next, and what the display shows meanwhile.
BufferInv ==
    /\ BuffersTypeOK
    /\ impl \in {"generic", "drm"} \/ (impl = "fbdev" /\ DoubleBuffered) => active \in {0, 1}
    /\ impl # "drm" => flip = NoFlip
    /\ impl = "drm" => /\ flip = NoFlip => front \in {1 - active, NoneOfOurs}
                       /\ flip # NoFlip => flip = 1 - active
    /\ ~astray => /\ impl = "generic" \/ (impl = "fbdev" /\ DoubleBuffered) => yoffset = active
                  /\ impl = "qcom_overlay" => front # active

\* A back end leaves it so when it opens, whichever does.
LEMMA OpenKeepsBuffers ==
    ASSUME BufferInv, NEW forced \in BOOLEAN, fb_open_impl(forced) PROVE BufferInv'
<1>t. BuffersTypeOK
  BY DEF BufferInv
<1>1. PICK i \in 1..Len(Built) :
        CASE Built[i] = "qcom_overlay" -> qcom_open
          [] Built[i] = "drm" -> drm_init
          [] Built[i] = "fbdev" -> fbdev_init
          [] Built[i] = "generic" -> generic_open
  BY DEF fb_open_impl
<1>2. qcom_open \/ drm_init \/ fbdev_init \/ generic_open
  <2>1. Built[i] \in {"qcom_overlay", "drm", "fbdev", "generic"}
    BY <1>1, BuiltAssumption
  <2>2. CASE Built[i] = "qcom_overlay"
    BY <1>1, <2>2
  <2>3. CASE Built[i] = "drm"
    BY <1>1, <2>3
  <2>4. CASE Built[i] = "fbdev"
    BY <1>1, <2>4
  <2>5. CASE Built[i] = "generic"
    BY <1>1, <2>5
  <2>. QED
    BY <2>1, <2>2, <2>3, <2>4, <2>5
<1>3. flip' = NoFlip
  BY DEF fb_open_impl
<1>4. CASE qcom_open
  <2>1. impl' = "qcom_overlay" /\ active' = 0 /\ front' = 3 /\ yoffset' = yoffset
    BY <1>4 DEF qcom_open, NoneOfOurs
  <2>2. astray' \in BOOLEAN
    BY <1>4, Zenon DEF qcom_open
  <2>t. BuffersTypeOK'
    BY <1>t, <1>3, <2>1, <2>2 DEF BuffersTypeOK, Impls, Buffers, NoFlip, NoneOfOurs
  <2>. QED
    BY <1>t, <2>t, <1>3, <2>1, <2>2 DEF BufferInv, BuffersTypeOK, Impls, Buffers, NoFlip, NoneOfOurs
<1>5. CASE drm_init
  <2>1. impl' = "drm" /\ active' = 0 /\ front' \in {1, 3} /\ yoffset' = yoffset
    BY <1>5 DEF drm_init, NoneOfOurs
  <2>2. astray' \in BOOLEAN
    BY <1>5, Zenon DEF drm_init
  <2>t. BuffersTypeOK'
    BY <1>t, <1>3, <2>1, <2>2 DEF BuffersTypeOK, Impls, Buffers, NoFlip, NoneOfOurs
  <2>. QED
    BY <1>t, <2>t, <1>3, <2>1, <2>2 DEF BufferInv, BuffersTypeOK, Impls, Buffers, NoFlip, NoneOfOurs
<1>6. CASE generic_open
  <2>1. impl' = "generic" /\ active' = 0 /\ front' = front /\ astray' = (yoffset # 0) /\ yoffset' = yoffset
    BY <1>6 DEF generic_open
  <2>t. BuffersTypeOK'
    BY <1>t, <1>3, <2>1 DEF BuffersTypeOK, Impls, Buffers, NoFlip, NoneOfOurs
  <2>. QED
    BY <1>t, <2>t, <1>3, <2>1 DEF BufferInv, BuffersTypeOK, Impls, Buffers, NoFlip, NoneOfOurs
<1>7. CASE fbdev_init
  <2>1. PICK ok \in BOOLEAN : impl' = "fbdev" /\ set_displayed_framebuffer(0, ok) /\ front' = front
    BY <1>7 DEF fbdev_init
  <2>2. CASE DoubleBuffered
    <3>1. active' = 0 /\ yoffset' \in (IF ok THEN {0} ELSE {yoffset, 0}) /\ astray' = ~ok
      BY <2>1, <2>2 DEF set_displayed_framebuffer
    <3>t. BuffersTypeOK'
      BY <1>t, <1>3, <2>1, <3>1 DEF BuffersTypeOK, Impls, Buffers, NoFlip, NoneOfOurs
    <3>. QED
      BY <1>t, <3>t, <1>3, <2>1, <3>1 DEF BufferInv, BuffersTypeOK, Impls, Buffers, NoFlip, NoneOfOurs
  <2>3. CASE ~DoubleBuffered
    <3>1. UNCHANGED <<active, yoffset, astray>>
      BY <2>1, <2>3 DEF set_displayed_framebuffer
    <3>t. BuffersTypeOK'
      BY <1>t, <1>3, <2>1, <3>1 DEF BuffersTypeOK, Impls, Buffers, NoFlip, NoneOfOurs
    <3>. QED
      BY <1>t, <3>t, <1>3, <2>1, <2>3, <3>1 DEF BufferInv, NoFlip, NoneOfOurs
  <2>. QED
    BY <2>2, <2>3
<1>. QED
  BY <1>2, <1>4, <1>5, <1>6, <1>7

\* A frame keeps it, whatever the driver answers.
LEMMA UpdateKeepsBuffers == BufferInv /\ fb_update => BufferInv'
<1>. SUFFICES ASSUME BufferInv, fb_update PROVE BufferInv'
  OBVIOUS
<1>t. BuffersTypeOK
  BY DEF BufferInv
<1>. PICK ok \in BOOLEAN : fbdev_flip(ok) \/ generic_update(ok) \/ drm_update(ok) \/ qcom_update(ok)
  BY DEF fb_update
<1>0. impl' = impl
  BY DEF fb_update
<1>1. CASE generic_update(ok)
  <2>1. impl = "generic" /\ active \in {0, 1} /\ Target = 1 - active
    BY <1>1 DEF BufferInv, generic_update, Target, NumBuffers
  <2>2. active' = 1 - active /\ yoffset' = (IF ok THEN 1 - active ELSE yoffset) /\ UNCHANGED <<front, flip>>
    BY <1>1, <2>1 DEF generic_update
  <2>3. astray' \in BOOLEAN /\ (~astray' => ok)
    BY <1>1, Zenon DEF generic_update
  <2>t. BuffersTypeOK'
    <3>1. 1 - active \in {0, 1} /\ yoffset' \in {0, 1}
      BY <1>t, <2>1, <2>2 DEF BuffersTypeOK
    <3>. QED
      BY <1>t, <1>0, <2>1, <2>2, <2>3, <3>1 DEF BuffersTypeOK, Impls, Buffers, NoFlip, NoneOfOurs
  <2>. QED
    BY <1>t, <2>t, <1>0, <2>1, <2>2, <2>3 DEF BufferInv, BuffersTypeOK, Impls, Buffers, NoFlip, NoneOfOurs
<1>2. CASE fbdev_flip(ok)
  <2>1. impl = "fbdev" /\ set_displayed_framebuffer(Target, ok) /\ UNCHANGED <<front, flip>>
    BY <1>2 DEF fbdev_flip
  <2>2. CASE DoubleBuffered
    <3>1. active \in {0, 1} /\ Target = 1 - active
      BY <2>1, <2>2 DEF BufferInv, Target, NumBuffers
    <3>2. active' = 1 - active /\ yoffset' \in (IF ok THEN {1 - active} ELSE {yoffset, 1 - active})
      BY <2>1, <2>2, <3>1 DEF set_displayed_framebuffer
    <3>3. astray' \in BOOLEAN /\ (~astray' => ok)
      BY <2>1, <2>2, Zenon DEF set_displayed_framebuffer
    <3>t. BuffersTypeOK'
      BY <1>t, <1>0, <2>1, <2>2, <3>1, <3>2, <3>3 DEF BuffersTypeOK, Impls, Buffers, NoFlip, NoneOfOurs
    <3>. QED
      BY <1>t, <3>t, <1>0, <2>1, <2>2, <3>1, <3>2, <3>3 DEF BufferInv, BuffersTypeOK, Impls, Buffers, NoFlip, NoneOfOurs
  <2>3. CASE ~DoubleBuffered
    <3>1. UNCHANGED <<active, yoffset, astray>>
      BY <2>1, <2>3 DEF set_displayed_framebuffer
    <3>t. BuffersTypeOK'
      BY <1>t, <1>0, <2>1, <2>3, <3>1 DEF BuffersTypeOK, Impls, Buffers, NoFlip, NoneOfOurs
    <3>. QED
      BY <1>t, <3>t, <1>0, <2>1, <2>3, <3>1 DEF BufferInv, BuffersTypeOK, Impls, Buffers, NoFlip, NoneOfOurs
  <2>. QED
    BY <2>2, <2>3
<1>3. CASE drm_update(ok)
  <2>1. /\ impl = "drm" /\ active \in {0, 1} /\ (ok => flip = NoFlip) /\ UNCHANGED <<yoffset, front, astray>>
        /\ flip' = (IF ok THEN active ELSE flip) /\ active' = IF ok THEN 1 - active ELSE active
    BY <1>3 DEF BufferInv, drm_update
  <2>t. BuffersTypeOK'
    BY <1>t, <1>0, <2>1 DEF BuffersTypeOK, Impls, Buffers, NoFlip, NoneOfOurs
  <2>. QED
    BY <1>t, <2>t, <1>0, <2>1 DEF BufferInv, BuffersTypeOK, Impls, Buffers, NoFlip, NoneOfOurs
<1>4. CASE qcom_update(ok)
  <2>1. /\ impl = "qcom_overlay" /\ active' = (IF ok THEN (active + 1) % 3 ELSE active)
        /\ front' \in (IF ok THEN {active} ELSE {front, active}) /\ astray' = ~ok /\ UNCHANGED <<yoffset, flip>>
    BY <1>4 DEF qcom_update, NumBuffers
  <2>2. active \in 0..2 /\ (active + 1) % 3 \in 0..2 /\ (active + 1) % 3 # active
    BY DEF BufferInv, BuffersTypeOK, Buffers
  <2>t. BuffersTypeOK'
    BY <1>t, <1>0, <2>1, <2>2 DEF BuffersTypeOK, Impls, Buffers, NoFlip, NoneOfOurs
  <2>. QED
    BY <1>t, <2>t, <1>0, <2>1, <2>2 DEF BufferInv, BuffersTypeOK, Impls, Buffers, NoFlip, NoneOfOurs
<1>. QED
  BY <1>1, <1>2, <1>3, <1>4

LEMMA StepKeepsBufferInv == BufferInv /\ ShapeInv /\ [Next]_vars => BufferInv'
<1>. SUFFICES ASSUME BufferInv, ShapeInv, [Next]_vars PROVE BufferInv'
  OBVIOUS
<1>. USE DEF KeepItems
<1>0. Main \in Threads
  BY DEF Threads
<1>1. ASSUME UNCHANGED bufferVars PROVE BufferInv'
  BY <1>1 DEF bufferVars, BufferInv, BuffersTypeOK
<1>2. ASSUME NEW t \in Threads, Moves(t) PROVE BufferInv'
  BY <1>1, <1>2 DEF Moves, Moved, Undrawn
<1>3. ASSUME NEW t \in Threads, ItemCall(t) PROVE BufferInv'
  <2>1. CASE fb_request_draw(t) \/ Requested(t)
    BY <1>1, <2>1 DEF fb_request_draw, Requested
  <2>. QED
    BY <1>2, <1>3, <2>1, ItemMoves, Zenon DEF ItemCall, Begins
<1>4. CASE fb_open
  BY <1>4, OpenKeepsBuffers DEF fb_open
<1>5. CASE Opened
  BY <1>5, UpdateKeepsBuffers DEF Opened
<1>6. CASE Closed
  BY <1>6 DEF Closed, close_impl, BufferInv, BuffersTypeOK, NoFlip
<1>7. CASE ClearStep
  BY <1>0, <1>2, <1>7, ClearMoves
<1>8. CASE fb_close \/ fb_push_context \/ fb_pop_context \/ fb_force_draw \/ fb_freeze \/ Frozen \/ fb_unfreeze
  BY <1>1, <1>8 DEF fb_close, fb_push_context, fb_pop_context, fb_force_draw, fb_freeze, Frozen, fb_unfreeze, KeepDraw
<1>9. CASE MainCall
  BY <1>4, <1>5, <1>6, <1>7, <1>8, <1>9, Zenon DEF MainCall, ClearStep
<1>10. CASE fb_save_screenshot
  BY <1>1, <1>10 DEF fb_save_screenshot
<1>11. CASE ShotTaken
  BY <1>1, <1>11, UpdateKeepsBuffers DEF ShotTaken
<1>12. CASE DrawThread
  BY <1>1, <1>12, UpdateKeepsBuffers DEF DrawThread, DrawTaken, DrawBegin, DrawItem, DrawEnd,
     DrawShown, DrawThreadEnd
<1>13. CASE Vsync
  <2>1. flip # NoFlip /\ front' = flip /\ flip' = NoFlip /\ UNCHANGED <<impl, active, yoffset, astray>>
    BY <1>13 DEF Vsync, VerticalBlank
  <2>. QED
    BY <2>1 DEF BufferInv, BuffersTypeOK, NoFlip, Buffers
<1>14. CASE UNCHANGED vars
  BY <1>1, <1>14 DEF vars
<1>. QED
  BY <1>3, <1>9, <1>10, <1>11, <1>12, <1>13, <1>14 DEF Next

LEMMA BuffersBegin == Init => BufferInv
<1>. SUFFICES ASSUME Init PROVE BufferInv
  OBVIOUS
<1>1. impl = "none" /\ active = 0 /\ yoffset \in 0..1 /\ front = 3 /\ flip = 3
  BY DEF Init, BuffersInit, NoFlip, NoneOfOurs
<1>2. astray \in BOOLEAN
  BY Zenon DEF Init, BuffersInit
<1>3. BuffersTypeOK
  BY <1>1, <1>2 DEF BuffersTypeOK, Impls, Buffers, NoFlip, NoneOfOurs
<1>. QED
  BY <1>1, <1>3 DEF BufferInv, NoFlip, NoneOfOurs

\* No frame is copied into the memory the display shows, whichever back ends the build has,
\* whichever screen of fb0 somebody left shown, and whatever frames, refusals, flashes and
\* blanks come between, but from a request the driver has not carried out, or an opening
\* that took the wrong screen for the shown one, to the next request that is: get_frame_dest,
\* drm_update, fbdev_flip and qcom's update take turns with the buffers.
THEOREM CopiesOffScreen == Spec => []CopyOffScreen
<1>1. BufferInv => CopyOffScreen
  BY DEF BufferInv, BuffersTypeOK, CopyOffScreen, Target, Shown, NumBuffers, Impls, Buffers, NoFlip, NoneOfOurs
<1>. QED
  BY <1>1, BuffersBegin, StepKeepsBufferInv, ShapeBegins, ShapeKept, PTL DEF Spec

-----------------------------------------------------------------------------
\* The pictures' types, whatever has happened to the caches.
Keeps == StringsEntry \cup {Absent}
Files == [refcnt : Int] \cup {Absent}

PicTyped ==
    /\ img \in [Items -> Shows] /\ strings \in [Texts -> Keeps] /\ png_cache \in [Paths -> Files]
    /\ alive \subseteq Pixels /\ IsFiniteSet(alive) /\ apart \in BOOLEAN

Entries(s) == {k \in Texts : s[k] # Absent}

LEMMA PicturesTyped == PicturesTypeOK <=> PicTyped /\ raced \subseteq {"png", "strings"}
BY DEF PicturesTypeOK, PicTyped, Keeps, Files

LEMMA ItemTyped ==
    ASSUME PicTyped, NEW i \in Items
    PROVE  /\ img[i] \in Shows
           /\ img[i].kind = "text" <=> img[i] \in TextItem
           /\ img[i].kind = "png" <=> img[i] \in PngItem
           /\ img[i].kind = "none" <=> img[i] = NoItem
           /\ img[i].kind = "blank" <=> img[i] = Blank
<1>1. img[i] \in Shows
  BY DEF PicTyped
<1>. QED
  BY <1>1 DEF Shows, TextItem, PngItem, PlainItem, NoItem, Blank

LEMMA Kinds ==
    /\ NoItem.kind = "none" /\ Blank.kind = "blank" /\ NoItem \in Shows /\ Blank \in Shows
    /\ \A r \in TextItem : r.kind = "text" /\ r \in Shows
    /\ \A r \in PngItem : r.kind = "png" /\ r \in Shows
    /\ \A r \in PlainItem : r.kind = "plain" /\ r \in Shows
BY DEF NoItem, Blank, TextItem, PngItem, PlainItem, Shows

LEMMA KeepsTyped ==
    ASSUME NEW s \in [Texts -> Keeps] PROVE \A l \in Entries(s) : l \in Texts /\ s[l] \in StringsEntry
BY DEF Entries, Keeps

LEMMA NotAbsent == /\ \A e \in StringsEntry : e # Absent
                   /\ \A n : [refcnt |-> n] # Absent
                   /\ \A d, c, n : [data |-> d, colour |-> c, refcnt |-> n] # Absent
BY DEF StringsEntry, Absent

\* There is always other memory.
LEMMA Room ==
    ASSUME NEW used \in SUBSET Pixels, IsFiniteSet(used)
    PROVE  malloc(used) \in Pixels /\ malloc(used) # NoPixels /\ malloc(used) \notin used
<1>. PICK n \in Nat : n = Cardinality(used)
  BY FS_CardinalityType
<1>1. IsFiniteSet(1..(n + 1)) /\ Cardinality(1..(n + 1)) = n + 1
  <2>1. n + 1 \in Int /\ ~(1 > n + 1) /\ (n + 1) - 1 + 1 = n + 1
    OBVIOUS
  <2>2. IsFiniteSet(1..(n + 1)) /\ Cardinality(1..(n + 1)) = (n + 1) - 1 + 1
    BY <2>1, FS_Interval
  <2>. QED
    BY <2>1, <2>2
<1>2. ~(1..(n + 1) \subseteq used)
  <2>1. 1..(n + 1) \subseteq used => Cardinality(1..(n + 1)) <= n
    BY FS_Subset
  <2>. QED
    BY <1>1, <2>1
<1>3. \E d \in 1..(n + 1) : d \notin used
  BY <1>2
<1>4. malloc(used) \in 1..(n + 1) /\ malloc(used) \notin used
  BY <1>3 DEF malloc
<1>. QED
  BY <1>4 DEF Pixels, NoPixels

LEMMA Histories == \A f, s : Apart(f, s) \in BOOLEAN /\ (~Apart(f, s) => ~apart)
BY DEF Apart

LEMMA CountedTyped ==
    ASSUME PicTyped, NEW k \in Texts, NEW n \in {1, -1}
    PROVE  Counted(k, n) \in [Texts -> Keeps]
<1>1. CASE strings[k] = Absent
  BY <1>1 DEF Counted, PicTyped
<1>2. CASE strings[k] # Absent
  <2>1. strings[k] \in StringsEntry
    BY <1>2 DEF PicTyped, Keeps
  <2>2. [strings[k] EXCEPT !.refcnt = @ + n] \in StringsEntry
    BY <2>1 DEF StringsEntry
  <2>3. Counted(k, n) = [strings EXCEPT ![k].refcnt = @ + n]
    BY <1>2 DEF Counted
  <2>. QED
    BY <2>2, <2>3 DEF PicTyped, Keeps
<1>. QED
  BY <1>1, <1>2

LEMMA PutTyped ==
    ASSUME PicTyped, NEW i \in Items, NEW r \in Shows
    PROVE  [img EXCEPT ![i] = r] \in [Items -> Shows]
BY DEF PicTyped

LEMMA MoreAlive ==
    ASSUME PicTyped
    PROVE  /\ malloc(alive) \in Pixels /\ malloc(alive) \notin alive
           /\ alive \cup {malloc(alive)} \subseteq Pixels /\ IsFiniteSet(alive \cup {malloc(alive)})
           /\ \A d : alive \ {d} \subseteq Pixels /\ IsFiniteSet(alive \ {d})
<1>1. alive \subseteq Pixels /\ IsFiniteSet(alive)
  BY DEF PicTyped
<1>2. malloc(alive) \in Pixels /\ malloc(alive) \notin alive
  BY <1>1, Room
<1>. QED
  BY <1>1, <1>2, FS_AddElement, FS_RemoveElement

\* Each operation on the pictures keeps the types.
LEMMA ShareTyped ==
    ASSUME PicTyped, NEW i \in Items, NEW shown \in TextItem, ShareText(i, shown) PROVE PicTyped'
<1>1. shown \in Shows /\ shown.text \in Texts
  BY Kinds DEF TextItem
<1>2. /\ img' = [img EXCEPT ![i] = shown] /\ strings' = Counted(shown.text, 1) /\ apart' = Apart(img', strings')
      /\ UNCHANGED <<png_cache, alive>>
  BY DEF ShareText
<1>3. img' \in [Items -> Shows] /\ strings' \in [Texts -> Keeps]
  BY <1>1, <1>2, PutTyped, CountedTyped
<1>4. apart' \in BOOLEAN
  BY <1>2, Histories
<1>. QED
  BY <1>2, <1>3, <1>4 DEF PicTyped

LEMMA Recast ==
    ASSUME NEW r \in TextItem
    PROVE  /\ \A d \in Pixels : [r EXCEPT !.data = d] \in TextItem
           /\ \A c \in Colours : [r EXCEPT !.colour = c] \in TextItem
           /\ \A k \in Texts : [r EXCEPT !.text = k] \in TextItem
BY DEF TextItem

LEMMA RenderTyped ==
    ASSUME PicTyped, NEW i \in Items, NEW shown \in TextItem, RenderText(i, shown)
    PROVE  PicTyped' /\ img'[i].kind = "text"
<1>1. [shown EXCEPT !.data = malloc(alive)] \in TextItem
  BY MoreAlive, Recast
<1>. PICK r : r = [shown EXCEPT !.data = malloc(alive)]
  OBVIOUS
<1>2. /\ img' = [img EXCEPT ![i] = r] /\ alive' = alive \cup {malloc(alive)}
      /\ apart' = Apart(img', strings) /\ UNCHANGED <<strings, png_cache>>
  BY DEF RenderText
<1>3. r \in Shows /\ r.kind = "text"
  BY <1>1, Kinds
<1>4. img' \in [Items -> Shows] /\ img'[i] = r
  BY <1>2, <1>3 DEF PicTyped
<1>5. apart' \in BOOLEAN
  BY <1>2, Histories
<1>6. alive' \subseteq Pixels /\ IsFiniteSet(alive')
  BY <1>2, MoreAlive
<1>. QED
  BY <1>2, <1>3, <1>4, <1>5, <1>6 DEF PicTyped

LEMMA AddTyped ==
    ASSUME PicTyped, NEW i \in Items, img[i] \in TextItem, add_to_strings(i) PROVE PicTyped'
<1> DEFINE e == [data |-> img[i].data, colour |-> img[i].colour, refcnt |-> 1]
<1>1. e \in StringsEntry /\ img[i].text \in Texts
  BY DEF StringsEntry, TextItem
<1>2. /\ strings' = [strings EXCEPT ![img[i].text] = IF @ # Absent THEN @ ELSE e]
      /\ apart' = Apart(img, strings') /\ UNCHANGED <<img, png_cache, alive>>
  BY DEF add_to_strings
<1>. HIDE DEF e
<1>3. strings' \in [Texts -> Keeps]
  BY <1>1, <1>2 DEF PicTyped, Keeps
<1>4. apart' \in BOOLEAN
  BY <1>2, Histories
<1>. QED
  BY <1>2, <1>3, <1>4 DEF PicTyped

LEMMA LeaveTyped ==
    ASSUME PicTyped, NEW i \in Items, img[i] \in TextItem, NEW seen, NEW left \in {NoItem, Blank},
           LeaveText(i, seen, left)
    PROVE  PicTyped'
<1>1. img[i].text \in Texts /\ left \in Shows
  BY Kinds DEF TextItem
<1>2. /\ img' = [img EXCEPT ![i] = left] /\ UNCHANGED <<png_cache, apart>>
      /\ strings' = strings \/ strings' = Counted(img[i].text, -1)
      /\ alive' = alive \/ alive' = alive \ {img[i].data}
  BY DEF LeaveText
<1>3. img' \in [Items -> Shows] /\ strings' \in [Texts -> Keeps]
  BY <1>1, <1>2, PutTyped, CountedTyped DEF PicTyped
<1>4. alive' \subseteq Pixels /\ IsFiniteSet(alive')
  BY <1>2, MoreAlive DEF PicTyped
<1>. QED
  BY <1>2, <1>3, <1>4 DEF PicTyped

LEMMA ColourTyped ==
    ASSUME PicTyped, NEW i \in Items, img[i] \in TextItem, NEW c \in Colours, NEW seen \in Seen,
           fb_text_set_color(i, c, seen)
    PROVE  PicTyped' /\ img'[i].kind = "text"
<1>. PICK k \in Texts : k = img[i].text
  BY DEF TextItem
<1>. PICK r \in TextItem : r = [img[i] EXCEPT !.colour = c]
  BY Recast
<1>1. /\ img' = [img EXCEPT ![i] = r] /\ img' \in [Items -> Shows] /\ img'[i] = r /\ UNCHANGED <<png_cache, alive>>
  BY Kinds DEF fb_text_set_color, PicTyped
<1>2. strings' \in [Texts -> Keeps]
  <2>1. strings' = CASE seen = "none" \/ strings[k] = Absent -> strings
                     [] seen = "alone" /\ strings[k] # Absent -> [strings EXCEPT ![k].colour = c]
                     [] seen = "shared" /\ strings[k] # Absent -> Counted(k, -1)
    BY DEF fb_text_set_color
  <2>2. CASE seen = "none" \/ strings[k] = Absent
    BY <2>1, <2>2 DEF PicTyped
  <2>3. CASE seen = "alone" /\ strings[k] # Absent
    <3>1. strings[k] \in StringsEntry
      BY <2>3 DEF PicTyped, Keeps
    <3>2. [strings[k] EXCEPT !.colour = c] \in StringsEntry
      BY <3>1 DEF StringsEntry
    <3>3. strings' = [strings EXCEPT ![k].colour = c]
      BY <2>1, <2>3
    <3>. QED
      BY <3>2, <3>3 DEF PicTyped, Keeps
  <2>4. CASE seen = "shared" /\ strings[k] # Absent
    BY <2>1, <2>4, CountedTyped
  <2>. QED
    BY <2>2, <2>3, <2>4 DEF Seen
<1>3. apart' \in BOOLEAN
  BY Zenon DEF fb_text_set_color
<1>. QED
  BY <1>1, <1>2, <1>3, Kinds DEF PicTyped

LEMMA RepaintTyped ==
    ASSUME PicTyped, NEW i \in Items, img[i] \in TextItem, NEW seen, RepaintText(i, seen)
    PROVE  PicTyped' /\ img'[i].kind = "text"
<1>. PICK d : d = IF seen = "shared" THEN malloc(alive) ELSE img[i].data
  OBVIOUS
<1>0. d \in Pixels
  BY MoreAlive DEF TextItem
<1>. PICK r \in TextItem : r = [img[i] EXCEPT !.data = d]
  BY <1>0, Recast
<1>1. /\ img' = [img EXCEPT ![i] = r] /\ img' \in [Items -> Shows] /\ img'[i] = r
      /\ UNCHANGED <<strings, png_cache, apart>>
  BY Kinds DEF RepaintText, PicTyped
<1>2. alive' \subseteq Pixels /\ IsFiniteSet(alive')
  BY MoreAlive DEF RepaintText, PicTyped
<1>. QED
  BY <1>1, <1>2, Kinds DEF PicTyped

LEMMA DropTyped ==
    ASSUME PicTyped, \/ \E k \in Texts : drop_strings_cache(k)
                     \/ \E p \in Paths : fb_png_drop_unused(p)
    PROVE  PicTyped'
<1>1. ASSUME NEW k \in Texts, drop_strings_cache(k) PROVE PicTyped'
  <2>1. strings' \in [Texts -> Keeps]
    BY <1>1 DEF drop_strings_cache, PicTyped, Keeps
  <2>2. alive' \subseteq Pixels /\ IsFiniteSet(alive')
    BY <1>1, MoreAlive DEF drop_strings_cache, PicTyped
  <2>. QED
    BY <1>1, <2>1, <2>2 DEF drop_strings_cache, PicTyped
<1>2. ASSUME NEW p \in Paths, fb_png_drop_unused(p) PROVE PicTyped'
  BY <1>2 DEF fb_png_drop_unused, PicTyped, Files
<1>. QED
  BY <1>1, <1>2

LEMMA FileTyped ==
    ASSUME PicTyped, NEW i \in Items, NEW seen,
           \/ \E shown \in PngItem : fb_png_get(i, shown, seen)
           \/ img[i] \in PngItem /\ fb_png_release(i, seen)
    PROVE  PicTyped'
<1>1. ASSUME NEW shown \in PngItem, fb_png_get(i, shown, seen) PROVE PicTyped'
  <2>1. shown \in Shows /\ shown.path \in Paths
    BY Kinds DEF PngItem
  <2>. PICK e : e = IF seen = "none" /\ png_cache[shown.path] = Absent THEN [refcnt |-> 1]
                    ELSE IF seen # "none" /\ png_cache[shown.path] # Absent
                         THEN [refcnt |-> png_cache[shown.path].refcnt + 1]
                    ELSE png_cache[shown.path]
    OBVIOUS
  <2>2. e \in Files
    BY <2>1 DEF PicTyped, Files
  <2>3. png_cache' = [png_cache EXCEPT ![shown.path] = e]
    BY <1>1 DEF fb_png_get
  <2>4. png_cache' \in [Paths -> Files] /\ img' \in [Items -> Shows]
    BY <1>1, <2>1, <2>2, <2>3, PutTyped DEF PicTyped, fb_png_get
  <2>. QED
    BY <1>1, <2>4 DEF fb_png_get, PicTyped
<1>2. ASSUME img[i] \in PngItem, fb_png_release(i, seen) PROVE PicTyped'
  <2>. PICK p \in Paths : p = img[i].path
    BY <1>2 DEF PngItem
  <2>. PICK e : e = IF seen = "none" \/ png_cache[p] = Absent THEN png_cache[p]
                    ELSE [refcnt |-> png_cache[p].refcnt - 1]
    OBVIOUS
  <2>2. e \in Files
    BY DEF PicTyped, Files
  <2>3. png_cache' = [png_cache EXCEPT ![p] = e]
    BY <1>2 DEF fb_png_release
  <2>4. png_cache' \in [Paths -> Files] /\ img' \in [Items -> Shows]
    BY <1>2, <2>2, <2>3, Kinds, PutTyped DEF PicTyped, fb_png_release
  <2>. QED
    BY <1>2, <2>4 DEF fb_png_release, PicTyped
<1>. QED
  BY <1>1, <1>2

LEMMA PlainTyped ==
    ASSUME PicTyped, NEW i \in Items, NEW shown \in Shows, show_plain(i, shown) PROVE PicTyped'
BY PutTyped DEF show_plain, PicTyped

LEMMA SamePictures == ASSUME PicTyped, UNCHANGED <<img, strings, png_cache, alive, apart>> PROVE PicTyped'
BY DEF PicTyped

-----------------------------------------------------------------------------
\* Lists without repetition.
Once(s) == \A m, n \in DOMAIN s : s[m] = s[n] => m = n

LEMMA Joined ==
    ASSUME NEW S, NEW x \in Seq(S), NEW y \in Seq(S), NEW r, r = x \o y
    PROVE  /\ r \in Seq(S)
           /\ DOMAIN r = 1..(Len(x) + Len(y))
           /\ \A m \in 1..Len(x) : r[m] = x[m]
           /\ \A m \in Int : Len(x) < m /\ m <= Len(x) + Len(y) => r[m] = y[m - Len(x)]
<1>. PICK p \in Nat, q \in Nat : p = Len(x) /\ q = Len(y)
  OBVIOUS
<1>1. r \in Seq(S) /\ Len(r) = p + q /\ \A i \in 1..(p + q) : r[i] = IF i <= p THEN x[i] ELSE y[i - p]
  BY ConcatProperties
<1>2. DOMAIN r = 1..(p + q)
  BY <1>1
<1>. QED
  BY <1>1, <1>2

LEMMA Cut ==
    ASSUME NEW S, NEW s \in Seq(S), NEW n \in 1..(Len(s) + 1)
    PROVE  /\ SubSeq(s, 1, n - 1) \in Seq(S) /\ Len(SubSeq(s, 1, n - 1)) = n - 1
           /\ \A m \in 1..(n - 1) : SubSeq(s, 1, n - 1)[m] = s[m]
           /\ SubSeq(s, n, Len(s)) \in Seq(S) /\ Len(SubSeq(s, n, Len(s))) = Len(s) - n + 1
           /\ \A m \in n..Len(s) : SubSeq(s, n, Len(s))[m - n + 1] = s[m]
<1>. PICK l \in Nat : l = Len(s)
  OBVIOUS
<1>. PICK x, y : x = SubSeq(s, 1, n - 1) /\ y = SubSeq(s, n, Len(s))
  OBVIOUS
<1>0. \A m \in 1..l : s[m] \in S
  OBVIOUS
<1>1. x \in Seq(S) /\ Len(x) = (IF 1 <= n - 1 THEN n - 1 - 1 + 1 ELSE 0) /\ \A m \in 1..(n - 1 - 1 + 1) : x[m] = s[1 + m - 1]
  BY <1>0, SubSeqProperties
<1>2. y \in Seq(S) /\ Len(y) = (IF n <= l THEN l - n + 1 ELSE 0) /\ \A m \in 1..(l - n + 1) : y[m] = s[n + m - 1]
  BY <1>0, SubSeqProperties
<1>3. ASSUME NEW m \in 1..(n - 1) PROVE x[m] = s[m]
  <2>1. m \in 1..(n - 1 - 1 + 1) /\ 1 + m - 1 = m
    OBVIOUS
  <2>. QED
    BY <1>1, <2>1
<1>4. ASSUME NEW m \in n..l PROVE y[m - n + 1] = s[m]
  <2>1. m - n + 1 \in 1..(l - n + 1) /\ n + (m - n + 1) - 1 = m
    OBVIOUS
  <2>. QED
    BY <1>2, <2>1
<1>5. Len(x) = n - 1 /\ Len(y) = l - n + 1
  BY <1>1, <1>2
<1>. QED
  BY <1>1, <1>2, <1>3, <1>4, <1>5

\* A list with one item taken out, or one put in.
LEMMA Removed ==
    ASSUME NEW S, NEW s \in Seq(S), NEW n \in 1..Len(s), NEW r, r = RemoveAt(s, n)
    PROVE  /\ r \in Seq(S) /\ DOMAIN r = 1..(Len(s) - 1)
           /\ \A m \in 1..(n - 1) : r[m] = s[m]
           /\ \A m \in n..(Len(s) - 1) : r[m] = s[m + 1]
<1>. PICK l \in Nat, p \in 1..(Len(s) + 1) : l = Len(s) /\ p = n + 1
  OBVIOUS
<1>x. PICK x, y : x = SubSeq(s, 1, n - 1) /\ y = SubSeq(s, p, Len(s))
  OBVIOUS
<1>1. x \in Seq(S) /\ Len(x) = n - 1 /\ \A m \in 1..(n - 1) : x[m] = s[m]
  BY <1>x, Cut
<1>2. y \in Seq(S) /\ Len(y) = l - p + 1 /\ \A m \in p..l : y[m - p + 1] = s[m]
  BY <1>x, Cut
<1>3. r = x \o y
  BY <1>x DEF RemoveAt
<1>4. /\ r \in Seq(S) /\ DOMAIN r = 1..(n - 1 + (l - p + 1)) /\ \A m \in 1..(n - 1) : r[m] = x[m]
      /\ \A m \in Int : n - 1 < m /\ m <= n - 1 + (l - p + 1) => r[m] = y[m - (n - 1)]
  <2>1. /\ r \in Seq(S) /\ DOMAIN r = 1..(Len(x) + Len(y)) /\ \A m \in 1..Len(x) : r[m] = x[m]
        /\ \A m \in Int : Len(x) < m /\ m <= Len(x) + Len(y) => r[m] = y[m - Len(x)]
    <3>1. x \in Seq(S) /\ y \in Seq(S)
      BY <1>1, <1>2
    <3>. QED
      BY <1>3, <3>1, Joined
  <2>. QED
    BY <1>1, <1>2, <2>1
<1>5. n - 1 + (l - p + 1) = l - 1
  OBVIOUS
<1>6. ASSUME NEW m \in n..(l - 1) PROVE r[m] = s[m + 1]
  <2>1. m + 1 \in p..l /\ (m + 1) - p + 1 = m - (n - 1) /\ m \in Int /\ n - 1 < m /\ m <= l - 1
    OBVIOUS
  <2>2. r[m] = y[m - (n - 1)]
    BY <1>4, <1>5, <2>1
  <2>3. y[(m + 1) - p + 1] = s[m + 1]
    BY <1>2, <2>1
  <2>. QED
    BY <2>1, <2>2, <2>3
<1>. QED
  BY <1>1, <1>4, <1>5, <1>6

LEMMA Inserted ==
    ASSUME NEW S, NEW s \in Seq(S), NEW n \in 1..(Len(s) + 1), NEW e \in S, NEW r, r = InsertAt(s, n, e)
    PROVE  /\ r \in Seq(S) /\ DOMAIN r = 1..(Len(s) + 1) /\ r[n] = e
           /\ \A m \in 1..(n - 1) : r[m] = s[m]
           /\ \A m \in n..Len(s) : r[m + 1] = s[m]
<1>. PICK l \in Nat : l = Len(s)
  OBVIOUS
<1>x. PICK x, y, z : x = SubSeq(s, 1, n - 1) /\ y = SubSeq(s, n, Len(s)) /\ z = x \o <<e>>
  OBVIOUS
<1>1. x \in Seq(S) /\ Len(x) = n - 1 /\ \A m \in 1..(n - 1) : x[m] = s[m]
  BY <1>x, Cut
<1>2. y \in Seq(S) /\ Len(y) = l - n + 1 /\ \A m \in n..l : y[m - n + 1] = s[m]
  BY <1>x, Cut
<1>3. /\ z \in Seq(S) /\ DOMAIN z = 1..(n - 1 + 1) /\ \A m \in 1..(n - 1) : z[m] = x[m]
      /\ z[n] = e
  <2>1. <<e>> \in Seq(S) /\ Len(<<e>>) = 1 /\ <<e>>[1] = e
    OBVIOUS
  <2>2. /\ z \in Seq(S) /\ DOMAIN z = 1..(n - 1 + 1) /\ \A m \in 1..(n - 1) : z[m] = x[m]
        /\ \A m \in Int : n - 1 < m /\ m <= n - 1 + 1 => z[m] = <<e>>[m - (n - 1)]
    BY <1>x, <1>1, <2>1, Joined
  <2>3. n \in Int /\ n - 1 < n /\ n <= n - 1 + 1 /\ n - (n - 1) = 1
    OBVIOUS
  <2>. QED
    BY <2>1, <2>2, <2>3
<1>4. Len(z) = n
  BY <1>3
<1>5. r = z \o y
  BY <1>x DEF InsertAt
<1>6. /\ r \in Seq(S) /\ DOMAIN r = 1..(n + (l - n + 1)) /\ \A m \in 1..n : r[m] = z[m]
      /\ \A m \in Int : n < m /\ m <= n + (l - n + 1) => r[m] = y[m - n]
  <2>1. /\ r \in Seq(S) /\ DOMAIN r = 1..(Len(z) + Len(y)) /\ \A m \in 1..Len(z) : r[m] = z[m]
        /\ \A m \in Int : Len(z) < m /\ m <= Len(z) + Len(y) => r[m] = y[m - Len(z)]
    <3>1. z \in Seq(S) /\ y \in Seq(S)
      BY <1>2, <1>3
    <3>. QED
      BY <1>5, <3>1, Joined
  <2>. QED
    BY <1>2, <1>4, <2>1
<1>7. n + (l - n + 1) = l + 1
  OBVIOUS
<1>8. ASSUME NEW m \in n..l PROVE r[m + 1] = s[m]
  <2>1. m + 1 \in Int /\ n < m + 1 /\ m + 1 <= l + 1 /\ (m + 1) - n = m - n + 1
    OBVIOUS
  <2>2. r[m + 1] = y[(m + 1) - n]
    BY <1>6, <1>7, <2>1
  <2>3. y[m - n + 1] = s[m]
    BY <1>2
  <2>. QED
    BY <2>1, <2>2, <2>3
<1>. QED
  BY <1>1, <1>3, <1>6, <1>7, <1>8

LEMMA Ranges ==
    ASSUME NEW S, NEW s \in Seq(S), Once(s)
    PROVE  /\ \A n \in DOMAIN s : Once(RemoveAt(s, n)) /\ Range(RemoveAt(s, n)) = Range(s) \ {s[n]}
           /\ \A n \in 1..(Len(s) + 1), e \in S : e \notin Range(s) =>
                 Once(InsertAt(s, n, e)) /\ Range(InsertAt(s, n, e)) = Range(s) \cup {e}
           /\ s # <<>> => /\ Once(Tail(s)) /\ Range(Tail(s)) = Range(s) \ {Head(s)}
                          /\ Head(s) \in Range(s) /\ Head(s) \in S
<1>0. DOMAIN s = 1..Len(s) /\ Len(s) \in Nat /\ \A n \in DOMAIN s : s[n] \in S
  OBVIOUS
<1>1. ASSUME NEW n \in DOMAIN s PROVE Once(RemoveAt(s, n)) /\ Range(RemoveAt(s, n)) = Range(s) \ {s[n]}
  <2>. PICK r : r = RemoveAt(s, n)
    OBVIOUS
  <2>1. /\ DOMAIN r = 1..(Len(s) - 1)
        /\ \A m \in 1..(n - 1) : r[m] = s[m]
        /\ \A m \in n..(Len(s) - 1) : r[m] = s[m + 1]
    BY <1>0, Removed
  <2>2. Once(r)
    <3>. SUFFICES ASSUME NEW m \in DOMAIN r, NEW o \in DOMAIN r, r[m] = r[o] PROVE m = o
      BY DEF Once
    <3>1. \A l \in DOMAIN r : l \in Int /\ (l < n => l \in DOMAIN s /\ r[l] = s[l])
                             /\ (l >= n => l + 1 \in DOMAIN s /\ r[l] = s[l + 1])
      BY <1>0, <2>1
    <3>. QED
      BY <1>0, <3>1 DEF Once
  <2>3. Range(r) \subseteq Range(s) \ {s[n]}
    BY <1>0, <2>1 DEF Once, Range
  <2>4. ASSUME NEW m \in DOMAIN s, m # n PROVE s[m] \in Range(r)
    <3>1. CASE m < n
      <4>1. m \in DOMAIN r /\ r[m] = s[m]
        BY <1>0, <2>1, <3>1
      <4>. QED
        BY <4>1 DEF Range
    <3>2. CASE m > n
      <4>1. m - 1 \in DOMAIN r /\ r[m - 1] = s[m]
        BY <1>0, <2>1, <3>2
      <4>. QED
        BY <4>1 DEF Range
    <3>. QED
      BY <1>0, <2>4, <3>1, <3>2
  <2>5. Range(s) \ {s[n]} \subseteq Range(r)
    BY <2>4 DEF Range
  <2>. QED
    BY <2>2, <2>3, <2>5
<1>2. ASSUME NEW n \in 1..(Len(s) + 1), NEW e \in S, e \notin Range(s)
      PROVE  Once(InsertAt(s, n, e)) /\ Range(InsertAt(s, n, e)) = Range(s) \cup {e}
  <2>. PICK r : r = InsertAt(s, n, e)
    OBVIOUS
  <2>1. /\ DOMAIN r = 1..(Len(s) + 1)
        /\ \A m \in 1..(n - 1) : r[m] = s[m]
        /\ r[n] = e
        /\ \A m \in n..Len(s) : r[m + 1] = s[m]
    <3>1. r \in Seq(S) /\ DOMAIN r = 1..(Len(s) + 1) /\ r[n] = e
      BY Inserted
    <3>2. \A m \in 1..(n - 1) : r[m] = s[m]
      BY Inserted
    <3>3. \A m \in n..Len(s) : r[m + 1] = s[m]
      BY Inserted
    <3>. QED
      BY <3>1, <3>2, <3>3
  <2>2. \A m \in DOMAIN s : s[m] # e
    BY <1>2 DEF Range
  <2>3. Once(r)
    <3>. SUFFICES ASSUME NEW m \in DOMAIN r, NEW o \in DOMAIN r, r[m] = r[o] PROVE m = o
      BY DEF Once
    <3>1. \A l \in DOMAIN r : l \in Int /\ (l < n => l \in DOMAIN s /\ r[l] = s[l])
                             /\ (l = n => r[l] = e)
                             /\ (l > n => l - 1 \in DOMAIN s /\ r[l] = s[l - 1])
      <4>. SUFFICES ASSUME NEW l \in DOMAIN r, l > n PROVE r[l] = s[l - 1]
        BY <1>0, <2>1
      <4>1. l - 1 \in n..Len(s) /\ (l - 1) + 1 = l
        BY <1>0, <2>1
      <4>. QED
        BY <2>1, <4>1
    <3>. QED
      BY <1>0, <2>2, <3>1 DEF Once
  <2>4. Range(r) \subseteq Range(s) \cup {e}
    <3>. SUFFICES ASSUME NEW l \in DOMAIN r PROVE r[l] = e \/ \E m \in DOMAIN s : r[l] = s[m]
      BY DEF Range
    <3>1. l \in Int /\ 1 <= l /\ l <= Len(s) + 1
      BY <1>0, <2>1
    <3>2. CASE l < n
      BY <1>0, <2>1, <3>1, <3>2
    <3>3. CASE l > n
      <4>1. l - 1 \in n..Len(s) /\ l - 1 \in DOMAIN s /\ (l - 1) + 1 = l
        BY <1>0, <3>1, <3>3
      <4>. QED
        BY <2>1, <4>1
    <3>. QED
      BY <2>1, <3>1, <3>2, <3>3
  <2>5. ASSUME NEW m \in DOMAIN s PROVE s[m] \in Range(r)
    <3>1. CASE m < n
      <4>1. m \in DOMAIN r /\ r[m] = s[m]
        BY <1>0, <2>1, <3>1
      <4>. QED
        BY <4>1 DEF Range
    <3>2. CASE m >= n
      <4>1. m + 1 \in DOMAIN r /\ r[m + 1] = s[m]
        BY <1>0, <2>1, <3>2
      <4>. QED
        BY <4>1 DEF Range
    <3>. QED
      BY <1>0, <3>1, <3>2
  <2>6. Range(s) \subseteq Range(r) /\ e \in Range(r)
    BY <2>1, <2>5 DEF Range
  <2>. QED
    BY <2>3, <2>4, <2>6
<1>3. ASSUME s # <<>>
      PROVE  /\ Once(Tail(s)) /\ Range(Tail(s)) = Range(s) \ {Head(s)}
             /\ Head(s) \in Range(s) /\ Head(s) \in S
  <2>0. Len(s) >= 1 /\ 1 \in DOMAIN s /\ Head(s) = s[1]
    BY <1>0, <1>3
  <2>. PICK r : r = Tail(s)
    OBVIOUS
  <2>1. DOMAIN r = 1..(Len(s) - 1) /\ \A m \in DOMAIN r : r[m] = s[m + 1]
    BY <1>0, <1>3, <2>0
  <2>2. Once(r)
    BY <1>0, <2>1 DEF Once
  <2>3. Range(r) \subseteq Range(s) \ {Head(s)}
    BY <1>0, <2>0, <2>1 DEF Once, Range
  <2>4. ASSUME NEW m \in DOMAIN s, m # 1 PROVE s[m] \in Range(r)
    <3>1. m - 1 \in DOMAIN r /\ r[m - 1] = s[m]
      BY <1>0, <2>1, <2>4
    <3>. QED
      BY <3>1 DEF Range
  <2>5. Range(s) \ {Head(s)} \subseteq Range(r) /\ Head(s) \in Range(s)
    BY <2>0, <2>4 DEF Range
  <2>. QED
    BY <1>0, <2>0, <2>2, <2>3, <2>5
<1>. QED
  BY <1>1, <1>2, <1>3


-----------------------------------------------------------------------------
\* Who has an item: one list, current or put aside, has it once, or one call has it that is
\* making or destroying it, or nobody; and no two calls are at the same one.
Where(j) == IF j.op \in CallOps THEN {j.item} ELSE {}
Hand(j) == IF j.op \in CallOps /\ (j.back = "link" \/ j.op \in {"link", "destroy", "leave"}) THEN {j.item} ELSE {}
Clears(j) == j.op = "clear" \/ (j.op \in CallOps /\ j.back = "clear")

\* What a call can count on of its item.
Fits(j, f) ==
    /\ j \in Jobs
    /\ j.op \in {"render", "use", "get"} => f[j.item] = Blank
    /\ j.op \in {"unlink", "store", "recolour", "paint"} => f[j.item].kind = "text"
    /\ j.op \in {"render", "use", "unlink", "recolour"} => j.as \in TextItem
    /\ j.op = "get" => j.as \in PngItem /\ j.back = "link"
    /\ j.op \in {"destroy", "leave"} => j.back # "link"

NoneTwice == Once(items) /\ \A c \in DOMAIN inactive_ctx : Once(inactive_ctx[c])
ListsApart ==
    \A c \in DOMAIN inactive_ctx :
        /\ Range(inactive_ctx[c]) \cap Range(items) = {}
        /\ \A d \in DOMAIN inactive_ctx : c # d => Range(inactive_ctx[c]) \cap Range(inactive_ctx[d]) = {}
HeldApart ==
    \A t \in Threads :
        /\ Hand(job[t]) \cap Range(items) = {}
        /\ \A c \in DOMAIN inactive_ctx : Hand(job[t]) \cap Range(inactive_ctx[c]) = {}
CallsApart == \A t, u \in Threads : t # u => Where(job[t]) \cap Where(job[u]) = {}
AllBorn ==
    /\ Unborn \cap Range(items) = {}
    /\ \A c \in DOMAIN inactive_ctx : Unborn \cap Range(inactive_ctx[c]) = {}
    /\ \A t \in Threads : Unborn \cap Where(job[t]) = {}
ClearsApart ==
    /\ ~Clears(job[Input])
    /\ Clears(job[Main]) => Where(job[Input]) \cap Range(items) = {}

OwnInv ==
    /\ items \in Seq(Items) /\ inactive_ctx \in Seq(Seq(Items)) /\ job \in [Threads -> Jobs]
    /\ NoneTwice /\ ListsApart /\ HeldApart /\ CallsApart /\ AllBorn /\ ClearsApart
    /\ \A t \in Threads : Fits(job[t], img)

LEMMA JobsTyped ==
    /\ \A j \in Jobs : j.op \in CallOps => j \in Calls
    /\ \A j \in Calls : j.item \in Items /\ j.op \in CallOps
    /\ Idle \in Jobs
    /\ \A o \in {"idle", "batch", "tested", "waiting", "freezing", "shot", "closing", "clear"} : [op |-> o] \in Jobs
    /\ \A P \in SUBSET Paths : [op |-> "files", left |-> P] \in Jobs
    /\ \A K \in SUBSET Texts : [op |-> "texts", left |-> K] \in Jobs
<1>1. \A j \in Jobs : j.op \in CallOps => j \in Calls
  BY DEF Jobs, CallOps
<1>2. \A j \in Calls : j.item \in Items /\ j.op \in CallOps
  BY DEF Calls
<1>3. Idle \in Jobs
  BY DEF Jobs, Idle
<1>4. \A o \in {"idle", "batch", "tested", "waiting", "freezing", "shot", "closing", "clear"} : [op |-> o] \in Jobs
  BY DEF Jobs
<1>5. \A P \in SUBSET Paths : [op |-> "files", left |-> P] \in Jobs
  BY DEF Jobs
<1>6. \A K \in SUBSET Texts : [op |-> "texts", left |-> K] \in Jobs
  BY DEF Jobs
<1>. QED
  BY <1>1, <1>2, <1>3, <1>4, <1>5, <1>6

LEMMA InHand == \A j : Hand(j) \subseteq Where(j)
BY DEF Hand, Where

LEMMA Placed ==
    ASSUME OwnInv, NEW t \in Threads
    PROVE  /\ Where(job[t]) \subseteq Items /\ At(t) = Where(job[t]) /\ (Clearing(t) <=> Clears(job[t]))
           /\ job[t].op \in CallOps => job[t].item \in Items /\ Where(job[t]) = {job[t].item}
BY JobsTyped DEF OwnInv, Where, At, Clearing, Clears

\* A thread goes on to j, having changed what nobody else is at.
LEMMA Handled ==
    ASSUME OwnInv, NEW t \in Threads, NEW j, job' = [job EXCEPT ![t] = j], Fits(j, img'),
           inactive_ctx' = inactive_ctx, items' \in Seq(Items), Once(items'),
           Range(items') \subseteq Range(items) \cup Hand(job[t]),
           Hand(j) \cap Range(items') = {}, Hand(j) \subseteq Hand(job[t]) \cup Range(items) \cup Unborn,
           \A u \in Threads : u # t => Where(j) \cap Where(job[u]) = {},
           \A k \in Items : img'[k] = img[k] \/ \A u \in Threads : u # t => k \notin Where(job[u]),
           \A k \in Items : img'[k].kind = "none" =>
                              /\ k \notin Where(j)
                              /\ img[k].kind = "none" \/ (k \in Hand(job[t]) /\ k \notin Range(items')),
           Clears(j) => t = Main /\ Where(job[Input]) \cap Range(items') = {},
           t = Input /\ Clears(job[Main]) => /\ Where(j) \cap Range(items') = {}
                                             /\ Range(items') \subseteq Range(items)
    PROVE  OwnInv'
<1>0. /\ j \in Jobs /\ job \in [Threads -> Jobs] /\ Main \in Threads /\ Input \in Threads /\ Main # Input
      /\ \A u \in Threads : u = Main \/ u = Input
  BY FramebufferAssumption DEF OwnInv, Fits, Threads
<1>1. job' \in [Threads -> Jobs] /\ job'[t] = j /\ \A u \in Threads : u # t => job'[u] = job[u]
  BY <1>0
<1>2. NoneTwice'
  BY DEF OwnInv, NoneTwice
<1>3. ListsApart'
  <2>1. \A c \in DOMAIN inactive_ctx : Hand(job[t]) \cap Range(inactive_ctx[c]) = {}
    BY DEF OwnInv, HeldApart
  <2>. QED
    BY <2>1 DEF OwnInv, ListsApart
<1>4. HeldApart'
  <2>. SUFFICES ASSUME NEW u \in Threads
                PROVE  /\ Hand(job'[u]) \cap Range(items') = {}
                       /\ \A c \in DOMAIN inactive_ctx : Hand(job'[u]) \cap Range(inactive_ctx[c]) = {}
    BY DEF HeldApart
  <2>1. CASE u = t
    BY <1>1, <2>1 DEF OwnInv, HeldApart, ListsApart, AllBorn
  <2>2. CASE u # t
    <3>1. Hand(job[u]) \cap Hand(job[t]) = {}
      BY <2>2, InHand DEF OwnInv, CallsApart
    <3>. QED
      BY <1>1, <2>2, <3>1 DEF OwnInv, HeldApart
  <2>. QED
    BY <2>1, <2>2
<1>5. CallsApart'
  <2>. SUFFICES ASSUME NEW u \in Threads, NEW v \in Threads, u # v PROVE Where(job'[u]) \cap Where(job'[v]) = {}
    BY DEF CallsApart
  <2>. QED
    BY <1>1 DEF OwnInv, CallsApart
<1>6. AllBorn'
  <2>1. \A k \in Unborn' : k \in Items /\ (k \in Unborn \/ (k \in Hand(job[t]) /\ k \notin Range(items'))) /\ k \notin Where(j)
    BY DEF Unborn
  <2>2. Unborn \cap Where(job[t]) = {}
    BY DEF OwnInv, AllBorn
  <2>3. Unborn' \cap Range(items') = {}
    BY <2>1, <2>2, InHand DEF OwnInv, AllBorn
  <2>4. \A c \in DOMAIN inactive_ctx : Unborn' \cap Range(inactive_ctx[c]) = {}
    BY <2>1 DEF OwnInv, AllBorn, HeldApart
  <2>5. \A u \in Threads : Unborn' \cap Where(job'[u]) = {}
    <3>. SUFFICES ASSUME NEW u \in Threads, u # t PROVE Unborn' \cap Where(job[u]) = {}
      BY <1>1, <2>1
    <3>1. Where(job[t]) \cap Where(job[u]) = {}
      BY DEF OwnInv, CallsApart
    <3>. QED
      BY <2>1, <3>1, InHand DEF OwnInv, AllBorn
  <2>. QED
    BY <2>3, <2>4, <2>5 DEF AllBorn
<1>7. ClearsApart'
  <2>1. CASE t = Main
    BY <1>0, <1>1, <2>1 DEF OwnInv, ClearsApart
  <2>2. CASE t = Input
    <3>1. ~Clears(j)
      BY <1>0, <2>2
    <3>. QED
      BY <1>0, <1>1, <2>2, <3>1 DEF OwnInv, ClearsApart
  <2>. QED
    BY <1>0, <2>1, <2>2
<1>8. ASSUME NEW u \in Threads PROVE Fits(job'[u], img')
  <2>1. CASE u = t
    BY <1>1, <2>1
  <2>2. CASE u # t
    <3>1. job'[u] = job[u] /\ Fits(job[u], img)
      BY <1>1, <2>2 DEF OwnInv
    <3>2. ASSUME job[u].op \in CallOps PROVE img'[job[u].item] = img[job[u].item]
      <4>1. job[u].item \in Items /\ Where(job[u]) = {job[u].item}
        BY <3>2, Placed
      <4>. QED
        BY <2>2, <4>1
    <3>3. CASE job[u].op \in CallOps
      BY <3>1, <3>2, <3>3 DEF Fits
    <3>4. CASE job[u].op \notin CallOps
      BY <3>1, <3>4 DEF Fits, CallOps
    <3>. QED
      BY <3>3, <3>4
  <2>. QED
    BY <2>1, <2>2
<1>. QED
  BY <1>1, <1>2, <1>3, <1>4, <1>5, <1>6, <1>7, <1>8 DEF OwnInv

\* The next step of a call at an item.
LEMMA Goes ==
    ASSUME OwnInv, PicTyped, NEW t \in Threads, job[t].op \in CallOps, UNCHANGED <<items, inactive_ctx>>,
           NEW j, job' = [job EXCEPT ![t] = j], Fits(j, img'),
           \A k \in Items : k # job[t].item => img'[k] = img[k],
           Where(j) \subseteq Where(job[t]), Hand(j) \subseteq Hand(job[t]), Clears(j) => Clears(job[t]),
           img'[job[t].item].kind = "none" => Where(job[t]) = Hand(job[t]) /\ Where(j) = {}
    PROVE  OwnInv'
<1>1. job[t].item \in Items /\ Where(job[t]) = {job[t].item} /\ items \in Seq(Items) /\ Once(items)
  BY Placed DEF OwnInv, NoneTwice
<1>2. \A u \in Threads : u # t => Where(job[t]) \cap Where(job[u]) = {}
  BY DEF OwnInv, CallsApart
<1>3. \A k \in Items : img'[k] = img[k] \/ \A u \in Threads : u # t => k \notin Where(job[u])
  BY <1>1, <1>2
<1>4. Hand(job[t]) \cap Range(items) = {}
  BY DEF OwnInv, HeldApart
<1>5. ASSUME NEW k \in Items, img'[k].kind = "none"
      PROVE  k \notin Where(j) /\ (img[k].kind = "none" \/ (k \in Hand(job[t]) /\ k \notin Range(items)))
  <2>1. CASE k = job[t].item
    BY <1>1, <1>4, <1>5, <2>1
  <2>2. CASE k # job[t].item
    BY <1>1, <1>5, <2>2
  <2>. QED
    BY <2>1, <2>2
<1>6. Clears(j) => t = Main /\ Where(job[Input]) \cap Range(items) = {}
  BY DEF OwnInv, ClearsApart, Threads
<1>7. t = Input /\ Clears(job[Main]) => Where(j) \cap Range(items) = {}
  BY DEF OwnInv, ClearsApart
<1>8. Hand(j) \cap Range(items) = {} /\ Hand(j) \subseteq Hand(job[t]) \cup Range(items) \cup Unborn
  BY <1>4
<1>9. \A u \in Threads : u # t => Where(j) \cap Where(job[u]) = {}
  BY <1>2
<1>10. Range(items) \subseteq Range(items) \cup Hand(job[t])
  OBVIOUS
<1>. QED
  BY <1>1, <1>3, <1>5, <1>6, <1>7, <1>8, <1>9, <1>10, Handled

\* A call that makes an item begins.
LEMMA Makes ==
    ASSUME OwnInv, PicTyped, NEW t \in Threads, job[t].op \notin CallOps, UNCHANGED <<items, inactive_ctx>>,
           NEW i \in Unborn, Free(t, i),
           NEW j, job' = [job EXCEPT ![t] = j], Fits(j, img'), j.op \in CallOps, j.item = i, j.back = "link",
           NEW r, img' = [img EXCEPT ![i] = r], r.kind # "none"
    PROVE  OwnInv'
<1>1. i \in Items /\ items \in Seq(Items) /\ Once(items) /\ Where(j) = {i} /\ Hand(j) = {i} /\ ~Clears(j)
  BY DEF OwnInv, NoneTwice, Unborn, Where, Hand, Clears, CallOps
<1>2. \A u \in Threads : u # t => i \notin Where(job[u])
  BY Placed DEF Free
<1>3. \A k \in Items : img'[k] = IF k = i THEN r ELSE img[k]
  BY DEF PicTyped
<1>4. i \notin Range(items)
  BY DEF OwnInv, AllBorn
<1>5. \A k \in Items : img'[k] = img[k] \/ \A u \in Threads : u # t => k \notin Where(job[u])
  BY <1>2, <1>3
<1>6. \A k \in Items : img'[k].kind = "none" => k \notin Where(j) /\ img[k].kind = "none"
  BY <1>1, <1>3
<1>7. Hand(j) \cap Range(items) = {} /\ Where(j) \cap Range(items) = {}
  BY <1>1, <1>4
<1>8. \A u \in Threads : u # t => Where(j) \cap Where(job[u]) = {}
  BY <1>1, <1>2
<1>9. Hand(j) \subseteq Hand(job[t]) \cup Range(items) \cup Unborn /\ Range(items) \subseteq Range(items) \cup Hand(job[t])
  BY <1>1
<1>10. Once(items') /\ items' \in Seq(Items)
  BY <1>1
<1>. QED
  BY <1>1, <1>5, <1>6, <1>7, <1>8, <1>9, <1>10, Handled

\* One that changes an item begins.
LEMMA Takes ==
    ASSUME OwnInv, NEW t \in Threads, UNCHANGED <<img, items, inactive_ctx>>,
           NEW i \in Range(items), Free(t, i), \A u \in Threads : ~Clearing(u),
           NEW j, job' = [job EXCEPT ![t] = j], Fits(j, img), j.op \in CallOps, j.item = i,
           j.back \in {"idle", "batch"}, j.op \notin {"link", "destroy", "leave"}
    PROVE  OwnInv'
<1>1. i \in Items /\ items \in Seq(Items) /\ Once(items) /\ Where(j) = {i} /\ Hand(j) = {} /\ ~Clears(j)
  BY DEF OwnInv, NoneTwice, Range, Where, Hand, Clears, CallOps
<1>2. \A u \in Threads : u # t => i \notin Where(job[u])
  BY Placed DEF Free
<1>3. i \notin Unborn
  BY DEF OwnInv, AllBorn
<1>4. ~Clears(job[Main])
  BY Placed DEF Threads
<1>5. \A k \in Items : img[k].kind = "none" => k \notin Where(j)
  BY <1>1, <1>3 DEF Unborn
<1>. QED
  BY <1>1, <1>2, <1>4, <1>5, Handled

\* One that is at no item goes on to be at none.
LEMMA Rests ==
    ASSUME OwnInv, NEW t \in Threads, UNCHANGED <<img, items, inactive_ctx>>,
           NEW j \in Jobs, job' = [job EXCEPT ![t] = j], j.op \notin CallOps,
           Clears(j) => t = Main /\ Where(job[Input]) \cap Range(items) = {}
    PROVE  OwnInv'
<1>1. items \in Seq(Items) /\ Once(items) /\ Where(j) = {} /\ Hand(j) = {} /\ Fits(j, img)
  BY DEF OwnInv, NoneTwice, Where, Hand, Fits, CallOps
<1>. QED
  BY <1>1, Handled

\* An item gets its place in the list.
LEMMA MovesIn ==
    ASSUME OwnInv, NEW t \in Threads, UNCHANGED <<img, inactive_ctx>>, job[t].op = "link", t = Input => ~Clears(job[Main]),
           NEW n \in 1..(Len(items) + 1), items' = InsertAt(items, n, job[t].item),
           NEW j \in Jobs, job' = [job EXCEPT ![t] = j], j.op \notin CallOps, ~Clears(j)
    PROVE  OwnInv'
<1>. PICK i : i = job[t].item
  OBVIOUS
<1>0. "link" \in CallOps
  BY DEF CallOps
<1>1. i \in Items /\ items \in Seq(Items) /\ Once(items) /\ Where(j) = {} /\ Hand(j) = {} /\ Fits(j, img)
      /\ Hand(job[t]) = {i}
  BY <1>0, Placed DEF OwnInv, NoneTwice, Where, Hand, Fits, CallOps
<1>2. i \notin Range(items)
  BY <1>1 DEF OwnInv, HeldApart
<1>3. Once(items') /\ Range(items') = Range(items) \cup {i}
  BY <1>1, <1>2, Ranges
<1>4. items' \in Seq(Items)
  BY <1>1, ListsTyped
<1>. QED
  BY <1>1, <1>3, <1>4, Handled

\* An item is taken out to be destroyed.
LEMMA MovesOut ==
    ASSUME OwnInv, NEW t \in Threads, UNCHANGED <<img, inactive_ctx>>, NEW i \in Range(items), Free(t, i),
           items' \in Seq(Items), Once(items'), Range(items') = Range(items) \ {i},
           NEW j, job' = [job EXCEPT ![t] = j], j \in Jobs, j.op = "destroy", j.item = i, j.back # "link",
           Clears(j) => t = Main /\ Where(job[Input]) \cap Range(items) = {}
    PROVE  OwnInv'
<1>1. i \in Items /\ Where(j) = {i} /\ Hand(j) = {i} /\ Fits(j, img)
  BY DEF OwnInv, Range, Where, Hand, Fits, CallOps
<1>2. \A u \in Threads : u # t => i \notin Where(job[u])
  BY Placed DEF Free
<1>3. i \notin Unborn
  BY DEF OwnInv, AllBorn
<1>4. \A k \in Items : img[k].kind = "none" => k \notin Where(j)
  BY <1>1, <1>3 DEF Unborn
<1>5. \A u \in Threads : u # t => Where(j) \cap Where(job[u]) = {}
  BY <1>1, <1>2
<1>6. Clears(j) => t = Main /\ Where(job[Input]) \cap Range(items') = {}
  OBVIOUS
<1>7. t = Input /\ Clears(job[Main]) => Where(j) \cap Range(items') = {} /\ Range(items') \subseteq Range(items)
  BY <1>1
<1>8. Hand(j) \cap Range(items') = {} /\ Range(items') \subseteq Range(items) \cup Hand(job[t])
  BY <1>1
<1>9. Hand(j) \subseteq Hand(job[t]) \cup Range(items) \cup Unborn
  BY <1>1
<1>. QED
  BY <1>1, <1>4, <1>5, <1>6, <1>7, <1>8, <1>9, Handled

\* Nothing of it changes.
LEMMA SameOwn ==
    ASSUME OwnInv, UNCHANGED <<img, items, inactive_ctx>>, job' \in [Threads -> Jobs],
           \A t \in Threads : job'[t] = job[t] \/ (job'[t].op \notin CallOps /\ ~Clears(job'[t]))
    PROVE  OwnInv'
<1>1. \A t \in Threads : /\ Where(job'[t]) \subseteq Where(job[t]) /\ Hand(job'[t]) \subseteq Hand(job[t])
                         /\ Clears(job'[t]) => Clears(job[t])
                         /\ Fits(job'[t], img)
  BY DEF OwnInv, Where, Hand, Fits, CallOps
<1>2. Unborn' = Unborn
  BY DEF Unborn
<1>3. NoneTwice' /\ ListsApart'
  BY DEF OwnInv, NoneTwice, ListsApart
<1>4. HeldApart'
  BY <1>1 DEF OwnInv, HeldApart
<1>5. CallsApart'
  BY <1>1 DEF OwnInv, CallsApart
<1>6. AllBorn'
  BY <1>1, <1>2 DEF OwnInv, AllBorn
<1>7. ClearsApart'
  BY <1>1 DEF OwnInv, ClearsApart, Threads
<1>. QED
  BY <1>1, <1>3, <1>4, <1>5, <1>6, <1>7 DEF OwnInv

-----------------------------------------------------------------------------
\* The calls keep it.
LEMMA CallTyped ==
    ASSUME NEW op \in CallOps, NEW i \in Items, NEW as \in Shows, NEW entry \in Seen,
           NEW back \in {"idle", "batch", "clear", "link"}, NEW j, j = Step(op, i, as, entry, back)
    PROVE  /\ j \in Jobs /\ j \in Calls /\ j.op = op /\ j.item = i /\ j.as = as /\ j.entry = entry /\ j.back = back
           /\ Where(j) = {i} /\ (Clears(j) <=> back = "clear")
           /\ Hand(j) = IF back = "link" \/ op \in {"link", "destroy", "leave"} THEN {i} ELSE {}
<1>1. j \in Calls /\ j.op = op /\ j.item = i /\ j.as = as /\ j.entry = entry /\ j.back = back
  BY DEF Step, Calls
<1>2. j \in Jobs
  BY <1>1 DEF Jobs
<1>3. j.op # "clear"
  BY <1>1 DEF CallOps
<1>. QED
  BY <1>1, <1>2, <1>3 DEF Where, Clears, Hand

LEMMA SeenTyped == /\ \A k, c : SeenText(k, c) \in Seen /\ \A p : SeenFile(p) \in Seen
                   /\ "none" \in Seen /\ Blank \in Shows /\ NoItem \in Shows
                   /\ TextItem \subseteq Shows /\ PngItem \subseteq Shows /\ PlainItem \subseteq Shows
BY DEF SeenText, SeenFile, Seen, Shows

LEMMA CallAt ==
    ASSUME OwnInv, NEW t \in Threads, job[t].op \in CallOps
    PROVE  /\ job[t] \in Calls /\ job[t].item \in Items /\ job[t].as \in Shows /\ job[t].entry \in Seen
           /\ job[t].back \in {"idle", "batch", "clear", "link"} /\ Where(job[t]) = {job[t].item}
           /\ Fits(job[t], img)
<1>1. job[t] \in Calls /\ Fits(job[t], img)
  BY JobsTyped DEF OwnInv
<1>. QED
  BY <1>1 DEF Calls, Where

LEMMA Stepped ==
    ASSUME OwnInv, NEW t \in Threads, job[t].op \in CallOps,
           NEW o \in CallOps, NEW s \in Shows, NEW e \in Seen,
           NEW j, j = Step(o, job[t].item, s, e, job[t].back)
    PROVE  /\ j \in Jobs /\ j.op = o /\ j.item = job[t].item /\ j.as = s /\ j.back = job[t].back
           /\ Where(j) = {job[t].item} /\ (Clears(j) <=> job[t].back = "clear")
           /\ Hand(j) = IF job[t].back = "link" \/ o \in {"link", "destroy", "leave"} THEN {job[t].item} ELSE {}
<1>1. job[t].item \in Items /\ job[t].back \in {"idle", "batch", "clear", "link"}
  BY CallAt
<1>2. j \in Calls /\ j.op = o /\ j.item = job[t].item /\ j.as = s /\ j.back = job[t].back
  BY <1>1 DEF Step, Calls
<1>3. j \in Jobs
  BY <1>2 DEF Jobs
<1>4. j.op # "clear"
  BY <1>2 DEF CallOps
<1>. QED
  BY <1>2, <1>3, <1>4 DEF Where, Clears, Hand

LEMMA ToGoes ==
    ASSUME OwnInv, PicTyped, NEW t \in Threads, job[t].op \in CallOps, UNCHANGED <<items, inactive_ctx>>,
           NEW o \in CallOps, NEW s \in Shows, NEW e \in Seen, To(t, o, s, e),
           o \notin {"link", "destroy", "get"}, o = "leave" => job[t].op = "destroy",
           \A k \in Items : k # job[t].item => img'[k] = img[k], img'[job[t].item].kind # "none",
           o \in {"render", "use"} => img'[job[t].item] = Blank,
           o \in {"unlink", "store", "recolour", "paint"} => img'[job[t].item].kind = "text",
           o \in {"render", "use", "unlink", "recolour"} => s \in TextItem
    PROVE  OwnInv'
<1>. PICK j : j = Step(o, job[t].item, s, e, job[t].back)
  OBVIOUS
<1>0. /\ job[t].item \in Items /\ job[t].back \in {"idle", "batch", "clear", "link"} /\ Where(job[t]) = {job[t].item}
      /\ Fits(job[t], img)
  BY CallAt
<1>1. /\ j \in Jobs /\ j.op = o /\ j.item = job[t].item /\ j.as = s /\ j.back = job[t].back
      /\ Where(j) = {job[t].item} /\ (Clears(j) <=> job[t].back = "clear")
      /\ Hand(j) = IF job[t].back = "link" \/ o \in {"link", "destroy", "leave"} THEN {job[t].item} ELSE {}
  <2>1. /\ j \in Jobs /\ j.op = o /\ j.item = job[t].item /\ j.as = s /\ j.back = job[t].back
    BY Stepped
  <2>2. Where(j) = {job[t].item} /\ (Clears(j) <=> job[t].back = "clear")
    BY <2>1 DEF Where, Clears, CallOps
  <2>3. Hand(j) = IF job[t].back = "link" \/ o \in {"link", "destroy", "leave"} THEN {job[t].item} ELSE {}
    BY <2>1 DEF Hand
  <2>. QED
    BY <2>1, <2>2, <2>3
<1>2. job' = [job EXCEPT ![t] = j]
  BY DEF To, Turn
<1>3. Fits(j, img')
  BY <1>0, <1>1 DEF Fits
<1>4. Hand(j) \subseteq Hand(job[t]) /\ (Clears(j) => Clears(job[t]))
  BY <1>1 DEF Hand, Clears
<1>. QED
  BY <1>0, <1>1, <1>2, <1>3, <1>4, Goes

LEMMA BackGoes ==
    ASSUME OwnInv, PicTyped, NEW t \in Threads, job[t].op \in CallOps, UNCHANGED <<items, inactive_ctx>>,
           Back(t), \A k \in Items : k # job[t].item => img'[k] = img[k],
           img'[job[t].item].kind # "none" \/ job[t].op \in {"destroy", "leave"}
    PROVE  OwnInv'
<1>0. /\ job[t].item \in Items /\ job[t].back \in {"idle", "batch", "clear", "link"} /\ Where(job[t]) = {job[t].item}
      /\ Fits(job[t], img)
  BY CallAt
<1>1. CASE job[t].back = "link"
  <2>. PICK j : j = Step("link", job[t].item, Blank, "none", job[t].back)
    OBVIOUS
  <2>0. "link" \in CallOps
    BY DEF CallOps
  <2>1. /\ j \in Jobs /\ j.op = "link" /\ j.item = job[t].item /\ j.back = "link"
        /\ Where(j) = {job[t].item} /\ ~Clears(j) /\ Hand(j) = {job[t].item}
    BY <1>0, <1>1, <2>0, CallTyped, SeenTyped
  <2>2. job' = [job EXCEPT ![t] = j]
    BY <1>1 DEF Back, To, Turn
  <2>3. Fits(j, img')
    BY <2>1 DEF Fits
  <2>4. Hand(j) \subseteq Hand(job[t])
    BY <1>1, <2>1 DEF Hand
  <2>5. img'[job[t].item].kind # "none"
    BY <1>0, <1>1 DEF Fits
  <2>. QED
    BY <1>0, <2>1, <2>2, <2>3, <2>4, <2>5, Goes
<1>2. CASE job[t].back # "link"
  <2>. PICK j : j = [op |-> job[t].back]
    OBVIOUS
  <2>1. j \in Jobs /\ j.op = job[t].back /\ j.op \notin CallOps
    BY <1>0, <1>2, JobsTyped DEF CallOps
  <2>2. job' = [job EXCEPT ![t] = j]
    BY <1>2 DEF Back, Turn
  <2>3. Where(j) = {} /\ Hand(j) = {} /\ (Clears(j) => Clears(job[t])) /\ Fits(j, img')
    BY <2>1 DEF Where, Hand, Clears, Fits, CallOps
  <2>4. job[t].op \in {"destroy", "leave"} => Where(job[t]) = Hand(job[t])
    BY <1>0 DEF Hand
  <2>. QED
    BY <1>0, <2>2, <2>3, <2>4, Goes
<1>. QED
  BY <1>1, <1>2

LEMMA AgainTyped == \A t : Again(t) \in Jobs /\ Again(t).op \notin CallOps /\ ~Clears(Again(t))
<1>. SUFFICES ASSUME NEW t PROVE Again(t) \in Jobs /\ Again(t).op \notin CallOps /\ ~Clears(Again(t))
  OBVIOUS
<1>1. Again(t).op \in {"batch", "idle"} /\ Again(t) \in Jobs
  BY JobsTyped DEF Again
<1>. QED
  BY <1>1 DEF CallOps, Clears

\* A call's steps.
LEMMA CallOwn ==
    ASSUME ShapeInv, PicTyped, OwnInv, NEW t \in Threads, CallStep(t) PROVE PicTyped' /\ OwnInv'
<1>. PICK i : i = job[t].item
  OBVIOUS
<1>. USE DEF Turn, KeepLists
<1>0. /\ img \in [Items -> Shows]
      /\ \A r : (img' = [img EXCEPT ![i] = r] => \A k \in Items : k # i => img'[k] = img[k])
  BY DEF PicTyped
<1>c. /\ \A o \in {"render", "use", "store", "get", "link", "destroy", "leave", "unlink", "recolour", "paint"} : o \in CallOps
  BY DEF CallOps
<1>a. ASSUME job[t].op \in CallOps
      PROVE  /\ i \in Items /\ job[t].as \in Shows /\ job[t].entry \in Seen
             /\ Fits(job[t], img) /\ \A r \in Shows : img' = [img EXCEPT ![i] = r] => img'[i] = r
  BY <1>0, <1>a, CallAt
<1>1. CASE fb_text_render(t)
  <2>1. /\ job[t].op = "render" /\ UNCHANGED <<items, inactive_ctx>> /\ job[t].as \in TextItem /\ img[i] = Blank /\ i \in Items
    BY <1>1, <1>a, <1>c DEF fb_text_render, Fits
  <2>. PICK k \in Texts, c \in Colours : k = job[t].as.text /\ c = job[t].as.colour
    BY <2>1 DEF TextItem
  <2>2. CASE /\ get_cache_for_string(k, c)
             /\ To(t, "use", [job[t].as EXCEPT !.data = strings[k].data], "none")
             /\ UNCHANGED <<img, strings, png_cache, alive, apart>>
    <3>1. strings[k] \in StringsEntry
      BY <2>2 DEF PicTyped, Keeps, get_cache_for_string
    <3>2. [job[t].as EXCEPT !.data = strings[k].data] \in TextItem
      BY <2>1, <3>1, Recast DEF StringsEntry
    <3>3. img'[i].kind # "none"
      BY <2>1, <2>2, Kinds
    <3>4. OwnInv'
      BY <1>c, <2>1, <2>2, <3>2, <3>3, SeenTyped, ToGoes
    <3>. QED
      BY <2>2, <3>4, SamePictures
  <2>3. CASE RenderText(i, job[t].as) /\ To(t, "store", Blank, "none")
    <3>1. PicTyped' /\ img'[i].kind = "text"
      BY <2>1, <2>3, RenderTyped
    <3>2. \A l \in Items : l # i => img'[l] = img[l]
      BY <1>0, <2>3 DEF RenderText
    <3>3. OwnInv'
      BY <1>c, <2>1, <2>3, <3>1, <3>2, SeenTyped, ToGoes
    <3>. QED
      BY <3>1, <3>3
  <2>. QED
    BY <1>1, <2>2, <2>3, Zenon DEF fb_text_render
<1>2. CASE Used(t)
  <2>1. job[t].op = "use" /\ job[t].as \in TextItem /\ i \in Items
    BY <1>2, <1>a, <1>c DEF Used, Fits
  <2>2. ShareText(i, job[t].as) /\ Back(t) /\ UNCHANGED <<items, inactive_ctx>>
    BY <1>2 DEF Used, Finished
  <2>3. img' = [img EXCEPT ![i] = job[t].as] /\ job[t].as.kind # "none"
    BY <2>1, <2>2, Kinds DEF ShareText
  <2>4. img'[i].kind # "none" /\ \A l \in Items : l # i => img'[l] = img[l]
    BY <1>0, <2>1, <2>3
  <2>5. OwnInv'
    BY <1>c, <2>1, <2>2, <2>4, BackGoes
  <2>. QED
    BY <2>1, <2>2, <2>5, ShareTyped
<1>3. CASE Stored(t)
  <2>1. job[t].op = "store" /\ img[i].kind = "text" /\ i \in Items /\ img[i] \in TextItem
    BY <1>3, <1>a, <1>c, ItemTyped DEF Stored, Fits
  <2>2. add_to_strings(i) /\ Back(t) /\ UNCHANGED <<items, inactive_ctx>> /\ img' = img
    BY <1>3 DEF Stored, Finished, add_to_strings
  <2>3. OwnInv'
    BY <1>c, <2>1, <2>2, BackGoes
  <2>. QED
    BY <2>1, <2>2, <2>3, AddTyped
<1>4. CASE Got(t)
  <2>1. /\ job[t].op = "get" /\ job[t].as \in PngItem /\ i \in Items /\ job[t].back = "link"
        /\ UNCHANGED <<items, inactive_ctx>>
    BY <1>4, <1>a, <1>c DEF Got, Fits
  <2>2. CASE fb_png_get(i, job[t].as, job[t].entry) /\ Back(t)
    <3>1. img' = [img EXCEPT ![i] = job[t].as] /\ job[t].as.kind # "none"
      BY <2>1, <2>2, Kinds DEF fb_png_get
    <3>2. img'[i].kind # "none" /\ \A l \in Items : l # i => img'[l] = img[l]
      BY <1>0, <2>1, <3>1
    <3>3. OwnInv'
      BY <1>c, <2>1, <2>2, <3>2, BackGoes
    <3>. QED
      BY <2>1, <2>2, <3>3, FileTyped
  <2>3. CASE show_plain(i, NoItem) /\ Turn(t, Again(t))
    <3>1. \A l \in Items : l # i => img'[l] = img[l]
      BY <1>0, <2>3 DEF show_plain
    <3>2. Where(Again(t)) = {} /\ Hand(Again(t)) = {} /\ Fits(Again(t), img')
      BY AgainTyped DEF Where, Hand, Fits, CallOps
    <3>3. Where(job[t]) = Hand(job[t])
      BY <1>c, <2>1 DEF Where, Hand
    <3>4. OwnInv'
      BY <1>c, <2>1, <2>3, <3>1, <3>2, <3>3, AgainTyped, Goes
    <3>. QED
      BY <2>1, <2>3, <3>4, Kinds, PlainTyped
  <2>. QED
    BY <1>4, <2>2, <2>3 DEF Got
<1>5. CASE fb_ctx_add_item(t)
  <2>1. /\ job[t].op = "link" /\ ctxLock \in {NoOne, t} /\ Turn(t, Again(t)) /\ UNCHANGED <<pictureVars, inactive_ctx>>
    BY <1>5 DEF fb_ctx_add_item, fb_items_lock
  <2>2. PICK n \in 1..(Len(items) + 1) : items' = InsertAt(items, n, job[t].item)
    BY <1>5 DEF fb_ctx_add_item
  <2>3. t = Input => ~Clears(job[Main])
    <3>1. Clears(job[Main]) => Holding(job[Main])
      BY DEF Clears, Holding
    <3>2. Holding(job[Main]) => ctxLock = Main
      BY DEF ShapeInv, Threads
    <3>. QED
      BY <2>1, <3>1, <3>2, FramebufferAssumption
  <2>4. OwnInv'
    BY <2>1, <2>2, <2>3, AgainTyped, MovesIn DEF pictureVars
  <2>. QED
    BY <2>1, <2>4, SamePictures DEF pictureVars
<1>6. CASE Unlinked(t)
  <2>1. job[t].op = "unlink" /\ img[i].kind = "text" /\ i \in Items /\ img[i] \in TextItem /\ job[t].as \in TextItem
    BY <1>6, <1>a, <1>c, ItemTyped DEF Unlinked, Fits
  <2>2. LeaveText(i, job[t].entry, Blank) /\ To(t, "render", job[t].as, "none") /\ UNCHANGED <<items, inactive_ctx>>
    BY <1>6 DEF Unlinked, unlink_from_caches
  <2>3. img'[i] = Blank /\ \A l \in Items : l # i => img'[l] = img[l]
    BY <1>0, <2>1, <2>2 DEF LeaveText
  <2>4. OwnInv'
    BY <1>c, <2>1, <2>2, <2>3, SeenTyped, Kinds, ToGoes
  <2>. QED
    BY <2>1, <2>2, <2>4, LeaveTyped
<1>7. CASE Recoloured(t)
  <2>1. /\ job[t].op = "recolour" /\ img[i].kind = "text" /\ i \in Items /\ img[i] \in TextItem /\ job[t].as \in TextItem
        /\ job[t].entry \in Seen
    BY <1>7, <1>a, <1>c, ItemTyped DEF Recoloured, Fits
  <2>. PICK c \in Colours : c = job[t].as.colour
    BY <2>1 DEF TextItem
  <2>2. /\ fb_text_set_color(i, c, job[t].entry) /\ To(t, "paint", Blank, job[t].entry)
        /\ UNCHANGED <<items, inactive_ctx>>
    BY <1>7 DEF Recoloured
  <2>3. \A l \in Items : l # i => img'[l] = img[l]
    BY <1>0, <2>2 DEF fb_text_set_color
  <2>4. PicTyped' /\ img'[i].kind = "text"
    BY <2>1, <2>2, ColourTyped
  <2>5. OwnInv'
    BY <1>c, <2>1, <2>2, <2>3, <2>4, SeenTyped, ToGoes
  <2>. QED
    BY <2>4, <2>5
<1>8. CASE Painted(t)
  <2>1. job[t].op = "paint" /\ img[i].kind = "text" /\ i \in Items /\ img[i] \in TextItem
    BY <1>8, <1>a, <1>c, ItemTyped DEF Painted, Fits
  <2>2. RepaintText(i, job[t].entry) /\ Back(t) /\ UNCHANGED <<items, inactive_ctx>>
    BY <1>8 DEF Painted
  <2>3. \A l \in Items : l # i => img'[l] = img[l]
    BY <1>0, <2>2 DEF RepaintText
  <2>4. PicTyped' /\ img'[i].kind = "text"
    BY <2>1, <2>2, RepaintTyped
  <2>5. OwnInv'
    BY <1>c, <2>1, <2>2, <2>3, <2>4, BackGoes
  <2>. QED
    BY <2>4, <2>5
<1>9. CASE fb_destroy_item(t)
  <2>1. job[t].op = "destroy" /\ i \in Items /\ UNCHANGED <<items, inactive_ctx>>
    BY <1>9, <1>a, <1>c DEF fb_destroy_item
  <2>2. CASE show_plain(i, NoItem) /\ Back(t)
    <3>1. \A l \in Items : l # i => img'[l] = img[l]
      BY <1>0, <2>2 DEF show_plain
    <3>2. OwnInv'
      BY <1>c, <2>1, <2>2, <3>1, BackGoes
    <3>. QED
      BY <2>1, <2>2, <3>2, Kinds, PlainTyped
  <2>3. ASSUME NEW entry \in Seen, img[i].kind \in {"text", "png"}, To(t, "leave", Blank, entry),
               UNCHANGED <<img, strings, png_cache, alive, apart>>
        PROVE  PicTyped' /\ OwnInv'
    <3>1. OwnInv'
      BY <1>c, <2>1, <2>3, SeenTyped, ToGoes
    <3>. QED
      BY <2>3, <3>1, SamePictures
  <2>. QED
    BY <1>9, <2>2, <2>3, SeenTyped DEF fb_destroy_item
<1>10. CASE Left(t)
  <2>1. job[t].op = "leave" /\ i \in Items /\ UNCHANGED <<items, inactive_ctx>> /\ Back(t)
    BY <1>10, <1>a, <1>c DEF Left
  <2>2. CASE img[i].kind = "text" /\ fb_text_destroy(i, job[t].entry)
    <3>1. LeaveText(i, job[t].entry, NoItem) /\ img[i] \in TextItem
      BY <2>1, <2>2, ItemTyped DEF fb_text_destroy
    <3>2. \A l \in Items : l # i => img'[l] = img[l]
      BY <1>0, <3>1 DEF LeaveText
    <3>3. OwnInv'
      BY <1>c, <2>1, <3>2, BackGoes
    <3>. QED
      BY <2>1, <3>1, <3>3, LeaveTyped
  <2>3. CASE img[i].kind = "png" /\ fb_png_release(i, job[t].entry)
    <3>1. img[i] \in PngItem
      BY <2>1, <2>3, ItemTyped
    <3>2. \A l \in Items : l # i => img'[l] = img[l]
      BY <1>0, <2>3 DEF fb_png_release
    <3>3. OwnInv'
      BY <1>c, <2>1, <3>2, BackGoes
    <3>. QED
      BY <2>1, <2>3, <3>1, <3>3, FileTyped
  <2>. QED
    BY <1>10, <2>2, <2>3 DEF Left
<1>. QED
  BY <1>1, <1>2, <1>3, <1>4, <1>5, <1>6, <1>7, <1>8, <1>9, <1>10 DEF CallStep

-----------------------------------------------------------------------------
\* A context is put aside and taken back.
LEMMA PutsAside ==
    ASSUME OwnInv, UNCHANGED <<img, job>>, inactive_ctx' = Append(inactive_ctx, items), items' = <<>>,
           \A t \in Threads : job[t].op \notin CallOps /\ ~Clears(job[t])
    PROVE  OwnInv'
<1>. PICK l \in Nat : l = Len(inactive_ctx)
  BY DEF OwnInv
<1>0. job \in [Threads -> Jobs] /\ items \in Seq(Items) /\ inactive_ctx \in Seq(Seq(Items)) /\ DOMAIN inactive_ctx = 1..l
  BY DEF OwnInv
<1>. PICK x : x = inactive_ctx'
  OBVIOUS
<1>1. /\ x \in Seq(Seq(Items)) /\ DOMAIN x = 1..(l + 1)
      /\ \A c \in 1..l : x[c] = inactive_ctx[c]
      /\ x[l + 1] = items
  BY <1>0, AppendProperties
<1>2. \A t \in Threads : Hand(job'[t]) = {} /\ Where(job'[t]) = {}
  BY DEF Hand, Where
<1>3. Unborn' = Unborn /\ Range(items') = {} /\ items' \in Seq(Items) /\ Once(items')
  BY DEF Unborn, Range, Once
<1>4. ASSUME NEW c \in 1..(l + 1)
      PROVE  \/ c \in DOMAIN inactive_ctx /\ x[c] = inactive_ctx[c]
             \/ c = l + 1 /\ x[c] = items /\ c \notin DOMAIN inactive_ctx
  <2>1. CASE c <= l
    BY <1>0, <1>1, <2>1
  <2>2. CASE c = l + 1
    BY <1>0, <1>1, <2>2
  <2>. QED
    BY <2>1, <2>2
<1>5. NoneTwice'
  BY <1>1, <1>3, <1>4 DEF OwnInv, NoneTwice
<1>6. ListsApart'
  <2>1. \A c, d \in 1..(l + 1) : c # d => Range(x[c]) \cap Range(x[d]) = {}
    BY <1>4 DEF OwnInv, ListsApart
  <2>. QED
    BY <1>1, <1>3, <2>1 DEF ListsApart
<1>7. HeldApart'
  BY <1>2 DEF HeldApart
<1>8. AllBorn'
  BY <1>1, <1>2, <1>3, <1>4 DEF OwnInv, AllBorn
<1>9. CallsApart' /\ ClearsApart'
  BY <1>2 DEF CallsApart, ClearsApart, Threads
<1>10. \A t \in Threads : Fits(job'[t], img')
  BY DEF OwnInv
<1>. QED
  BY <1>0, <1>1, <1>3, <1>5, <1>6, <1>7, <1>8, <1>9, <1>10 DEF OwnInv

LEMMA TakesBack ==
    ASSUME OwnInv, img' = img, inactive_ctx # <<>>, items' = Last(inactive_ctx), inactive_ctx' = Front(inactive_ctx),
           job' \in [Threads -> Jobs], \A t \in Threads : job'[t].op \notin CallOps /\ ~Clears(job'[t])
    PROVE  OwnInv'
<1>. PICK l \in Nat : l = Len(inactive_ctx)
  BY DEF OwnInv
<1>0. inactive_ctx \in Seq(Seq(Items)) /\ DOMAIN inactive_ctx = 1..l /\ l >= 1
  BY DEF OwnInv
<1>. PICK x : x = inactive_ctx'
  OBVIOUS
<1>1. x \in Seq(Seq(Items)) /\ DOMAIN x = 1..(l - 1) /\ \A c \in 1..(l - 1) : x[c] = inactive_ctx[c]
  <2>1. x = SubSeq(inactive_ctx, 1, l - 1) /\ l \in 1..(Len(inactive_ctx) + 1)
    BY <1>0 DEF Front
  <2>. PICK n \in 1..(Len(inactive_ctx) + 1) : n = l
    BY <2>1
  <2>2. x \in Seq(Seq(Items)) /\ Len(x) = n - 1 /\ \A c \in 1..(n - 1) : x[c] = inactive_ctx[c]
    <3>1. x = SubSeq(inactive_ctx, 1, n - 1)
      BY <2>1
    <3>2. SubSeq(inactive_ctx, 1, n - 1) \in Seq(Seq(Items)) /\ Len(SubSeq(inactive_ctx, 1, n - 1)) = n - 1
      BY <1>0, Cut
    <3>3. \A c \in 1..(n - 1) : SubSeq(inactive_ctx, 1, n - 1)[c] = inactive_ctx[c]
      BY <1>0, Cut
    <3>. QED
      BY <3>1, <3>2, <3>3
  <2>. QED
    BY <2>2
<1>2. items' = inactive_ctx[l] /\ l \in DOMAIN inactive_ctx /\ items' \in Seq(Items)
  BY <1>0 DEF Last
<1>3. \A t \in Threads : Hand(job'[t]) = {} /\ Where(job'[t]) = {}
  BY DEF Hand, Where
<1>4. Unborn' = Unborn
  BY DEF Unborn
<1>5. \A c \in DOMAIN x : c \in DOMAIN inactive_ctx /\ c # l /\ x[c] = inactive_ctx[c]
  BY <1>0, <1>1
<1>6. NoneTwice'
  BY <1>2, <1>5 DEF OwnInv, NoneTwice
<1>7. ListsApart'
  BY <1>2, <1>5 DEF OwnInv, ListsApart
<1>8. HeldApart'
  BY <1>3 DEF HeldApart
<1>9. AllBorn'
  BY <1>2, <1>3, <1>4, <1>5 DEF OwnInv, AllBorn
<1>10. CallsApart' /\ ClearsApart'
  BY <1>3 DEF CallsApart, ClearsApart, Threads
<1>11. \A t \in Threads : Fits(job'[t], img')
  BY DEF Fits, CallOps
<1>. QED
  BY <1>1, <1>2, <1>6, <1>7, <1>8, <1>9, <1>10, <1>11 DEF OwnInv


-----------------------------------------------------------------------------
\* The calls begin.
LEMMA Starts ==
    ASSUME NEW o \in CallOps, NEW i \in Items, NEW s \in Shows, NEW e \in Seen,
           NEW b \in {"idle", "batch", "clear", "link"}, NEW j, j = Step(o, i, s, e, b)
    PROVE  /\ j \in Jobs /\ j.op = o /\ j.item = i /\ j.as = s /\ j.back = b
<1>1. j \in Calls /\ j.op = o /\ j.item = i /\ j.as = s /\ j.back = b
  BY DEF Step, Calls
<1>. QED
  BY <1>1 DEF Jobs

LEMMA BeginsOwn == ASSUME ShapeInv, PicTyped, OwnInv, NEW t \in Threads, Begins(t) PROVE PicTyped' /\ OwnInv'
<1>. USE DEF Turn, KeepLists
<1>0. /\ Idle \in Jobs /\ Idle.op = "idle" /\ [op |-> "batch"] \in Jobs
      /\ \A o \in {"idle", "batch"} : o \notin CallOps
      /\ items \in Seq(Items) /\ Once(items)
  BY JobsTyped DEF Idle, CallOps, OwnInv, NoneTwice
<1>1. CASE fb_batch_start(t) \/ fb_batch_end(t)
  <2>1. UNCHANGED <<pictureVars, items, inactive_ctx>>
    BY <1>1 DEF fb_batch_start, fb_batch_end
  <2>2. PICK j \in {Idle, [op |-> "batch"]} : job' = [job EXCEPT ![t] = j]
    BY <1>1 DEF fb_batch_start, fb_batch_end
  <2>3. j \in Jobs /\ j.op \notin CallOps /\ ~Clears(j)
    BY <1>0 DEF Clears
  <2>4. OwnInv'
    BY <2>1, <2>2, <2>3, Rests DEF pictureVars
  <2>. QED
    BY <2>1, <2>4, SamePictures DEF pictureVars
<1>2. ASSUME NEW i \in Items, NEW k \in Texts, NEW c \in Colours, fb_text_finalize(t, i, k, c)
      PROVE  PicTyped' /\ OwnInv'
  <2>. PICK s : s = [kind |-> "text", text |-> k, colour |-> c, data |-> NoPixels]
    OBVIOUS
  <2>. PICK j : j = Step("render", i, s, "none", "link")
    OBVIOUS
  <2>1. s \in TextItem /\ s \in Shows /\ "render" \in CallOps
    BY DEF TextItem, Shows, Pixels, NoPixels, CallOps
  <2>2. j \in Jobs /\ j.op = "render" /\ j.item = i /\ j.as = s /\ j.back = "link"
    BY <2>1, Starts, SeenTyped
  <2>3. /\ job[t].op \notin CallOps /\ i \in Unborn /\ Free(t, i) /\ UNCHANGED <<items, inactive_ctx>>
        /\ show_plain(i, Blank) /\ job' = [job EXCEPT ![t] = j]
    BY <1>0, <1>2 DEF fb_text_finalize, Ready
  <2>4. PicTyped'
    BY <2>3, Kinds, PlainTyped
  <2>5. img' = [img EXCEPT ![i] = Blank] /\ img'[i] = Blank
    BY <2>3 DEF show_plain, PicTyped
  <2>6. Fits(j, img')
    BY <2>1, <2>2, <2>5 DEF Fits
  <2>7. OwnInv'
    BY <2>1, <2>2, <2>3, <2>5, <2>6, Kinds, Makes
  <2>. QED
    BY <2>4, <2>7
<1>3. ASSUME NEW i \in Items, NEW p \in Paths, fb_add_png_img(t, i, p) PROVE PicTyped' /\ OwnInv'
  <2>. PICK s : s = [kind |-> "png", path |-> p]
    OBVIOUS
  <2>. PICK e \in Seen : e = SeenFile(p)
    BY SeenTyped
  <2>. PICK j : j = Step("get", i, s, e, "link")
    OBVIOUS
  <2>1. s \in PngItem /\ s \in Shows /\ "get" \in CallOps
    BY DEF PngItem, Shows, CallOps
  <2>2. j \in Jobs /\ j.op = "get" /\ j.item = i /\ j.as = s /\ j.back = "link"
    BY <2>1, Starts
  <2>3. /\ job[t].op \notin CallOps /\ i \in Unborn /\ Free(t, i) /\ UNCHANGED <<items, inactive_ctx>>
        /\ show_plain(i, Blank) /\ job' = [job EXCEPT ![t] = j]
    BY <1>0, <1>3 DEF fb_add_png_img, Ready
  <2>4. PicTyped'
    BY <2>3, Kinds, PlainTyped
  <2>5. img' = [img EXCEPT ![i] = Blank] /\ img'[i] = Blank
    BY <2>3 DEF show_plain, PicTyped
  <2>6. Fits(j, img')
    BY <2>1, <2>2, <2>5 DEF Fits
  <2>7. OwnInv'
    BY <2>1, <2>2, <2>3, <2>5, <2>6, Kinds, Makes
  <2>. QED
    BY <2>4, <2>7
<1>4. ASSUME NEW i \in Items, fb_add_rect(t, i) PROVE PicTyped' /\ OwnInv'
  <2>. PICK s : s = [kind |-> "plain"]
    OBVIOUS
  <2>. PICK j : j = Step("link", i, Blank, "none", "link")
    OBVIOUS
  <2>1. s \in PlainItem /\ s \in Shows /\ s.kind = "plain" /\ "link" \in CallOps
    BY DEF PlainItem, Shows, CallOps
  <2>2. j \in Jobs /\ j.op = "link" /\ j.item = i /\ j.back = "link"
    BY <2>1, Starts, SeenTyped
  <2>3. /\ job[t].op \notin CallOps /\ i \in Unborn /\ Free(t, i) /\ UNCHANGED <<items, inactive_ctx>>
        /\ show_plain(i, s) /\ job' = [job EXCEPT ![t] = j]
    BY <1>0, <1>4 DEF fb_add_rect, Ready
  <2>4. PicTyped'
    BY <2>1, <2>3, PlainTyped
  <2>5. img' = [img EXCEPT ![i] = s]
    BY <2>3 DEF show_plain
  <2>6. Fits(j, img')
    BY <2>2 DEF Fits
  <2>7. OwnInv'
    BY <2>1, <2>2, <2>3, <2>5, <2>6, Makes
  <2>. QED
    BY <2>4, <2>7
<1>5. ASSUME NEW i \in Items, fb_ctx_rm_item(t, i) PROVE PicTyped' /\ OwnInv'
  <2>. PICK b : b = job[t].op
    OBVIOUS
  <2>. PICK j : j = Step("destroy", i, Blank, "none", b)
    OBVIOUS
  <2>1. b \in {"idle", "batch"} /\ "destroy" \in CallOps
    BY <1>5 DEF fb_ctx_rm_item, Ready, CallOps
  <2>2. j \in Jobs /\ j.op = "destroy" /\ j.item = i /\ j.back = b /\ ~Clears(j)
    <3>1. j \in Jobs /\ j.op = "destroy" /\ j.item = i /\ j.back = b
      BY <2>1, Starts, SeenTyped
    <3>. QED
      BY <2>1, <3>1 DEF Clears
  <2>3. /\ Free(t, i) /\ UNCHANGED <<pictureVars, inactive_ctx>> /\ job' = [job EXCEPT ![t] = j]
    BY <1>5 DEF fb_ctx_rm_item
  <2>4. PICK n \in DOMAIN items : items[n] = i /\ items' = RemoveAt(items, n)
    BY <1>5 DEF fb_ctx_rm_item
  <2>5. n \in 1..Len(items) /\ i \in Range(items)
    BY <1>0, <2>4 DEF Range
  <2>6. items' \in Seq(Items) /\ Once(items') /\ Range(items') = Range(items) \ {i}
    BY <1>0, <2>4, <2>5, ListsTyped, Ranges
  <2>7. j.back # "link"
    BY <2>1, <2>2
  <2>8. OwnInv'
    BY <2>2, <2>3, <2>5, <2>6, <2>7, MovesOut DEF pictureVars
  <2>. QED
    BY <2>3, <2>8, SamePictures DEF pictureVars
<1>6. ASSUME NEW i \in Items, Changes(t, i), NEW s \in TextItem, NEW e \in Seen, NEW o \in {"unlink", "recolour"},
             job' = [job EXCEPT ![t] = Step(o, i, s, e, job[t].op)]
      PROVE  PicTyped' /\ OwnInv'
  <2>. PICK b : b = job[t].op
    OBVIOUS
  <2>. PICK j : j = Step(o, i, s, e, b)
    OBVIOUS
  <2>1. b \in {"idle", "batch"} /\ o \in CallOps /\ s \in Shows
    BY <1>6, Kinds DEF Changes, Ready, CallOps
  <2>2. j \in Jobs /\ j.op = o /\ j.item = i /\ j.as = s /\ j.back = b
    BY <2>1, Starts
  <2>3. /\ i \in Range(items) /\ img[i].kind = "text" /\ Free(t, i) /\ \A u \in Threads : ~Clearing(u)
        /\ UNCHANGED <<img, strings, png_cache, alive, apart, items, inactive_ctx>>
    BY <1>6 DEF Changes
  <2>4. Fits(j, img)
    BY <2>2, <2>3 DEF Fits
  <2>5. j.back \in {"idle", "batch"} /\ j.op \in CallOps /\ j.op \notin {"link", "destroy", "leave"}
    BY <2>1, <2>2
  <2>6. OwnInv'
    BY <1>6, <2>2, <2>3, <2>4, <2>5, Takes
  <2>. QED
    BY <2>3, <2>6, SamePictures
<1>7. ASSUME NEW i \in Items, NEW k \in Texts, ChangeText(t, i, k) PROVE PicTyped' /\ OwnInv'
  <2>. PICK s : s = [img[i] EXCEPT !.text = k]
    OBVIOUS
  <2>. PICK e \in Seen : e = SeenText(img[i].text, img[i].colour)
    BY SeenTyped
  <2>1. Changes(t, i) /\ job' = [job EXCEPT ![t] = Step("unlink", i, s, e, job[t].op)]
    BY <1>7 DEF ChangeText
  <2>2. img[i] \in TextItem
    BY <2>1, ItemTyped DEF Changes
  <2>3. s \in TextItem
    BY <2>2, Recast
  <2>. QED
    BY <1>6, <2>1, <2>3
<1>8. ASSUME NEW i \in Items, NEW c \in Colours, ChangeColour(t, i, c) PROVE PicTyped' /\ OwnInv'
  <2>. PICK s : s = [img[i] EXCEPT !.colour = c]
    OBVIOUS
  <2>. PICK e \in Seen : e = SeenText(img[i].text, img[i].colour)
    BY SeenTyped
  <2>1. Changes(t, i) /\ job' = [job EXCEPT ![t] = Step("recolour", i, s, e, job[t].op)]
    BY <1>8 DEF ChangeColour
  <2>2. img[i] \in TextItem
    BY <2>1, ItemTyped DEF Changes
  <2>3. s \in TextItem
    BY <2>2, Recast
  <2>. QED
    BY <1>6, <2>1, <2>3
<1>. QED
  BY <1>1, <1>2, <1>3, <1>4, <1>5, <1>7, <1>8 DEF Begins

\* fb_clear, item by item and entry by entry.
LEMMA ClearOwn == ASSUME ShapeInv, PicTyped, OwnInv, ClearStep PROVE PicTyped' /\ OwnInv'
<1>. USE DEF Turn, KeepLists
<1>0. /\ Idle \in Jobs /\ Idle.op = "idle" /\ [op |-> "clear"] \in Jobs /\ Main \in Threads /\ Input \in Threads
      /\ \A P \in SUBSET Paths : [op |-> "files", left |-> P] \in Jobs
      /\ \A K \in SUBSET Texts : [op |-> "texts", left |-> K] \in Jobs
      /\ items \in Seq(Items) /\ Once(items)
      /\ \A o \in {"idle", "clear", "files", "texts"} : o \notin CallOps
  BY JobsTyped DEF Idle, CallOps, OwnInv, NoneTwice, Threads
<1>1. CASE fb_clear
  <2>1. /\ UNCHANGED <<pictureVars, items, inactive_ctx>> /\ job' = [job EXCEPT ![Main] = [op |-> "clear"]]
        /\ At(Input) \cap Range(items) = {}
    BY <1>1 DEF fb_clear
  <2>2. Where(job[Input]) \cap Range(items) = {}
    BY <1>0, <2>1, Placed
  <2>3. OwnInv'
    BY <1>0, <2>1, <2>2, Rests DEF pictureVars
  <2>. QED
    BY <2>1, <2>3, SamePictures DEF pictureVars
<1>2. CASE ClearItem
  <2>. PICK i : i = Head(items)
    OBVIOUS
  <2>. PICK j : j = Step("destroy", i, Blank, "none", "clear")
    OBVIOUS
  <2>1. /\ job[Main].op = "clear" /\ items # <<>> /\ items' = Tail(items)
        /\ UNCHANGED <<pictureVars, inactive_ctx>> /\ job' = [job EXCEPT ![Main] = j]
    BY <1>2 DEF ClearItem
  <2>2. /\ Once(items') /\ Range(items') = Range(items) \ {i} /\ i \in Range(items) /\ i \in Items
    BY <1>0, <2>1, Ranges
  <2>3. items' \in Seq(Items)
    BY <1>0, <2>1, ListsTyped
  <2>4. j \in Jobs /\ j.op = "destroy" /\ j.item = i /\ j.back = "clear"
    <3>1. "destroy" \in CallOps
      BY DEF CallOps
    <3>. QED
      BY <2>2, <3>1, Starts, SeenTyped
  <2>5. Where(job[Input]) \cap Range(items) = {}
    BY <2>1 DEF OwnInv, ClearsApart, Clears
  <2>6. Free(Main, i)
    BY <1>0, <2>2, <2>5, Placed DEF Free, Threads
  <2>7. OwnInv'
    BY <1>0, <2>1, <2>2, <2>3, <2>4, <2>5, <2>6, MovesOut DEF pictureVars
  <2>. QED
    BY <2>1, <2>7, SamePictures DEF pictureVars
<1>3. ASSUME NEW j \in Jobs, job' = [job EXCEPT ![Main] = j], j.op \in {"files", "texts", "idle"},
             UNCHANGED <<img, items, inactive_ctx>>
      PROVE  OwnInv'
  BY <1>0, <1>3, Rests DEF Clears
<1>4. CASE Cleared
  <2>1. UNCHANGED <<img, strings, png_cache, alive, apart, items, inactive_ctx>>
    BY <1>4 DEF Cleared
  <2>2. \E P \in SUBSET Paths : job' = [job EXCEPT ![Main] = [op |-> "files", left |-> P]]
    BY <1>4 DEF Cleared
  <2>. QED
    BY <1>0, <1>3, <2>1, <2>2, SamePictures
<1>5. ASSUME NEW p \in Paths, DropFile(p) PROVE PicTyped' /\ OwnInv'
  <2>1. UNCHANGED <<img, items, inactive_ctx>> /\ fb_png_drop_unused(p)
    BY <1>5 DEF DropFile, fb_png_drop_unused
  <2>2. /\ job[Main].op = "files"
        /\ job' = [job EXCEPT ![Main] = [op |-> "files", left |-> job[Main].left \ {p}]]
    BY <1>5 DEF DropFile
  <2>3. job[Main].left \in SUBSET Paths
    BY <1>0, <2>2 DEF OwnInv, Jobs, Calls, CallOps
  <2>. QED
    BY <1>0, <1>3, <2>1, <2>2, <2>3, DropTyped
<1>6. CASE FilesDropped
  <2>1. UNCHANGED <<img, strings, png_cache, alive, apart, items, inactive_ctx>>
    BY <1>6 DEF FilesDropped
  <2>2. \E K \in SUBSET Texts : job' = [job EXCEPT ![Main] = [op |-> "texts", left |-> K]]
    BY <1>6 DEF FilesDropped
  <2>. QED
    BY <1>0, <1>3, <2>1, <2>2, SamePictures
<1>7. ASSUME NEW k \in Texts, DropText(k) PROVE PicTyped' /\ OwnInv'
  <2>1. UNCHANGED <<img, items, inactive_ctx>> /\ drop_strings_cache(k)
    BY <1>7 DEF DropText, drop_strings_cache
  <2>2. /\ job[Main].op = "texts"
        /\ job' = [job EXCEPT ![Main] = [op |-> "texts", left |-> job[Main].left \ {k}]]
    BY <1>7 DEF DropText
  <2>3. job[Main].left \in SUBSET Texts
    BY <1>0, <2>2 DEF OwnInv, Jobs, Calls, CallOps
  <2>. QED
    BY <1>0, <1>3, <2>1, <2>2, <2>3, DropTyped
<1>8. CASE TextsDropped
  <2>1. UNCHANGED <<pictureVars, items, inactive_ctx>> /\ job' = [job EXCEPT ![Main] = Idle]
    BY <1>8 DEF TextsDropped
  <2>. QED
    BY <1>0, <1>3, <2>1, SamePictures DEF pictureVars
<1>. QED
  BY <1>1, <1>2, <1>4, <1>5, <1>6, <1>7, <1>8 DEF ClearStep

\* The other steps, at no item.
LEMMA OwnKept == ShapeInv /\ PicTyped /\ OwnInv /\ [Next]_vars => PicTyped' /\ OwnInv'
<1>. SUFFICES ASSUME ShapeInv, PicTyped, OwnInv, [Next]_vars PROVE PicTyped' /\ OwnInv'
  OBVIOUS
<1>. USE DEF Turn, KeepLists, KeepItems
<1>0. /\ Main \in Threads /\ Input \in Threads /\ Idle \in Jobs /\ Idle.op = "idle"
      /\ \A o \in {"tested", "waiting", "freezing", "shot", "closing"} : [op |-> o] \in Jobs
      /\ \A o \in {"idle", "tested", "waiting", "freezing", "shot", "closing"} : o \notin CallOps
      /\ job \in [Threads -> Jobs]
  BY JobsTyped DEF Threads, Idle, CallOps, OwnInv
<1>1. ASSUME UNCHANGED <<pictureVars, items, inactive_ctx>>, NEW t \in Threads,
             NEW j \in {Idle} \cup {[op |-> o] : o \in {"tested", "waiting", "freezing", "shot", "closing"}},
             job' = [job EXCEPT ![t] = j]
      PROVE  PicTyped' /\ OwnInv'
  <2>1. j \in Jobs /\ j.op \in {"idle", "tested", "waiting", "freezing", "shot", "closing"}
    BY <1>0
  <2>2. OwnInv'
    BY <1>0, <1>1, <2>1, Rests DEF Clears, pictureVars
  <2>. QED
    BY <1>1, <2>2, SamePictures DEF pictureVars
<1>2. ASSUME UNCHANGED <<pictureVars, items, inactive_ctx, job>> PROVE PicTyped' /\ OwnInv'
  <2>1. OwnInv'
    BY <1>0, <1>2, SameOwn DEF pictureVars
  <2>. QED
    BY <1>2, <2>1, SamePictures DEF pictureVars
<1>3. ASSUME NEW t \in Threads, ItemCall(t) PROVE PicTyped' /\ OwnInv'
  <2>1. CASE fb_request_draw(t)
    BY <1>1, <2>1 DEF fb_request_draw
  <2>2. CASE Requested(t)
    BY <1>1, <2>2 DEF Requested
  <2>. QED
    BY <1>3, <2>1, <2>2, BeginsOwn, CallOwn, Zenon DEF ItemCall, Begins
<1>4. CASE fb_open \/ Opened \/ fb_unfreeze
  BY <1>2, <1>4 DEF fb_open, Opened, fb_unfreeze
<1>5. CASE fb_close \/ Closed
  BY <1>0, <1>1, <1>5 DEF fb_close, Closed
<1>6. CASE fb_force_draw \/ fb_freeze \/ Frozen
  BY <1>0, <1>1, <1>6 DEF fb_force_draw, fb_freeze, Frozen
<1>7. ASSUME Quiet PROVE \A t \in Threads : job[t].op \in {"idle", "tested", "shot"}
  BY <1>0, <1>7 DEF Quiet, Threads
<1>8. CASE fb_push_context
  <2>1. /\ UNCHANGED <<pictureVars, job>> /\ Quiet
        /\ inactive_ctx' = Append(inactive_ctx, items) /\ items' = <<>>
    BY <1>8 DEF fb_push_context
  <2>2. \A t \in Threads : job[t].op \notin CallOps /\ ~Clears(job[t])
    BY <1>0, <1>7, <2>1 DEF Clears
  <2>3. OwnInv'
    BY <2>1, <2>2, PutsAside DEF pictureVars
  <2>. QED
    BY <2>1, <2>3, SamePictures DEF pictureVars
<1>9. CASE fb_pop_context
  <2>1. /\ UNCHANGED pictureVars /\ Quiet /\ inactive_ctx # <<>>
        /\ items' = Last(inactive_ctx) /\ inactive_ctx' = Front(inactive_ctx)
    BY <1>9 DEF fb_pop_context
  <2>2. PICK j \in {Idle, [op |-> "tested"]} : job' = [job EXCEPT ![Main] = j]
    BY <1>9 DEF fb_pop_context
  <2>3. job' \in [Threads -> Jobs] /\ \A t \in Threads : job'[t].op \notin CallOps /\ ~Clears(job'[t])
    <3>1. j \in Jobs /\ j.op \in {"idle", "tested"}
      BY <1>0
    <3>2. \A t \in Threads : job'[t] = IF t = Main THEN j ELSE job[t]
      BY <1>0, <2>2
    <3>3. \A t \in Threads : job'[t].op \in {"idle", "tested", "shot"} /\ job'[t] \in Jobs
      BY <1>0, <1>7, <2>1, <3>1, <3>2
    <3>. QED
      BY <1>0, <2>2, <3>1, <3>3 DEF Clears
  <2>4. OwnInv'
    BY <2>1, <2>3, TakesBack DEF pictureVars
  <2>. QED
    BY <2>1, <2>4, SamePictures DEF pictureVars
<1>10. CASE fb_save_screenshot
  BY <1>0, <1>1, <1>10 DEF fb_save_screenshot
<1>11. CASE ShotTaken
  <2>1. UNCHANGED <<pictureVars, items, inactive_ctx>>
    BY <1>11 DEF ShotTaken
  <2>2. PICK j \in {Idle, [op |-> "tested"]} : job' = [job EXCEPT ![Input] = j]
    BY <1>11 DEF ShotTaken
  <2>. QED
    BY <1>0, <1>1, <2>1, <2>2
<1>12. CASE DrawThread
  <2>1. CASE DrawShown
    <3>1. UNCHANGED <<pictureVars, items, inactive_ctx>>
      BY <2>1 DEF DrawShown, KeepThreads
    <3>2. job' = [t \in Threads |-> IF job[t].op = "waiting" THEN Idle ELSE job[t]]
      BY <2>1 DEF DrawShown
    <3>3. job' \in [Threads -> Jobs]
      BY <1>0, <3>2
    <3>4. \A t \in Threads : job'[t] = job[t] \/ (job'[t].op \notin CallOps /\ ~Clears(job'[t]))
      BY <1>0, <3>2 DEF Clears
    <3>5. OwnInv'
      BY <3>1, <3>3, <3>4, SameOwn DEF pictureVars
    <3>. QED
      BY <3>1, <3>5, SamePictures DEF pictureVars
  <2>2. CASE DrawTaken \/ DrawBegin \/ DrawItem \/ DrawEnd \/ DrawThreadEnd
    <3>1. UNCHANGED <<pictureVars, items, inactive_ctx, job>>
      BY <2>2 DEF DrawTaken, DrawBegin, DrawItem, DrawEnd, DrawThreadEnd, KeepThreads
    <3>. QED
      BY <1>2, <3>1
  <2>. QED
    BY <1>12, <2>1, <2>2 DEF DrawThread
<1>13. CASE Vsync \/ UNCHANGED vars
  BY <1>2, <1>13 DEF Vsync, vars
<1>. QED
  BY <1>3, <1>4, <1>5, <1>6, <1>8, <1>9, <1>10, <1>11, <1>12, <1>13, ClearOwn, Zenon DEF Next, MainCall, ClearStep

LEMMA OwnBegins == Init => PicTyped /\ OwnInv
<1>. SUFFICES ASSUME Init PROVE PicTyped /\ OwnInv
  OBVIOUS
<1>0. PicturesInit /\ items = <<>> /\ inactive_ctx = <<>> /\ job = [t \in Threads |-> Idle]
  BY DEF Init
<1>1. PicTyped
  <2>1. alive = {} /\ IsFiniteSet({})
    BY <1>0, FS_EmptySet DEF PicturesInit
  <2>2. apart \in BOOLEAN
    BY <1>0 DEF PicturesInit
  <2>. QED
    BY <1>0, <2>1, <2>2, Kinds DEF PicturesInit, PicTyped, Keeps, Files
<1>2. items \in Seq(Items) /\ inactive_ctx \in Seq(Seq(Items)) /\ job \in [Threads -> Jobs]
  BY <1>0, JobsTyped
<1>3. Range(items) = {} /\ DOMAIN items = {} /\ DOMAIN inactive_ctx = {}
  BY <1>0 DEF Range
<1>4. \A t \in Threads : job[t].op = "idle" /\ job[t].op \notin CallOps /\ ~Clears(job[t])
  BY <1>0 DEF Idle, CallOps, Clears
<1>5. \A t \in Threads : Where(job[t]) = {} /\ Hand(job[t]) = {} /\ Fits(job[t], img)
  BY <1>2, <1>4 DEF Where, Hand, Fits, CallOps
<1>6. NoneTwice /\ ListsApart /\ HeldApart /\ AllBorn /\ CallsApart /\ ClearsApart
  BY <1>3, <1>4, <1>5 DEF NoneTwice, Once, ListsApart, HeldApart, AllBorn, CallsApart, ClearsApart, Threads
<1>. QED
  BY <1>1, <1>2, <1>5, <1>6 DEF OwnInv

\* An item is in one list at most and there once, or in the hands of one call that makes
\* or destroys it, and no two calls are at the same one, whatever is made, changed,
\* removed, cleared or put aside with its context: nothing is destroyed while a list still
\* has it (fb_ctx_rm_item, fb_clear, fb_push_context, fb_pop_context), as long as no two
\* threads ask for the same item at a time, which their callers see to.
THEOREM OneOwner == Spec => []OwnInv
<1>1. PicTyped /\ OwnInv /\ ShapeInv => OwnInv
  OBVIOUS
<1>. QED
  BY OwnBegins, OwnKept, ShapeBegins, ShapeKept, PTL DEF Spec

-----------------------------------------------------------------------------
\* The rest of the state.
LocksInv ==
    /\ ctxLock \in Threads \cup {NoOne, Draw} /\ drawLock \in Threads \cup {NoOne, Draw}
    /\ requested \in BOOLEAN /\ frozen \in BOOLEAN /\ draw_run \in BOOLEAN
    /\ why \in {"no one", "open", "late", "force"}

FrameInv ==
    /\ pc \in {"none", "opening", "check", "begin", "paint", "update", "ended"}
    /\ it \in Nat \ {0} /\ canvas \in Seq(Items)

LEMMA LocksKept == ShapeInv /\ LocksInv /\ [Next]_vars => LocksInv'
<1>. SUFFICES ASSUME ShapeInv, LocksInv, [Next]_vars PROVE LocksInv'
  OBVIOUS
<1>. USE DEF LocksInv, KeepDraw, drawVars, KeepLists, KeepItems, NoOne, Draw
<1>0. Main \in Threads /\ Input \in Threads
  BY DEF Threads
<1>1. ASSUME NEW t \in Threads, Moves(t) PROVE LocksInv'
  BY <1>1 DEF Moves, Moved, Undrawn
<1>2. ASSUME NEW t \in Threads, ItemCall(t) PROVE LocksInv'
  <2>1. CASE fb_request_draw(t)
    BY <2>1 DEF fb_request_draw
  <2>2. CASE Requested(t)
    BY <2>2 DEF Requested, Request
  <2>. QED
    BY <1>1, <1>2, <2>1, <2>2, ItemMoves, Zenon DEF ItemCall, Begins
<1>3. CASE MainCall
  <2>1. CASE fb_open \/ Opened
    BY <2>1 DEF fb_open, Opened
  <2>2. CASE fb_close \/ Closed
    BY <2>2 DEF fb_close, Closed
  <2>3. CASE ClearStep
    BY <1>0, <1>1, <2>3, ClearMoves
  <2>4. CASE fb_force_draw
    BY <2>4 DEF fb_force_draw, Request
  <2>5. CASE fb_freeze \/ Frozen \/ fb_unfreeze
    BY <2>5 DEF fb_freeze, Frozen, fb_unfreeze
  <2>6. CASE fb_push_context \/ fb_pop_context
    BY <2>6 DEF fb_push_context, fb_pop_context
  <2>. QED
    BY <1>3, <2>1, <2>2, <2>3, <2>4, <2>5, <2>6 DEF MainCall, ClearStep
<1>4. CASE fb_save_screenshot \/ ShotTaken
  BY <1>0, <1>4 DEF fb_save_screenshot, ShotTaken
<1>5. CASE DrawThread
  BY <1>5 DEF DrawThread, DrawTaken, DrawBegin, DrawItem, DrawEnd, DrawShown, DrawThreadEnd, KeepThreads
<1>6. CASE Vsync \/ UNCHANGED vars
  BY <1>6 DEF Vsync, vars
<1>. QED
  BY <1>2, <1>3, <1>4, <1>5, <1>6 DEF Next

LEMMA FrameKept == ShapeInv /\ FrameInv /\ [Next]_vars => FrameInv'
<1>. SUFFICES ASSUME ShapeInv, FrameInv, [Next]_vars PROVE FrameInv'
  OBVIOUS
<1>. USE DEF FrameInv, KeepDraw, drawVars, KeepLists, KeepItems
<1>1. CASE UNCHANGED <<pc, it, canvas>>
  BY <1>1
<1>2. ASSUME NEW t \in Threads, Moves(t) PROVE FrameInv'
  BY <1>1, <1>2 DEF Moves, Moved, Undrawn
<1>3. CASE DrawThread
  <2>1. CASE DrawTaken \/ DrawThreadEnd
    BY <2>1 DEF DrawTaken, DrawThreadEnd
  <2>2. CASE DrawBegin \/ DrawEnd
    BY <2>2 DEF DrawBegin, DrawEnd
  <2>3. CASE DrawShown
    <3>1. <<>> \in Seq(Items)
      OBVIOUS
    <3>. QED
      BY <2>3, <3>1 DEF DrawShown
  <2>4. CASE DrawItem
    <3>0. items \in Seq(Items)
      BY DEF ShapeInv
    <3>1. it \in 1..Len(items) /\ pc' = pc
      BY <2>4, <3>0 DEF DrawItem
    <3>2. items[it] \in Items
      BY <3>0, <3>1
    <3>3. canvas' \in Seq(Items)
      BY <2>4, <3>2, AppendProperties DEF DrawItem
    <3>4. it' \in Nat \ {0}
      BY <2>4 DEF DrawItem
    <3>. QED
      BY <3>1, <3>3, <3>4
  <2>. QED
    BY <1>3, <2>1, <2>2, <2>3, <2>4 DEF DrawThread
<1>4. CASE MainCall
  <2>0. Main \in Threads
    BY DEF Threads
  <2>1. CASE fb_open \/ Opened \/ Closed
    BY <2>1 DEF fb_open, Opened, Closed
  <2>2. CASE ClearStep
    BY <1>2, <2>0, <2>2, ClearMoves
  <2>3. CASE fb_close \/ fb_push_context \/ fb_pop_context \/ fb_force_draw \/ fb_freeze \/ Frozen \/ fb_unfreeze
    BY <1>1, <2>3 DEF fb_close, fb_push_context, fb_pop_context, fb_force_draw, fb_freeze, Frozen, fb_unfreeze
  <2>. QED
    BY <1>4, <2>1, <2>2, <2>3 DEF MainCall, ClearStep
<1>5. ASSUME NEW t \in Threads, ItemCall(t) PROVE FrameInv'
  <2>1. CASE fb_request_draw(t) \/ Requested(t)
    BY <1>1, <2>1 DEF fb_request_draw, Requested
  <2>. QED
    BY <1>2, <1>5, <2>1, ItemMoves, Zenon DEF ItemCall, Begins
<1>6. CASE fb_save_screenshot \/ ShotTaken \/ Vsync \/ UNCHANGED vars
  BY <1>1, <1>6 DEF fb_save_screenshot, ShotTaken, Vsync, vars
<1>. QED
  BY <1>3, <1>4, <1>5, <1>6 DEF Next

\* Where a step notes that threads have met in a cache.
BothCaches == {"png", "strings"}

LEMMA RacedKept == raced \subseteq BothCaches /\ [Next]_vars => raced' \subseteq BothCaches
<1>. SUFFICES ASSUME raced \subseteq BothCaches, [Next]_vars PROVE raced' \subseteq BothCaches
  OBVIOUS
<1>. USE DEF BothCaches, KeepItems, KeepThreads, pictureVars
<1>1. \A t : Meet(t, "png") \/ Meet(t, "strings") => raced' \subseteq BothCaches
  BY DEF Meet
<1>2. CASE UNCHANGED raced
  BY <1>2
<1>3. ASSUME NEW t \in Threads, ItemCall(t) PROVE raced' \subseteq BothCaches
  BY <1>1, <1>3 DEF ItemCall, fb_batch_start, fb_batch_end, fb_text_finalize, fb_add_png_img, fb_add_rect,
     fb_ctx_rm_item, ChangeText, ChangeColour, Changes, CallStep, fb_text_render, Used, Stored, Finished, Got,
     fb_ctx_add_item, Unlinked, Recoloured, Painted, fb_destroy_item, Left, fb_request_draw, Requested
<1>4. CASE MainCall
  BY <1>1, <1>4 DEF MainCall, fb_open, Opened, fb_close, Closed, fb_clear, ClearItem, Cleared, DropFile, FilesDropped,
     DropText, TextsDropped, fb_push_context, fb_pop_context, fb_force_draw, fb_freeze, Frozen, fb_unfreeze
<1>5. CASE fb_save_screenshot \/ ShotTaken \/ Vsync \/ UNCHANGED vars \/ DrawThread
  BY <1>5 DEF fb_save_screenshot, ShotTaken, Vsync, vars, DrawThread, DrawTaken, DrawBegin, DrawItem, DrawEnd,
     DrawShown, DrawThreadEnd
<1>. QED
  BY <1>3, <1>4, <1>5 DEF Next

\* Every variable of the frame buffer keeps its type, the calls' items and pictures among
\* them, whatever the caches' races have done.
THEOREM FramebufferTyped == Spec => []FramebufferTypeOK
<1> DEFINE AllInv == ShapeInv /\ PicTyped /\ OwnInv /\ LocksInv /\ FrameInv /\ BufferInv /\ raced \subseteq BothCaches
<1>1. Init => AllInv
  <2>. SUFFICES ASSUME Init PROVE AllInv
    OBVIOUS
  <2>1. /\ ctxLock = NoOne /\ drawLock = NoOne /\ why = NoOne /\ pc = "none" /\ it = 1 /\ canvas = <<>>
        /\ requested = FALSE /\ frozen = FALSE /\ draw_run = FALSE /\ raced = {}
    BY DEF Init, PicturesInit
  <2>2. LocksInv
    BY <2>1 DEF LocksInv, NoOne
  <2>3. FrameInv
    BY <2>1 DEF FrameInv
  <2>. QED
    BY <2>1, <2>2, <2>3, ShapeBegins, OwnBegins, BuffersBegin
<1>2. AllInv /\ [Next]_vars => AllInv'
  BY ShapeKept, OwnKept, LocksKept, FrameKept, StepKeepsBufferInv, RacedKept
<1>3. AllInv => FramebufferTypeOK
  <2>. SUFFICES ASSUME AllInv PROVE FramebufferTypeOK
    OBVIOUS
  <2>1. PicturesTypeOK
    BY PicturesTyped DEF BothCaches
  <2>. QED
    BY <2>1 DEF LocksInv, FrameInv, OwnInv, BufferInv, FramebufferTypeOK
<1>. QED
  BY <1>1, <1>2, <1>3, PTL DEF Spec

-----------------------------------------------------------------------------
\* What the caches of pictures count on as long as no two threads are at one together.
\* A file's entry counts the items that show it.
\* Of the texts' cache, for items f, entries s and allocated pixels a: what is allocated
\* is shown or kept for later; an entry counts the items that show its text and has
\* their pixels and colour; no two entries share pixels, nor does an item those of
\* another text's entry; and two items that share pixels have them from an entry.
Texting(f) == {i \in Items : f[i].kind = "text"}
Users(f, k) == {i \in Texting(f) : f[i].text = k}
FileUsers(f, p) == {i \in Items : f[i].kind = "png" /\ f[i].path = p}

FilesSound(f, c) ==
    \A p \in Paths : IF c[p] = Absent THEN FileUsers(f, p) = {} ELSE c[p].refcnt = Cardinality(FileUsers(f, p))

AllUsed(f, s, a) == a = {f[i].data : i \in Texting(f)} \cup {s[k].data : k \in Entries(s)}
AllCounted(f, s) == \A k \in Entries(s) : s[k].refcnt = Cardinality(Users(f, k))
Agree(f, s) == \A k \in Entries(s) : \A i \in Users(f, k) : f[i].data = s[k].data /\ f[i].colour = s[k].colour
OneEach(s) == \A k, l \in Entries(s) : s[k].data = s[l].data => k = l
OwnText(f, s) == \A i \in Texting(f), k \in Entries(s) : f[i].data = s[k].data => f[i].text = k
SharedThere(f, s) == \A i, j \in Texting(f) : f[i].data = f[j].data => i = j \/ f[i].text \in Entries(s)

Sound(f, s, a) == /\ AllUsed(f, s, a) /\ AllCounted(f, s) /\ Agree(f, s) /\ OneEach(s) /\ OwnText(f, s) /\ SharedThere(f, s)
LEMMA UsersFinite ==
    /\ \A f, k : IsFiniteSet(Users(f, k)) /\ Cardinality(Users(f, k)) \in Nat /\ Users(f, k) \subseteq Items
    /\ \A f, p : IsFiniteSet(FileUsers(f, p)) /\ Cardinality(FileUsers(f, p)) \in Nat
<1>1. \A S : S \subseteq Items => IsFiniteSet(S) /\ Cardinality(S) \in Nat
  BY PicturesAssumption, FS_Subset, FS_CardinalityType
<1>. QED
  BY <1>1 DEF Users, FileUsers, Texting

\* Items that show no text may change.
LEMMA SameTexts ==
    ASSUME NEW f, NEW s, NEW a, Sound(f, s, a), NEW g,
           \A i \in Items : g[i] = f[i] \/ (f[i].kind # "text" /\ g[i].kind # "text")
    PROVE  Sound(g, s, a)
<1>1. Texting(g) = Texting(f) /\ \A i \in Texting(f) : g[i] = f[i]
  BY DEF Texting
<1>2. \A k : Users(g, k) = Users(f, k)
  BY <1>1 DEF Users
<1>3. {g[i].data : i \in Texting(g)} = {f[i].data : i \in Texting(f)}
  BY <1>1
<1>4. AllUsed(g, s, a) /\ AllCounted(g, s)
  BY <1>2, <1>3 DEF Sound, AllUsed, AllCounted
<1>5. Agree(g, s)
  <2>1. \A k : \A j \in Users(f, k) : j \in Texting(f)
    BY DEF Users
  <2>. QED
    BY <1>1, <1>2, <2>1 DEF Sound, Agree
<1>6. OwnText(g, s) /\ SharedThere(g, s)
  BY <1>1 DEF Sound, OwnText, SharedThere
<1>. QED
  BY <1>4, <1>5, <1>6 DEF Sound

LEMMA SameFiles ==
    ASSUME NEW f, NEW c, FilesSound(f, c), NEW g,
           \A i \in Items : g[i] = f[i] \/ (f[i].kind # "png" /\ g[i].kind # "png")
    PROVE  FilesSound(g, c)
<1>1. \A p : FileUsers(g, p) = FileUsers(f, p)
  BY DEF FileUsers
<1>. QED
  BY <1>1 DEF FilesSound

-----------------------------------------------------------------------------
\* Items, entries and pixels, step by step: one leaves its text, one finds the entry of its
\* text, one shows new pixels, and one puts them into the cache.
LEMMA ShowsAfter ==
    ASSUME NEW f, NEW i \in Items, NEW r, NEW g, \A j \in Items : g[j] = IF j = i THEN r ELSE f[j]
    PROVE  /\ Texting(g) = IF r.kind = "text" THEN Texting(f) \cup {i} ELSE Texting(f) \ {i}
           /\ \A k : Users(g, k) = IF r.kind = "text" /\ r.text = k THEN Users(f, k) \cup {i} ELSE Users(f, k) \ {i}
<1>1. Texting(g) = IF r.kind = "text" THEN Texting(f) \cup {i} ELSE Texting(f) \ {i}
  BY DEF Texting
<1>2. ASSUME NEW k
      PROVE  Users(g, k) = IF r.kind = "text" /\ r.text = k THEN Users(f, k) \cup {i} ELSE Users(f, k) \ {i}
  BY <1>1 DEF Users, Texting
<1>. QED
  BY <1>1, <1>2

LEMMA TextAfter ==
    ASSUME NEW f, NEW i \in Items, NEW r, NEW k, NEW g, \A j \in Items : g[j] = IF j = i THEN r ELSE f[j],
           r.kind = "text", r.text = k
    PROVE  /\ Texting(g) = Texting(f) \cup {i}
           /\ Users(g, k) = Users(f, k) \cup {i}
           /\ \A l : l # k => Users(g, l) = Users(f, l) \ {i}
BY ShowsAfter

LEMMA Leaves ==
    ASSUME NEW f \in [Items -> Shows], NEW s \in [Texts -> Keeps], NEW a, Sound(f, s, a),
           NEW i \in Items, f[i] \in TextItem, NEW k \in Texts, k = f[i].text, NEW r, r.kind # "text"
    PROVE  /\ k \in Entries(s) => Sound([f EXCEPT ![i] = r], [s EXCEPT ![k].refcnt = @ + (-1)], a)
           /\ k \notin Entries(s) => Sound([f EXCEPT ![i] = r], s, a \ {f[i].data})
<1>g. PICK g : g = [f EXCEPT ![i] = r]
  OBVIOUS
<1>0. /\ \A j \in Items : g[j] = IF j = i THEN r ELSE f[j]
      /\ Texting(g) = Texting(f) \ {i}
      /\ \A l : Users(g, l) = Users(f, l) \ {i}
  <2>1. \A j \in Items : g[j] = IF j = i THEN r ELSE f[j]
    BY <1>g
  <2>. QED
    BY <2>1, ShowsAfter
<1>1. i \in Texting(f) /\ i \in Users(f, k) /\ \A l : i \in Users(f, l) => l = k
  BY DEF Texting, Users, TextItem
<1>2. /\ \A j \in Texting(f) : j \in Items
      /\ \A l : Users(f, l) \subseteq Texting(f) /\ \A j \in Users(f, l) : f[j].text = l
  BY DEF Texting, Users
<1>3. CASE k \in Entries(s)
  <2>. PICK e \in StringsEntry : e = s[k]
    BY <1>3, KeepsTyped
  <2>x. PICK x : x = [e EXCEPT !.refcnt = @ - 1]
    OBVIOUS
  <2>u. PICK u : u = [s EXCEPT ![k].refcnt = @ + (-1)]
    OBVIOUS
  <2>1. x \in StringsEntry /\ x # Absent /\ x.data = e.data /\ x.colour = e.colour /\ x.refcnt = e.refcnt - 1
    BY <2>x, NotAbsent DEF StringsEntry
  <2>2. \A l \in Texts : u[l] = IF l = k THEN x ELSE s[l]
    BY <2>x, <2>u
  <2>3. Entries(u) = Entries(s) /\ \A l \in Entries(s) : l \in Texts /\ s[l] \in StringsEntry
    BY <1>3, <2>1, <2>2, KeepsTyped DEF Entries
  <2>4. \A l \in Entries(s) : u[l].data = s[l].data /\ u[l].colour = s[l].colour
    BY <2>1, <2>2, <2>3
  <2>5. AllUsed(g, u, a)
    <3>1. {u[l].data : l \in Entries(u)} = {s[l].data : l \in Entries(s)}
      BY <2>3, <2>4
    <3>2. f[i].data = s[k].data
      BY <1>1, <1>3 DEF Sound, Agree
    <3>3. {f[j].data : j \in Texting(f)} = {g[j].data : j \in Texting(g)} \cup {f[i].data}
      BY <1>0, <1>1, <1>2
    <3>. QED
      BY <1>3, <3>1, <3>2, <3>3 DEF Sound, AllUsed
  <2>6. AllCounted(g, u)
    <3>. SUFFICES ASSUME NEW l \in Entries(s) PROVE u[l].refcnt = Cardinality(Users(f, l) \ {i})
      BY <1>0, <2>3 DEF AllCounted
    <3>1. s[l].refcnt = Cardinality(Users(f, l))
      BY DEF Sound, AllCounted
    <3>2. Cardinality(Users(f, l) \ {i}) = IF i \in Users(f, l) THEN Cardinality(Users(f, l)) - 1 ELSE Cardinality(Users(f, l))
      BY UsersFinite, FS_RemoveElement
    <3>. QED
      BY <1>1, <2>1, <2>2, <2>3, <3>1, <3>2
  <2>7. Agree(g, u)
    BY <1>0, <1>2, <2>3, <2>4 DEF Sound, Agree
  <2>8. OneEach(u)
    BY <2>3, <2>4 DEF Sound, OneEach
  <2>9. OwnText(g, u) /\ SharedThere(g, u)
    BY <1>0, <1>2, <2>3, <2>4 DEF Sound, OwnText, SharedThere
  <2>. QED
    BY <1>g, <1>3, <2>u, <2>5, <2>6, <2>7, <2>8, <2>9 DEF Sound
<1>4. CASE k \notin Entries(s)
  <2>1. \A j \in Texting(f) : j # i => f[j].data # f[i].data
    BY <1>1, <1>4 DEF Sound, SharedThere
  <2>2. \A l \in Entries(s) : s[l].data # f[i].data
    BY <1>1, <1>4 DEF Sound, OwnText
  <2>3. AllUsed(g, s, a \ {f[i].data})
    <3>1. {g[j].data : j \in Texting(g)} = {f[j].data : j \in Texting(f)} \ {f[i].data}
      BY <1>0, <1>2, <2>1
    <3>2. {s[l].data : l \in Entries(s)} = {s[l].data : l \in Entries(s)} \ {f[i].data}
      BY <2>2
    <3>. QED
      BY <3>1, <3>2 DEF Sound, AllUsed
  <2>4. AllCounted(g, s)
    <3>1. \A l \in Entries(s) : Users(g, l) = Users(f, l)
      BY <1>0, <1>1, <1>4
    <3>. QED
      BY <3>1 DEF Sound, AllCounted
  <2>5. Agree(g, s)
    BY <1>0, <1>2 DEF Sound, Agree
  <2>6. OwnText(g, s) /\ SharedThere(g, s)
    BY <1>0, <1>2 DEF Sound, OwnText, SharedThere
  <2>. QED
    BY <1>g, <1>4, <2>3, <2>4, <2>5, <2>6 DEF Sound
<1>. QED
  BY <1>3, <1>4

LEMMA Finds ==
    ASSUME NEW f \in [Items -> Shows], NEW s \in [Texts -> Keeps], NEW a, Sound(f, s, a),
           NEW i \in Items, f[i].kind # "text", NEW r \in TextItem, NEW k \in Entries(s),
           r.text = k, r.data = s[k].data, r.colour = s[k].colour
    PROVE  Sound([f EXCEPT ![i] = r], [s EXCEPT ![k].refcnt = @ + 1], a)
<1>g. PICK g : g = [f EXCEPT ![i] = r]
  OBVIOUS
<1>u. PICK u : u = [s EXCEPT ![k].refcnt = @ + 1]
  OBVIOUS
<1>0. /\ \A j \in Items : g[j] = IF j = i THEN r ELSE f[j]
      /\ Texting(g) = Texting(f) \cup {i}
      /\ Users(g, k) = Users(f, k) \cup {i}
      /\ \A l : l # k => Users(g, l) = Users(f, l) \ {i}
  <2>1. r.kind = "text"
    BY DEF TextItem
  <2>2. \A j \in Items : g[j] = IF j = i THEN r ELSE f[j]
    BY <1>g
  <2>3. Texting(g) = Texting(f) \cup {i}
    BY <2>1, <2>2 DEF Texting
  <2>4. \A l : Users(g, l) = IF l = k THEN Users(f, l) \cup {i} ELSE Users(f, l) \ {i}
    BY <2>1, <2>2, <2>3 DEF Users, Texting
  <2>. QED
    BY <2>2, <2>3, <2>4
<1>1. /\ i \notin Texting(f) /\ \A j \in Texting(f) : j \in Items
      /\ \A l : Users(f, l) \subseteq Texting(f) /\ \A j \in Users(f, l) : f[j].text = l
  BY DEF Texting, Users
<1>2. k \in Texts
  BY DEF Entries
<1>. PICK e \in StringsEntry : e = s[k]
  BY KeepsTyped
<1>x. PICK x : x = [e EXCEPT !.refcnt = @ + 1]
  OBVIOUS
<1>3. x \in StringsEntry /\ x # Absent /\ x.data = e.data /\ x.colour = e.colour /\ x.refcnt = e.refcnt + 1
  BY <1>x, NotAbsent DEF StringsEntry
<1>4. \A l \in Texts : u[l] = IF l = k THEN x ELSE s[l]
  BY <1>x, <1>u
<1>5. Entries(u) = Entries(s) /\ \A l \in Entries(s) : l \in Texts /\ s[l] \in StringsEntry
  BY <1>2, <1>3, <1>4, KeepsTyped DEF Entries
<1>6. \A l \in Entries(s) : u[l].data = s[l].data /\ u[l].colour = s[l].colour
  BY <1>3, <1>4, <1>5
<1>7. AllUsed(g, u, a)
  <2>1. {u[l].data : l \in Entries(u)} = {s[l].data : l \in Entries(s)}
    BY <1>5, <1>6
  <2>2. {g[j].data : j \in Texting(g)} = {f[j].data : j \in Texting(f)} \cup {s[k].data}
    BY <1>0, <1>1
  <2>. QED
    BY <2>1, <2>2 DEF Sound, AllUsed
<1>8. AllCounted(g, u)
  <2>. SUFFICES ASSUME NEW l \in Entries(s) PROVE u[l].refcnt = Cardinality(Users(g, l))
    BY <1>5 DEF AllCounted
  <2>1. s[l].refcnt = Cardinality(Users(f, l)) /\ i \notin Users(f, l)
    BY <1>1 DEF Sound, AllCounted
  <2>2. Users(f, l) \ {i} = Users(f, l)
    BY <2>1
  <2>3. Cardinality(Users(f, l) \cup {i}) = Cardinality(Users(f, l)) + 1
    BY <2>1, UsersFinite, FS_AddElement
  <2>. QED
    BY <1>0, <1>3, <1>4, <1>5, <2>1, <2>2, <2>3
<1>9. Agree(g, u)
  <2>. SUFFICES ASSUME NEW l \in Entries(s), NEW j \in Users(g, l)
                PROVE  g[j].data = s[l].data /\ g[j].colour = s[l].colour
    BY <1>5, <1>6 DEF Agree
  <2>1. CASE j = i
    BY <1>0, <2>1
  <2>2. CASE j # i
    <3>1. j \in Users(f, l) /\ j \in Items
      BY <1>0, <1>1, <2>2
    <3>. QED
      BY <1>0, <2>2, <3>1 DEF Sound, Agree
  <2>. QED
    BY <2>1, <2>2
<1>10. OneEach(u)
  BY <1>5, <1>6 DEF Sound, OneEach
<1>11. OwnText(g, u)
  BY <1>0, <1>1, <1>5, <1>6 DEF Sound, OwnText, OneEach
<1>12. SharedThere(g, u)
  BY <1>0, <1>1, <1>5 DEF Sound, SharedThere, OwnText
<1>. QED
  BY <1>g, <1>u, <1>7, <1>8, <1>9, <1>10, <1>11, <1>12 DEF Sound

\* New pixels of a text that has no entry.
LEMMA Renders ==
    ASSUME NEW f \in [Items -> Shows], NEW s \in [Texts -> Keeps], NEW a, Sound(f, s, a),
           NEW i \in Items, f[i].kind # "text", NEW r \in TextItem, r.text \notin Entries(s), r.data \notin a
    PROVE  Sound([f EXCEPT ![i] = r], s, a \cup {r.data})
<1>g. PICK g : g = [f EXCEPT ![i] = r]
  OBVIOUS
<1>0. /\ \A j \in Items : g[j] = IF j = i THEN r ELSE f[j]
      /\ Texting(g) = Texting(f) \cup {i}
      /\ \A l \in Entries(s) : Users(g, l) = Users(f, l) \ {i}
  <2>1. r.kind = "text"
    BY DEF TextItem
  <2>2. \A j \in Items : g[j] = IF j = i THEN r ELSE f[j]
    BY <1>g
  <2>. QED
    BY <2>1, <2>2, TextAfter
<1>1. /\ i \notin Texting(f) /\ \A j \in Texting(f) : j \in Items
      /\ \A l : Users(f, l) \subseteq Texting(f) /\ \A j \in Users(f, l) : f[j].text = l
  BY DEF Texting, Users
<1>2. /\ \A j \in Texting(f) : f[j].data \in a
      /\ \A l \in Entries(s) : s[l].data \in a
  BY DEF Sound, AllUsed
<1>3. \A l \in Entries(s) : Users(g, l) = Users(f, l)
  <2>1. \A l : i \notin Users(f, l)
    BY <1>1
  <2>. QED
    BY <1>0, <2>1
<1>4. AllUsed(g, s, a \cup {r.data})
  <2>1. {g[j].data : j \in Texting(g)} = {f[j].data : j \in Texting(f)} \cup {r.data}
    BY <1>0, <1>1
  <2>. QED
    BY <2>1 DEF Sound, AllUsed
<1>5. AllCounted(g, s)
  BY <1>3 DEF Sound, AllCounted
<1>6. Agree(g, s)
  BY <1>0, <1>1, <1>3 DEF Sound, Agree
<1>7. OwnText(g, s)
  BY <1>0, <1>1, <1>2 DEF Sound, OwnText
<1>8. SharedThere(g, s)
  BY <1>0, <1>1, <1>2 DEF Sound, SharedThere
<1>. QED
  BY <1>g, <1>4, <1>5, <1>6, <1>7, <1>8 DEF Sound

\* Its pixels go into the cache, if no other item shows the text from pixels of its own.
LEMMA Caches ==
    ASSUME NEW f \in [Items -> Shows], NEW s \in [Texts -> Keeps], NEW a, Sound(f, s, a),
           NEW i \in Items, f[i] \in TextItem, NEW k \in Texts, k = f[i].text, k \notin Entries(s),
           \A j \in Users(f, k) : f[j].data = f[i].data,
           NEW e \in StringsEntry, e.data = f[i].data, e.colour = f[i].colour, e.refcnt = 1
    PROVE  Sound(f, [s EXCEPT ![k] = e], a)
<1>u. PICK u : u = [s EXCEPT ![k] = e]
  OBVIOUS
<1>0. \A l \in Texts : u[l] = IF l = k THEN e ELSE s[l]
  BY <1>u
<1>1. Entries(u) = Entries(s) \cup {k} /\ \A l \in Entries(s) : l \in Texts /\ l # k
  BY <1>0, NotAbsent DEF Entries
<1>2. /\ i \in Texting(f) /\ i \in Users(f, k) /\ \A j \in Texting(f) : j \in Items
      /\ \A l : Users(f, l) \subseteq Texting(f) /\ \A j \in Users(f, l) : f[j].text = l
  BY DEF Texting, Users, TextItem
<1>3. \A j \in Texting(f) : f[j].data = f[i].data => j = i
  BY <1>2 DEF Sound, SharedThere
<1>4. Users(f, k) = {i}
  BY <1>2, <1>3
<1>5. AllUsed(f, u, a)
  <2>1. {u[l].data : l \in Entries(u)} = {s[l].data : l \in Entries(s)} \cup {e.data}
    BY <1>0, <1>1
  <2>2. {f[j].data : j \in Texting(f)} = {f[j].data : j \in Texting(f)} \cup {e.data}
    BY <1>2
  <2>. QED
    BY <2>1, <2>2 DEF Sound, AllUsed
<1>6. AllCounted(f, u)
  <2>1. Cardinality(Users(f, k)) = 1
    BY <1>4, FS_Singleton
  <2>. QED
    BY <1>0, <1>1, <2>1 DEF Sound, AllCounted
<1>7. Agree(f, u)
  BY <1>0, <1>1, <1>4 DEF Sound, Agree
<1>8. OneEach(u)
  <2>1. \A l \in Entries(s) : s[l].data # e.data
    BY <1>1, <1>2 DEF Sound, OwnText
  <2>. QED
    BY <1>0, <1>1, <2>1 DEF Sound, OneEach
<1>9. OwnText(f, u)
  BY <1>0, <1>1, <1>3 DEF Sound, OwnText
<1>10. SharedThere(f, u)
  BY <1>1 DEF Sound, SharedThere
<1>. QED
  BY <1>u, <1>5, <1>6, <1>7, <1>8, <1>9, <1>10 DEF Sound

\* The only user of an entry repaints it.
LEMMA Repaints ==
    ASSUME NEW f \in [Items -> Shows], NEW s \in [Texts -> Keeps], NEW a, Sound(f, s, a),
           NEW i \in Items, f[i] \in TextItem, NEW c \in Colours, NEW k \in Texts, k = f[i].text,
           NEW r \in TextItem, r.text = k, r.data = f[i].data, r.colour = c
    PROVE  /\ k \notin Entries(s) => Sound([f EXCEPT ![i] = r], s, a)
           /\ k \in Entries(s) /\ s[k].refcnt = 1 => Sound([f EXCEPT ![i] = r], [s EXCEPT ![k].colour = c], a)
<1>g. PICK g : g = [f EXCEPT ![i] = r]
  OBVIOUS
<1>u. PICK u : u = IF k \in Entries(s) THEN [s EXCEPT ![k].colour = c] ELSE s
  OBVIOUS
<1>1. /\ i \in Texting(f) /\ i \in Users(f, k) /\ \A j \in Texting(f) : j \in Items
      /\ \A l : Users(f, l) \subseteq Texting(f) /\ \A j \in Users(f, l) : f[j].text = l
  BY DEF Texting, Users, TextItem
<1>2. /\ \A j \in Items : g[j] = IF j = i THEN r ELSE f[j]
      /\ Texting(g) = Texting(f)
      /\ \A l : Users(g, l) = Users(f, l)
  <2>1. r.kind = "text"
    BY DEF TextItem
  <2>2. \A j \in Items : g[j] = IF j = i THEN r ELSE f[j]
    BY <1>g
  <2>3. Texting(g) = Texting(f)
    BY <1>1, <2>1, <2>2 DEF Texting
  <2>4. \A l : Users(g, l) = Users(f, l)
    <3>1. \A j \in Texting(f) : g[j].text = f[j].text
      BY <1>1, <2>2
    <3>. QED
      BY <2>3, <3>1 DEF Users
  <2>. QED
    BY <2>2, <2>3, <2>4
<1>3. \A j \in Texting(f) : g[j].data = f[j].data /\ g[j].text = f[j].text
  BY <1>1, <1>2
<1>4. /\ Entries(u) = Entries(s)
      /\ \A l \in Entries(s) : /\ u[l].data = s[l].data /\ u[l].refcnt = s[l].refcnt
                              /\ u[l].colour = IF l = k THEN c ELSE s[l].colour
  <2>1. CASE k \in Entries(s)
    <3>. PICK e \in StringsEntry : e = s[k]
      BY <2>1, KeepsTyped
    <3>x. PICK x : x = [e EXCEPT !.colour = c]
      OBVIOUS
    <3>1. x \in StringsEntry /\ x # Absent /\ x.data = e.data /\ x.colour = c /\ x.refcnt = e.refcnt
      BY <3>x, NotAbsent DEF StringsEntry
    <3>2. \A l \in Texts : u[l] = IF l = k THEN x ELSE s[l]
      BY <1>u, <2>1, <3>x
    <3>3. Entries(u) = Entries(s) /\ \A l \in Entries(s) : l \in Texts
      BY <2>1, <3>1, <3>2 DEF Entries
    <3>. QED
      BY <3>1, <3>2, <3>3
  <2>2. CASE k \notin Entries(s)
    BY <1>u, <2>2
  <2>. QED
    BY <2>1, <2>2
<1>5. AllUsed(g, u, a)
  <2>1. {u[l].data : l \in Entries(u)} = {s[l].data : l \in Entries(s)}
    BY <1>4
  <2>2. {g[j].data : j \in Texting(g)} = {f[j].data : j \in Texting(f)}
    BY <1>2, <1>3
  <2>. QED
    BY <2>1, <2>2 DEF Sound, AllUsed
<1>6. AllCounted(g, u)
  BY <1>2, <1>4 DEF Sound, AllCounted
<1>7. OneEach(u)
  BY <1>4 DEF Sound, OneEach
<1>8. OwnText(g, u) /\ SharedThere(g, u)
  BY <1>2, <1>3, <1>4 DEF Sound, OwnText, SharedThere
<1>9. CASE k \notin Entries(s)
  <2>1. Agree(g, u)
    BY <1>1, <1>2, <1>4, <1>9 DEF Sound, Agree
  <2>. QED
    BY <1>g, <1>u, <1>5, <1>6, <1>7, <1>8, <1>9, <2>1 DEF Sound
<1>10. ASSUME k \in Entries(s), s[k].refcnt = 1 PROVE Sound([f EXCEPT ![i] = r], [s EXCEPT ![k].colour = c], a)
  <2>1. Cardinality(Users(f, k)) = 1
    BY <1>10 DEF Sound, AllCounted
  <2>2. \E x : Users(f, k) = {x}
    BY <2>1, UsersFinite, FS_Singleton
  <2>3. Users(f, k) = {i}
    BY <1>1, <2>2
  <2>4. Agree(g, u)
    <3>. SUFFICES ASSUME NEW l \in Entries(s), NEW j \in Users(f, l)
                  PROVE  g[j].data = u[l].data /\ g[j].colour = u[l].colour
      BY <1>2, <1>4 DEF Agree
    <3>1. f[j].data = s[l].data /\ f[j].colour = s[l].colour /\ j \in Texting(f) /\ f[j].text = l
      BY <1>1 DEF Sound, Agree
    <3>2. CASE j = i
      BY <1>2, <1>4, <3>1, <3>2
    <3>3. CASE j # i
      <4>1. l # k
        BY <2>3, <3>3
      <4>. QED
        BY <1>1, <1>2, <1>4, <3>1, <3>3, <4>1
    <3>. QED
      BY <3>2, <3>3
  <2>. QED
    BY <1>g, <1>u, <1>5, <1>6, <1>7, <1>8, <1>10, <2>4 DEF Sound
<1>. QED
  BY <1>9, <1>10

\* An entry nobody shows goes with its pixels.
LEMMA Drops ==
    ASSUME NEW f \in [Items -> Shows], NEW s \in [Texts -> Keeps], NEW a, Sound(f, s, a),
           NEW k \in Entries(s), s[k].refcnt = 0
    PROVE  Sound(f, [s EXCEPT ![k] = Absent], a \ {s[k].data})
<1>. PICK u : u = [s EXCEPT ![k] = Absent]
  OBVIOUS
<1>1. Users(f, k) = {} /\ k \in Texts
  BY UsersFinite, FS_EmptySet DEF Sound, AllCounted, Entries
<1>2. Entries(u) = Entries(s) \ {k} /\ \A l \in Entries(u) : u[l] = s[l]
  BY <1>1 DEF Entries
<1>3. \A j \in Texting(f) : f[j].text # k
  BY <1>1 DEF Users
<1>4. \A j \in Texting(f) : f[j].data # s[k].data
  BY <1>3 DEF Sound, OwnText
<1>5. \A l \in Entries(u) : s[l].data # s[k].data
  BY <1>2 DEF Sound, OneEach
<1>6. AllUsed(f, u, a \ {s[k].data})
  <2>1. {u[l].data : l \in Entries(u)} = {s[l].data : l \in Entries(u)}
    BY <1>2
  <2>2. {s[l].data : l \in Entries(u)} = {s[l].data : l \in Entries(s)} \ {s[k].data}
    <3>1. \A l \in Entries(s) : l \in Entries(u) \/ l = k
      BY <1>2
    <3>2. \A l \in Entries(u) : l \in Entries(s)
      BY <1>2
    <3>. QED
      BY <1>5, <3>1, <3>2
  <2>3. {f[j].data : j \in Texting(f)} = {f[j].data : j \in Texting(f)} \ {s[k].data}
    BY <1>4
  <2>. QED
    BY <2>1, <2>2, <2>3 DEF Sound, AllUsed
<1>k. \A l \in Entries(u) : l \in Entries(s) /\ u[l] = s[l]
  BY <1>2
<1>7. AllCounted(f, u) /\ Agree(f, u)
  <2>1. AllCounted(f, s) /\ Agree(f, s)
    BY DEF Sound
  <2>2. AllCounted(f, u)
    BY <1>k, <2>1 DEF AllCounted
  <2>3. Agree(f, u)
    BY <1>k, <2>1 DEF Agree
  <2>. QED
    BY <2>2, <2>3
<1>8. OneEach(u) /\ OwnText(f, u)
  <2>1. OneEach(s) /\ OwnText(f, s)
    BY DEF Sound
  <2>2. OneEach(u)
    BY <1>k, <2>1 DEF OneEach
  <2>3. OwnText(f, u)
    BY <1>k, <2>1 DEF OwnText
  <2>. QED
    BY <2>2, <2>3
<1>9. SharedThere(f, u)
  BY <1>2, <1>3 DEF Sound, SharedThere
<1>. QED
  BY <1>6, <1>7, <1>8, <1>9 DEF Sound

\* A file gets another user, loses one, or goes when it has none.
LEMMA FileGains ==
    ASSUME NEW f \in [Items -> Shows], NEW c \in [Paths -> Files], FilesSound(f, c),
           NEW i \in Items, f[i].kind # "png", NEW r \in PngItem, NEW p \in Paths, p = r.path,
           NEW e, e = IF c[p] = Absent THEN [refcnt |-> 1] ELSE [refcnt |-> c[p].refcnt + 1]
    PROVE  FilesSound([f EXCEPT ![i] = r], [c EXCEPT ![p] = e])
<1>. PICK g, d : g = [f EXCEPT ![i] = r] /\ d = [c EXCEPT ![p] = e]
  OBVIOUS
<1>1. /\ \A j \in Items : g[j] = IF j = i THEN r ELSE f[j]
      /\ \A q \in Paths : d[q] = IF q = p THEN e ELSE c[q]
      /\ r.kind = "png" /\ e # Absent
  BY NotAbsent DEF PngItem
<1>. SUFFICES ASSUME NEW q \in Paths
              PROVE  IF d[q] = Absent THEN FileUsers(g, q) = {} ELSE d[q].refcnt = Cardinality(FileUsers(g, q))
  BY DEF FilesSound
<1>2. CASE q = p
  <2>1. FileUsers(g, p) = FileUsers(f, p) \cup {i} /\ i \notin FileUsers(f, p)
    BY <1>1 DEF FileUsers
  <2>2. Cardinality(FileUsers(g, p)) = Cardinality(FileUsers(f, p)) + 1
    BY <2>1, UsersFinite, FS_AddElement
  <2>3. c[p] = Absent => e.refcnt = 1 /\ Cardinality(FileUsers(f, p)) = 0
    BY FS_EmptySet DEF FilesSound
  <2>4. c[p] # Absent => e.refcnt = Cardinality(FileUsers(f, p)) + 1
    BY DEF FilesSound
  <2>. QED
    BY <1>1, <1>2, <2>2, <2>3, <2>4
<1>3. CASE q # p
  <2>1. FileUsers(g, q) = FileUsers(f, q)
    BY <1>1, <1>3 DEF FileUsers
  <2>. QED
    BY <1>1, <1>3, <2>1 DEF FilesSound
<1>. QED
  BY <1>2, <1>3

LEMMA FileLoses ==
    ASSUME NEW f \in [Items -> Shows], NEW c \in [Paths -> Files], FilesSound(f, c),
           NEW i \in Items, f[i] \in PngItem, NEW p \in Paths, p = f[i].path
    PROVE  /\ c[p] # Absent
           /\ FilesSound([f EXCEPT ![i] = NoItem], [c EXCEPT ![p] = [refcnt |-> c[p].refcnt - 1]])
<1>1. i \in FileUsers(f, p)
  BY DEF FileUsers, PngItem
<1>2. c[p] # Absent /\ c[p].refcnt = Cardinality(FileUsers(f, p))
  BY <1>1 DEF FilesSound
<1>. PICK e : e = [refcnt |-> c[p].refcnt - 1]
  OBVIOUS
<1>. PICK g, d : g = [f EXCEPT ![i] = NoItem] /\ d = [c EXCEPT ![p] = e]
  OBVIOUS
<1>3. /\ \A j \in Items : g[j] = IF j = i THEN NoItem ELSE f[j]
      /\ \A q \in Paths : d[q] = IF q = p THEN e ELSE c[q]
      /\ NoItem.kind # "png" /\ e # Absent /\ e.refcnt = c[p].refcnt - 1
  BY NotAbsent DEF NoItem
<1>4. ASSUME NEW q \in Paths
      PROVE  IF d[q] = Absent THEN FileUsers(g, q) = {} ELSE d[q].refcnt = Cardinality(FileUsers(g, q))
  <2>1. CASE q = p
    <3>1. FileUsers(g, p) = FileUsers(f, p) \ {i}
      BY <1>3 DEF FileUsers
    <3>2. Cardinality(FileUsers(g, p)) = Cardinality(FileUsers(f, p)) - 1
      <4>1. IsFiniteSet(FileUsers(f, p))
        BY UsersFinite
      <4>. QED
        BY <1>1, <3>1, <4>1, FS_RemoveElement
    <3>. QED
      BY <1>2, <1>3, <2>1, <3>2
  <2>2. CASE q # p
    <3>1. FileUsers(g, q) = FileUsers(f, q)
      BY <1>3, <2>2 DEF FileUsers
    <3>. QED
      BY <1>3, <2>2, <3>1 DEF FilesSound
  <2>. QED
    BY <2>1, <2>2
<1>. QED
  BY <1>2, <1>4 DEF FilesSound

LEMMA FileGoes ==
    ASSUME NEW f, NEW c \in [Paths -> Files], FilesSound(f, c), NEW p \in Paths
    PROVE  FilesSound(f, [c EXCEPT ![p] = IF @ # Absent /\ @.refcnt <= 0 THEN Absent ELSE @])
<1>. PICK d : d = [c EXCEPT ![p] = IF @ # Absent /\ @.refcnt <= 0 THEN Absent ELSE @]
  OBVIOUS
<1>1. \A q \in Paths : d[q] = IF q = p /\ c[p] # Absent /\ c[p].refcnt <= 0 THEN Absent ELSE c[q]
  OBVIOUS
<1>2. ASSUME c[p] # Absent, c[p].refcnt <= 0 PROVE FileUsers(f, p) = {}
  <2>1. Cardinality(FileUsers(f, p)) \in Nat /\ Cardinality(FileUsers(f, p)) <= 0
    BY <1>2, UsersFinite DEF FilesSound
  <2>2. Cardinality(FileUsers(f, p)) = 0
    BY <2>1
  <2>. QED
    BY <2>2, UsersFinite, FS_EmptySet
<1>3. ASSUME NEW q \in Paths
      PROVE  IF d[q] = Absent THEN FileUsers(f, q) = {} ELSE d[q].refcnt = Cardinality(FileUsers(f, q))
  BY <1>1, <1>2 DEF FilesSound
<1>. QED
  BY <1>3 DEF FilesSound

-----------------------------------------------------------------------------
\* What a call has found in a cache still holds, as long as no other thread has been at
\* the cache since.
Read(e, r, s) ==
    e = IF r.text \notin Entries(s) \/ s[r.text].colour # r.colour THEN "none"
        ELSE IF s[r.text].refcnt = 1 THEN "alone" ELSE "shared"

Fresh(j, f, s) ==
    /\ j.op = "use" => /\ j.as.text \in Entries(s)
                       /\ s[j.as.text].colour = j.as.colour /\ s[j.as.text].data = j.as.data
    /\ j.op \in {"unlink", "recolour"} => Read(j.entry, f[j.item], s)
    /\ j.op = "leave" /\ f[j.item].kind = "text" => Read(j.entry, f[j.item], s)
    /\ j.op = "paint" => j.entry # "shared"

Located(e, p, c) == e = IF c[p] = Absent THEN "none" ELSE "shared"

FreshFile(j, f, c) ==
    /\ j.op = "get" => Located(j.entry, j.as.path, c)
    /\ j.op = "leave" /\ f[j.item].kind = "png" => Located(j.entry, f[j.item].path, c)

TextSafe == TextsSound => Sound(img, strings, alive) /\ \A t \in Threads : Fresh(job[t], img, strings)
FileSafe == "png" \notin raced =>
                FilesSound(img, png_cache) /\ \A t \in Threads : FreshFile(job[t], img, png_cache)

Plainly(j) == j.op \notin {"use", "unlink", "recolour", "leave", "paint", "get"}
Alone(t, i) == \A u \in Threads : u # t => i \notin Where(job[u])

LEMMA PlainlyFresh ==
    ASSUME NEW j, Plainly(j), NEW f, NEW s, NEW c PROVE Fresh(j, f, s) /\ FreshFile(j, f, c)
BY DEF Plainly, Fresh, FreshFile

LEMMA Meeting ==
    ASSUME NEW t \in Threads, NEW c, Meet(t, c)
    PROVE  raced \subseteq raced' /\ (c \notin raced' => \A u \in Threads : u # t => ~Inside(u, c))
<1>1. CASE \E u \in Threads \ {t} : Inside(u, c)
  BY <1>1 DEF Meet
<1>2. CASE ~\E u \in Threads \ {t} : Inside(u, c)
  BY <1>2 DEF Meet
<1>. QED
  BY <1>1, <1>2

LEMMA StillSound == ASSUME raced \subseteq raced', apart => apart' PROVE TextsSound' => TextsSound
BY Zenon DEF TextsSound

LEMMA Elsewhere ==
    ASSUME OwnInv, NEW t \in Threads, NEW i, Free(t, i) \/ (job[t].op \in CallOps /\ i = job[t].item)
    PROVE  Alone(t, i)
<1>1. CASE Free(t, i)
  BY <1>1, Placed DEF Free, Alone
<1>2. CASE job[t].op \in CallOps /\ i = job[t].item
  <2>1. i \in Where(job[t])
    BY <1>2 DEF Where
  <2>. QED
    BY <2>1 DEF OwnInv, CallsApart, Alone
<1>. QED
  BY <1>1, <1>2

LEMMA ShowsNow ==
    ASSUME PicTyped, NEW i \in Items, NEW r, img' = [img EXCEPT ![i] = r]
    PROVE  \A k \in Items : img'[k] = IF k = i THEN r ELSE img[k]
BY DEF PicTyped

\* A step of the thread t that leaves the texts' cache in order and all others with what
\* they have found.
LEMMA TextStep ==
    ASSUME OwnInv, TextSafe, NEW t \in Threads, NEW j, job' = [job EXCEPT ![t] = j],
           TextsSound' => TextsSound,
           \A k \in Items : img'[k] = img[k] \/ Alone(t, k),
           TextsSound' => strings' = strings \/ \A u \in Threads : u # t => ~Inside(u, "strings"),
           TextsSound' => Sound(img', strings', alive'),
           TextsSound' => Fresh(j, img', strings')
    PROVE  TextSafe'
<1>. SUFFICES ASSUME TextsSound'
              PROVE  Sound(img', strings', alive') /\ \A u \in Threads : Fresh(job'[u], img', strings')
  BY DEF TextSafe
<1>1. \A u \in Threads : job'[u] = IF u = t THEN j ELSE job[u]
  BY DEF OwnInv
<1>2. ASSUME NEW u \in Threads, u # t PROVE Fresh(job[u], img', strings')
  <2>. PICK l : l = job[u]
    OBVIOUS
  <2>1. Fresh(l, img, strings)
    BY DEF TextSafe
  <2>2. CASE l.op \notin CallOps
    BY <2>2 DEF Fresh, CallOps
  <2>3. CASE l.op \in CallOps
    <3>1. l.item \in Items /\ Where(job[u]) = {l.item}
      BY <2>3, Placed
    <3>2. img'[l.item] = img[l.item]
      BY <1>2, <3>1 DEF Alone
    <3>3. CASE strings' = strings
      BY <2>1, <3>2, <3>3 DEF Fresh
    <3>4. CASE ~Inside(u, "strings")
      <4>1. l.op \notin {"use", "unlink", "recolour"} /\ (l.op = "leave" => img[l.item].kind # "text")
        BY <3>4 DEF Inside
      <4>. QED
        BY <2>1, <3>2, <4>1 DEF Fresh
    <3>. QED
      BY <1>2, <3>3, <3>4
  <2>. QED
    BY <2>2, <2>3
<1>. QED
  BY <1>1, <1>2

LEMMA FileStep ==
    ASSUME OwnInv, FileSafe, NEW t \in Threads, NEW j, job' = [job EXCEPT ![t] = j],
           raced \subseteq raced',
           \A k \in Items : img'[k] = img[k] \/ Alone(t, k),
           "png" \notin raced' => png_cache' = png_cache \/ \A u \in Threads : u # t => ~Inside(u, "png"),
           "png" \notin raced' => FilesSound(img', png_cache'),
           "png" \notin raced' => FreshFile(j, img', png_cache')
    PROVE  FileSafe'
<1>. SUFFICES ASSUME "png" \notin raced'
              PROVE  FilesSound(img', png_cache') /\ \A u \in Threads : FreshFile(job'[u], img', png_cache')
  BY DEF FileSafe
<1>1. \A u \in Threads : job'[u] = IF u = t THEN j ELSE job[u]
  BY DEF OwnInv
<1>2. ASSUME NEW u \in Threads, u # t PROVE FreshFile(job[u], img', png_cache')
  <2>. PICK l : l = job[u]
    OBVIOUS
  <2>1. FreshFile(l, img, png_cache)
    BY DEF FileSafe
  <2>2. CASE l.op \notin CallOps
    BY <2>2 DEF FreshFile, CallOps
  <2>3. CASE l.op \in CallOps
    <3>1. l.item \in Items /\ Where(job[u]) = {l.item}
      BY <2>3, Placed
    <3>2. img'[l.item] = img[l.item]
      BY <1>2, <3>1 DEF Alone
    <3>3. CASE png_cache' = png_cache
      BY <2>1, <3>2, <3>3 DEF FreshFile
    <3>4. CASE ~Inside(u, "png")
      <4>1. l.op # "get" /\ (l.op = "leave" => img[l.item].kind # "png")
        BY <3>4 DEF Inside
      <4>. QED
        BY <3>2, <4>1 DEF FreshFile
    <3>. QED
      BY <1>2, <3>3, <3>4
  <2>. QED
    BY <2>2, <2>3
<1>. QED
  BY <1>1, <1>2

LEMMA TextsRest ==
    ASSUME OwnInv, TextSafe, NEW t \in Threads, NEW j, job' = [job EXCEPT ![t] = j],
           raced \subseteq raced', UNCHANGED <<strings, alive, apart>>,
           \A k \in Items : img'[k] = img[k] \/ (img[k].kind # "text" /\ img'[k].kind # "text" /\ Alone(t, k)),
           TextsSound => Fresh(j, img', strings)
    PROVE  TextSafe'
<1>1. TextsSound' => TextsSound
  BY StillSound, Zenon
<1>2. TextsSound => Sound(img', strings, alive)
  BY SameTexts DEF TextSafe
<1>3. \A k \in Items : img'[k] = img[k] \/ Alone(t, k)
  OBVIOUS
<1>. QED
  BY <1>1, <1>2, <1>3, TextStep

LEMMA FilesRest ==
    ASSUME OwnInv, FileSafe, NEW t \in Threads, NEW j, job' = [job EXCEPT ![t] = j],
           raced \subseteq raced', UNCHANGED png_cache,
           \A k \in Items : img'[k] = img[k] \/ (img[k].kind # "png" /\ img'[k].kind # "png" /\ Alone(t, k)),
           "png" \notin raced => FreshFile(j, img', png_cache)
    PROVE  FileSafe'
<1>1. "png" \notin raced' => FilesSound(img', png_cache)
  BY SameFiles DEF FileSafe
<1>2. \A k \in Items : img'[k] = img[k] \/ Alone(t, k)
  OBVIOUS
<1>. QED
  BY <1>1, <1>2, FileStep

\* A step that shows nothing else and looks nothing up.
LEMMA PicturesRest ==
    ASSUME OwnInv, TextSafe, FileSafe, NEW t \in Threads, NEW j, job' = [job EXCEPT ![t] = j], Plainly(j),
           raced \subseteq raced', UNCHANGED <<strings, png_cache, alive, apart>>,
           \/ UNCHANGED img
           \/ \E i \in Items : \E r :
                  /\ \A k \in Items : img'[k] = IF k = i THEN r ELSE img[k]
                  /\ Alone(t, i) /\ {img[i].kind, r.kind} \cap {"text", "png"} = {}
    PROVE  TextSafe' /\ FileSafe'
<1>1. \A k \in Items : img'[k] = img[k] \/ (img[k].kind # "text" /\ img'[k].kind # "text" /\ Alone(t, k))
  OBVIOUS
<1>2. \A k \in Items : img'[k] = img[k] \/ (img[k].kind # "png" /\ img'[k].kind # "png" /\ Alone(t, k))
  OBVIOUS
<1>3. Fresh(j, img', strings) /\ FreshFile(j, img', png_cache)
  BY PlainlyFresh
<1>4. TextSafe'
  BY <1>1, <1>3, TextsRest
<1>5. FileSafe'
  BY <1>2, <1>3, FilesRest
<1>. QED
  BY <1>4, <1>5

-----------------------------------------------------------------------------
LEMMA StepIs ==
    ASSUME NEW o, NEW i, NEW s, NEW e, NEW b, NEW j, j = Step(o, i, s, e, b)
    PROVE  j.op = o /\ j.item = i /\ j.as = s /\ j.entry = e /\ j.back = b
BY DEF Step

\* The lookups find what is there.
LEMMA Lookups ==
    /\ \A r \in TextItem : Read(SeenText(r.text, r.colour), r, strings)
    /\ \A p \in Paths : Located(SeenFile(p), p, png_cache)
<1>1. \A r \in TextItem : Read(SeenText(r.text, r.colour), r, strings)
  BY DEF Read, SeenText, get_cache_for_string, Entries, TextItem
<1>2. \A p \in Paths : Located(SeenFile(p), p, png_cache)
  BY DEF Located, SeenFile
<1>. QED
  BY <1>1, <1>2

\* What a text's user reads tells whether the text has an entry.
LEMMA ReadsEntry ==
    ASSUME NEW f, NEW s, NEW a, Sound(f, s, a), NEW i \in Items, f[i] \in TextItem, NEW e, Read(e, f[i], s)
    PROVE  /\ e = "none" <=> f[i].text \notin Entries(s)
           /\ e = "alone" => f[i].text \in Entries(s) /\ s[f[i].text].refcnt = 1
<1>1. i \in Users(f, f[i].text)
  BY DEF Users, Texting, TextItem
<1>2. f[i].text \in Entries(s) => s[f[i].text].colour = f[i].colour
  BY <1>1 DEF Sound, Agree
<1>. QED
  BY <1>2 DEF Read

LEMMA CountsEntry ==
    ASSUME PicTyped, NEW k \in Texts, NEW n
    PROVE  k \in Entries(strings) => Counted(k, n) = [strings EXCEPT ![k].refcnt = @ + n]
BY DEF Counted, Entries

\* Where a call goes back to, it looks nothing up.
LEMMA Returns ==
    ASSUME NEW t \in Threads, job[t].back \in {"idle", "batch", "clear", "link"}, Back(t)
    PROVE  \E j : Plainly(j) /\ job' = [job EXCEPT ![t] = j]
<1>1. CASE job[t].back = "link"
  <2>1. PICK j : j = Step("link", job[t].item, Blank, "none", "link")
    OBVIOUS
  <2>2. job' = [job EXCEPT ![t] = j] /\ Plainly(j)
    BY <1>1, <2>1, StepIs DEF Back, To, Turn, Plainly
  <2>. QED
    BY <2>2
<1>2. CASE job[t].back # "link"
  <2>1. PICK j : j = [op |-> job[t].back]
    OBVIOUS
  <2>2. j.op \in {"idle", "batch", "clear"}
    BY <1>2, <2>1
  <2>3. job' = [job EXCEPT ![t] = j] /\ Plainly(j)
    BY <1>2, <2>1, <2>2 DEF Back, Turn, Plainly
  <2>. QED
    BY <2>3
<1>. QED
  BY <1>1, <1>2

LEMMA BacksTyped == ASSUME OwnInv, NEW t \in Threads, job[t].op \in CallOps
                    PROVE job[t].back \in {"idle", "batch", "clear", "link"}
<1>1. job[t] \in Calls
  BY JobsTyped DEF OwnInv
<1>. QED
  BY <1>1 DEF Calls

LEMMA BeginsSafe ==
    ASSUME PicTyped, OwnInv, TextSafe, FileSafe, NEW t \in Threads, Begins(t) PROVE TextSafe' /\ FileSafe'
<1>. USE DEF Turn
<1>1. CASE fb_batch_start(t) \/ fb_batch_end(t)
  <2>1. PICK j \in {Idle, [op |-> "batch"]} : job' = [job EXCEPT ![t] = j]
    BY <1>1 DEF fb_batch_start, fb_batch_end
  <2>2. Plainly(j)
    BY DEF Plainly, Idle
  <2>3. UNCHANGED pictureVars
    BY <1>1 DEF fb_batch_start, fb_batch_end
  <2>. QED
    BY <2>1, <2>2, <2>3, PicturesRest DEF pictureVars
<1>2. ASSUME NEW i \in Items, NEW k \in Texts, NEW c \in Colours, fb_text_finalize(t, i, k, c)
      PROVE  TextSafe' /\ FileSafe'
  <2>1. PICK j : j = Step("render", i, [kind |-> "text", text |-> k, colour |-> c, data |-> NoPixels], "none", "link")
    OBVIOUS
  <2>2. job' = [job EXCEPT ![t] = j] /\ Plainly(j)
    BY <1>2, <2>1, StepIs DEF fb_text_finalize, Plainly
  <2>3. /\ img' = [img EXCEPT ![i] = Blank] /\ UNCHANGED <<strings, png_cache, alive, apart, raced>>
        /\ i \in Unborn /\ Free(t, i)
    BY <1>2 DEF fb_text_finalize, show_plain
  <2>a. \A m \in Items : img'[m] = IF m = i THEN Blank ELSE img[m]
    BY <2>3 DEF PicTyped
  <2>b. Alone(t, i)
    BY <2>3, Elsewhere
  <2>c. {img[i].kind, Blank.kind} \cap {"text", "png"} = {}
    BY <2>3, Kinds DEF Unborn
  <2>4. /\ \A m \in Items : img'[m] = IF m = i THEN Blank ELSE img[m]
        /\ Alone(t, i) /\ {img[i].kind, Blank.kind} \cap {"text", "png"} = {}
    BY <2>a, <2>b, <2>c
  <2>. QED
    BY <2>2, <2>3, <2>4, PicturesRest
<1>3. ASSUME NEW i \in Items, NEW p \in Paths, fb_add_png_img(t, i, p) PROVE TextSafe' /\ FileSafe'
  <2>0. PICK s : s = [kind |-> "png", path |-> p]
    OBVIOUS
  <2>1. PICK j : j = Step("get", i, s, SeenFile(p), "link")
    OBVIOUS
  <2>2. job' = [job EXCEPT ![t] = j] /\ j.op = "get" /\ j.entry = SeenFile(p) /\ j.as.path = p
    BY <1>3, <2>0, <2>1, StepIs DEF fb_add_png_img
  <2>3. /\ img' = [img EXCEPT ![i] = Blank] /\ UNCHANGED <<strings, png_cache, alive, apart>>
        /\ i \in Unborn /\ Free(t, i) /\ Meet(t, "png")
    BY <1>3 DEF fb_add_png_img, show_plain
  <2>a. \A m \in Items : img'[m] = IF m = i THEN Blank ELSE img[m]
    BY <2>3 DEF PicTyped
  <2>b. Alone(t, i)
    BY <2>3, Elsewhere
  <2>c. {img[i].kind, Blank.kind} \cap {"text", "png"} = {}
    BY <2>3, Kinds DEF Unborn
  <2>4. /\ \A m \in Items : img'[m] = IF m = i THEN Blank ELSE img[m]
        /\ Alone(t, i) /\ {img[i].kind, Blank.kind} \cap {"text", "png"} = {}
    BY <2>a, <2>b, <2>c
  <2>5. raced \subseteq raced'
    BY <2>3, Meeting
  <2>6. Fresh(j, img', strings)
    BY <2>2 DEF Fresh
  <2>7. FreshFile(j, img', png_cache)
    BY <2>2, Lookups DEF FreshFile
  <2>8. TextSafe'
    <3>1. \A m \in Items : img'[m] = img[m] \/ (img[m].kind # "text" /\ img'[m].kind # "text" /\ Alone(t, m))
      BY <2>4
    <3>. QED
      BY <2>2, <2>3, <2>5, <2>6, <3>1, TextsRest
  <2>9. FileSafe'
    <3>1. \A m \in Items : img'[m] = img[m] \/ (img[m].kind # "png" /\ img'[m].kind # "png" /\ Alone(t, m))
      BY <2>4
    <3>. QED
      BY <2>2, <2>3, <2>5, <2>7, <3>1, FilesRest
  <2>. QED
    BY <2>8, <2>9
<1>4. ASSUME NEW i \in Items, fb_add_rect(t, i) PROVE TextSafe' /\ FileSafe'
  <2>0. PICK r : r = [kind |-> "plain"]
    OBVIOUS
  <2>1. PICK j : j = Step("link", i, Blank, "none", "link")
    OBVIOUS
  <2>2. job' = [job EXCEPT ![t] = j] /\ Plainly(j)
    BY <1>4, <2>1, StepIs DEF fb_add_rect, Plainly
  <2>3. /\ img' = [img EXCEPT ![i] = r] /\ UNCHANGED <<strings, png_cache, alive, apart, raced>>
        /\ i \in Unborn /\ Free(t, i)
    BY <1>4, <2>0 DEF fb_add_rect, show_plain
  <2>a. \A m \in Items : img'[m] = IF m = i THEN r ELSE img[m]
    BY <2>3 DEF PicTyped
  <2>b. Alone(t, i)
    BY <2>3, Elsewhere
  <2>c. {img[i].kind, r.kind} \cap {"text", "png"} = {}
    BY <2>0, <2>3, Kinds DEF Unborn
  <2>4. /\ \A m \in Items : img'[m] = IF m = i THEN r ELSE img[m]
        /\ Alone(t, i) /\ {img[i].kind, r.kind} \cap {"text", "png"} = {}
    BY <2>a, <2>b, <2>c
  <2>. QED
    BY <2>2, <2>3, <2>4, PicturesRest
<1>5. ASSUME NEW i \in Items, fb_ctx_rm_item(t, i) PROVE TextSafe' /\ FileSafe'
  <2>1. PICK j : j = Step("destroy", i, Blank, "none", job[t].op)
    OBVIOUS
  <2>2. job' = [job EXCEPT ![t] = j] /\ Plainly(j)
    BY <1>5, <2>1, StepIs DEF fb_ctx_rm_item, Plainly
  <2>3. UNCHANGED pictureVars
    BY <1>5 DEF fb_ctx_rm_item
  <2>. QED
    BY <2>2, <2>3, PicturesRest DEF pictureVars
<1>6. ASSUME NEW i \in Items, Changes(t, i), NEW s, NEW o \in {"unlink", "recolour"},
             job' = [job EXCEPT ![t] = Step(o, i, s, SeenText(img[i].text, img[i].colour), job[t].op)]
      PROVE  TextSafe' /\ FileSafe'
  <2>1. PICK j : j = Step(o, i, s, SeenText(img[i].text, img[i].colour), job[t].op)
    OBVIOUS
  <2>2. job' = [job EXCEPT ![t] = j] /\ j.op = o /\ j.item = i /\ j.entry = SeenText(img[i].text, img[i].colour)
    BY <1>6, <2>1, StepIs
  <2>3. /\ UNCHANGED <<img, strings, png_cache, alive, apart>> /\ img[i].kind = "text" /\ Meet(t, "strings")
    BY <1>6 DEF Changes
  <2>4. raced \subseteq raced' /\ img[i] \in TextItem
    BY <2>3, Meeting, ItemTyped
  <2>5. Fresh(j, img', strings)
    BY <2>2, <2>3, <2>4, Lookups DEF Fresh
  <2>6. FreshFile(j, img', png_cache)
    BY <2>2 DEF FreshFile
  <2>7. TextSafe'
    BY <2>2, <2>3, <2>4, <2>5, TextsRest
  <2>8. FileSafe'
    BY <2>2, <2>3, <2>4, <2>6, FilesRest
  <2>. QED
    BY <2>7, <2>8
<1>7. ASSUME NEW i \in Items, NEW k \in Texts, ChangeText(t, i, k) PROVE TextSafe' /\ FileSafe'
  BY <1>6, <1>7 DEF ChangeText
<1>8. ASSUME NEW i \in Items, NEW c \in Colours, ChangeColour(t, i, c) PROVE TextSafe' /\ FileSafe'
  BY <1>6, <1>8 DEF ChangeColour
<1>. QED
  BY <1>1, <1>2, <1>3, <1>4, <1>5, <1>7, <1>8 DEF Begins

-----------------------------------------------------------------------------
\* The further steps of a call, of which each keeps the cache it is at in order.
LEMMA RenderSafe ==
    ASSUME PicTyped, OwnInv, TextSafe, FileSafe, NEW t \in Threads, fb_text_render(t) PROVE TextSafe' /\ FileSafe'
<1>. PICK i, r : i = job[t].item /\ r = job[t].as
  OBVIOUS
<1>0. job[t].op = "render" /\ job[t].op \in CallOps /\ Meet(t, "strings")
  BY DEF fb_text_render, CallOps
<1>1. i \in Items /\ img[i] = Blank /\ r \in TextItem /\ Alone(t, i)
  BY <1>0, Placed, Elsewhere DEF OwnInv, Fits
<1>2. raced \subseteq raced' /\ ("strings" \notin raced' => \A u \in Threads : u # t => ~Inside(u, "strings"))
  BY <1>0, Meeting
<1>3. CASE /\ get_cache_for_string(r.text, r.colour)
           /\ To(t, "use", [r EXCEPT !.data = strings[r.text].data], "none")
           /\ UNCHANGED <<img, strings, png_cache, alive, apart>>
  <2>0. PICK s : s = [r EXCEPT !.data = strings[r.text].data]
    OBVIOUS
  <2>1. PICK j : j = Step("use", i, s, "none", job[t].back)
    OBVIOUS
  <2>2. job' = [job EXCEPT ![t] = j] /\ j.op = "use" /\ j.as = s
    BY <1>3, <2>0, <2>1, StepIs DEF To, Turn
  <2>3. /\ s.text = r.text /\ s.colour = r.colour /\ s.data = strings[r.text].data
        /\ r.text \in Entries(strings) /\ strings[r.text].colour = r.colour
    BY <1>1, <1>3, <2>0 DEF TextItem, get_cache_for_string, Entries
  <2>4. Fresh(j, img', strings)
    BY <2>2, <2>3 DEF Fresh
  <2>5. FreshFile(j, img', png_cache)
    BY <2>2 DEF FreshFile
  <2>6. TextSafe'
    BY <1>2, <1>3, <2>2, <2>4, TextsRest
  <2>7. FileSafe'
    BY <1>2, <1>3, <2>2, <2>5, FilesRest
  <2>. QED
    BY <2>6, <2>7
<1>4. CASE ~get_cache_for_string(r.text, r.colour) /\ RenderText(i, r) /\ To(t, "store", Blank, "none")
  <2>1. PICK j : j = Step("store", i, Blank, "none", job[t].back)
    OBVIOUS
  <2>2. job' = [job EXCEPT ![t] = j] /\ Plainly(j)
    BY <1>4, <2>1, StepIs DEF To, Turn, Plainly
  <2>3. PICK s : s = [r EXCEPT !.data = malloc(alive)]
    OBVIOUS
  <2>4. /\ img' = [img EXCEPT ![i] = s] /\ alive' = alive \cup {malloc(alive)} /\ UNCHANGED <<strings, png_cache>>
        /\ apart' = Apart(img', strings)
    BY <1>4, <2>3 DEF RenderText
  <2>5. s \in TextItem /\ s.kind = "text" /\ s.text = r.text /\ s.data = malloc(alive) /\ malloc(alive) \notin alive
    BY <1>1, <2>3, MoreAlive, Recast DEF TextItem
  <2>6. \A m \in Items : img'[m] = IF m = i THEN s ELSE img[m]
    BY <1>1, <2>4, ShowsNow
  <2>7. apart => apart'
    BY <2>4, Zenon DEF Apart
  <2>8. TextsSound' => TextsSound
    BY <1>2, <2>7, StillSound, Zenon
  <2>9. TextsSound' => Sound(img', strings, alive')
    <3>. SUFFICES ASSUME TextsSound' PROVE Sound(img', strings, alive')
      OBVIOUS
    <3>1. ~Apart(img', strings)
      BY <2>4, Zenon DEF TextsSound
    <3>2. Sound(img, strings, alive)
      BY <2>8 DEF TextSafe
    <3>3. ASSUME s.text \in Entries(strings) PROVE FALSE
      <4>1. strings[s.text].data \in alive
        BY <3>2, <3>3 DEF Sound, AllUsed
      <4>2. strings[s.text].data # s.data
        BY <2>5, <4>1
      <4>3. img'[i].kind = "text" /\ strings[img'[i].text] # Absent /\ img'[i].data # strings[img'[i].text].data
        BY <1>1, <2>5, <2>6, <3>3, <4>2 DEF Entries
      <4>. QED
        BY <1>1, <3>1, <4>3 DEF Apart
    <3>4. img[i].kind # "text" /\ img \in [Items -> Shows] /\ strings \in [Texts -> Keeps]
      BY <1>1, Kinds DEF PicTyped
    <3>5. s.text \notin Entries(strings) /\ s.data \notin alive /\ s \in TextItem
      BY <2>5, <3>3
    <3>6. Sound([img EXCEPT ![i] = s], strings, alive \cup {s.data})
      BY <1>1, <3>2, <3>4, <3>5, Renders
    <3>. QED
      BY <2>4, <2>5, <3>6
  <2>10. Fresh(j, img', strings) /\ FreshFile(j, img', png_cache)
    BY <2>2, PlainlyFresh
  <2>11. TextSafe'
    <3>1. \A m \in Items : img'[m] = img[m] \/ Alone(t, m)
      BY <1>1, <2>6
    <3>. QED
      BY <2>2, <2>4, <2>8, <2>9, <2>10, <3>1, TextStep
  <2>12. FileSafe'
    <3>1. \A m \in Items : img'[m] = img[m] \/ (img[m].kind # "png" /\ img'[m].kind # "png" /\ Alone(t, m))
      BY <1>1, <2>5, <2>6, Kinds
    <3>. QED
      BY <1>2, <2>2, <2>4, <2>10, <3>1, FilesRest
  <2>. QED
    BY <2>11, <2>12
<1>. QED
  BY <1>3, <1>4 DEF fb_text_render

LEMMA UsedSafe ==
    ASSUME PicTyped, OwnInv, TextSafe, FileSafe, NEW t \in Threads, Used(t) PROVE TextSafe' /\ FileSafe'
<1>. PICK i, r : i = job[t].item /\ r = job[t].as
  OBVIOUS
<1>0. job[t].op = "use" /\ job[t].op \in CallOps /\ Meet(t, "strings") /\ Back(t) /\ ShareText(i, r)
  BY DEF Used, Finished, CallOps
<1>1. i \in Items /\ img[i] = Blank /\ r \in TextItem /\ Alone(t, i)
  BY <1>0, Placed, Elsewhere DEF OwnInv, Fits
<1>2. raced \subseteq raced' /\ ("strings" \notin raced' => \A u \in Threads : u # t => ~Inside(u, "strings"))
  BY <1>0, Meeting
<1>3. PICK j : Plainly(j) /\ job' = [job EXCEPT ![t] = j]
  BY <1>0, BacksTyped, Returns
<1>4. /\ img' = [img EXCEPT ![i] = r] /\ strings' = Counted(r.text, 1) /\ apart' = Apart(img', strings')
      /\ UNCHANGED <<png_cache, alive>>
  BY <1>0 DEF ShareText
<1>5. \A m \in Items : img'[m] = IF m = i THEN r ELSE img[m]
  BY <1>4 DEF PicTyped
<1>6. apart => apart'
  BY <1>4, Zenon DEF Apart
<1>7. TextsSound' => TextsSound
  BY <1>2, <1>6, StillSound, Zenon
<1>8. TextsSound' => Sound(img', strings', alive')
  <2>. SUFFICES ASSUME TextsSound PROVE Sound(img', strings', alive')
    BY <1>7
  <2>1. Sound(img, strings, alive) /\ Fresh(job[t], img, strings)
    BY DEF TextSafe
  <2>. PICK k : k = r.text
    OBVIOUS
  <2>2. k \in Entries(strings) /\ r.data = strings[k].data /\ r.colour = strings[k].colour
    BY <1>0, <2>1 DEF Fresh
  <2>3. img[i].kind # "text" /\ k \in Texts /\ img \in [Items -> Shows] /\ strings \in [Texts -> Keeps]
    BY <1>1, Kinds DEF PicTyped, TextItem
  <2>4. strings' = [strings EXCEPT ![k].refcnt = @ + 1]
    BY <1>4, <2>2, <2>3, CountsEntry
  <2>5. Sound([img EXCEPT ![i] = r], [strings EXCEPT ![k].refcnt = @ + 1], alive)
    BY <1>1, <2>1, <2>2, <2>3, Finds
  <2>. QED
    BY <1>4, <2>4, <2>5
<1>9. Fresh(j, img', strings') /\ FreshFile(j, img', png_cache)
  BY <1>3, PlainlyFresh
<1>10. TextSafe'
  <2>1. \A m \in Items : img'[m] = img[m] \/ Alone(t, m)
    BY <1>1, <1>5
  <2>2. TextsSound' => \A u \in Threads : u # t => ~Inside(u, "strings")
    BY <1>2 DEF TextsSound
  <2>. QED
    BY <1>3, <1>7, <1>8, <1>9, <2>1, <2>2, TextStep
<1>11. FileSafe'
  <2>1. \A m \in Items : img'[m] = img[m] \/ (img[m].kind # "png" /\ img'[m].kind # "png" /\ Alone(t, m))
    BY <1>1, <1>5, Kinds
  <2>. QED
    BY <1>2, <1>3, <1>4, <1>9, <2>1, FilesRest
<1>. QED
  BY <1>10, <1>11

LEMMA StoredSafe ==
    ASSUME PicTyped, OwnInv, TextSafe, FileSafe, NEW t \in Threads, Stored(t) PROVE TextSafe' /\ FileSafe'
<1>. PICK i : i = job[t].item
  OBVIOUS
<1>0. job[t].op = "store" /\ job[t].op \in CallOps /\ Meet(t, "strings") /\ Back(t) /\ add_to_strings(i)
  BY DEF Stored, Finished, CallOps
<1>1. i \in Items /\ img[i].kind = "text"
  BY <1>0, Placed DEF OwnInv, Fits
<1>2. raced \subseteq raced' /\ ("strings" \notin raced' => \A u \in Threads : u # t => ~Inside(u, "strings"))
  BY <1>0, Meeting
<1>3. PICK j : Plainly(j) /\ job' = [job EXCEPT ![t] = j]
  BY <1>0, BacksTyped, Returns
<1>. PICK k, e : k = img[i].text /\ e = [data |-> img[i].data, colour |-> img[i].colour, refcnt |-> 1]
  OBVIOUS
<1>4. img[i] \in TextItem /\ k \in Texts /\ e \in StringsEntry
  BY <1>1, ItemTyped DEF TextItem, StringsEntry
<1>5. /\ strings' = IF strings[k] # Absent THEN strings ELSE [strings EXCEPT ![k] = e]
      /\ apart' = Apart(img, strings') /\ UNCHANGED <<img, png_cache, alive>>
  BY <1>0, <1>4 DEF add_to_strings, PicTyped
<1>6. apart => apart'
  BY <1>5, Zenon DEF Apart
<1>7. TextsSound' => TextsSound
  BY <1>2, <1>6, StillSound, Zenon
<1>8. TextsSound' => Sound(img', strings', alive')
  <2>. SUFFICES ASSUME TextsSound' PROVE Sound(img', strings', alive')
    OBVIOUS
  <2>1. Sound(img, strings, alive)
    BY <1>7 DEF TextSafe
  <2>2. CASE strings[k] # Absent
    BY <1>5, <2>1, <2>2
  <2>3. CASE strings[k] = Absent
    <3>1. strings' = [strings EXCEPT ![k] = e] /\ k \notin Entries(strings)
      BY <1>5, <2>3 DEF Entries
    <3>2. ~Apart(img, strings')
      BY <1>5, Zenon DEF TextsSound
    <3>3. strings'[k] = e /\ e # Absent
      BY <1>4, <3>1, NotAbsent DEF PicTyped
    <3>4. \A m \in Users(img, k) : img[m].data = img[i].data
      BY <3>2, <3>3 DEF Apart, Users, Texting
    <3>5. img \in [Items -> Shows] /\ strings \in [Texts -> Keeps]
      BY DEF PicTyped
    <3>6. e.data = img[i].data /\ e.colour = img[i].colour /\ e.refcnt = 1
      OBVIOUS
    <3>7. Sound(img, [strings EXCEPT ![k] = e], alive)
      BY <1>1, <1>4, <2>1, <3>1, <3>4, <3>5, <3>6, Caches
    <3>. QED
      BY <1>5, <3>1, <3>7
  <2>. QED
    BY <2>2, <2>3
<1>9. Fresh(j, img', strings') /\ FreshFile(j, img', png_cache)
  BY <1>3, PlainlyFresh
<1>10. TextSafe'
  <2>2. TextsSound' => \A u \in Threads : u # t => ~Inside(u, "strings")
    BY <1>2 DEF TextsSound
  <2>. QED
    BY <1>3, <1>5, <1>7, <1>8, <1>9, <2>2, TextStep
<1>11. FileSafe'
  BY <1>2, <1>3, <1>5, <1>9, FilesRest
<1>. QED
  BY <1>10, <1>11

-----------------------------------------------------------------------------
LEMMA GotSafe ==
    ASSUME PicTyped, OwnInv, TextSafe, FileSafe, NEW t \in Threads, Got(t) PROVE TextSafe' /\ FileSafe'
<1>. PICK i, r : i = job[t].item /\ r = job[t].as
  OBVIOUS
<1>0. job[t].op = "get" /\ job[t].op \in CallOps /\ Meet(t, "png")
  BY DEF Got, CallOps
<1>1. i \in Items /\ img[i] = Blank /\ r \in PngItem /\ Alone(t, i)
  BY <1>0, Placed, Elsewhere DEF OwnInv, Fits
<1>2. raced \subseteq raced' /\ ("png" \notin raced' => \A u \in Threads : u # t => ~Inside(u, "png"))
  BY <1>0, Meeting
<1>3. CASE job[t].entry = "none" /\ show_plain(i, NoItem) /\ Turn(t, Again(t))
  <2>1. PICK j : j = Again(t)
    OBVIOUS
  <2>2. job' = [job EXCEPT ![t] = j] /\ Plainly(j)
    BY <1>3, <2>1 DEF Turn, Again, Plainly
  <2>3. img' = [img EXCEPT ![i] = NoItem] /\ UNCHANGED <<strings, png_cache, alive, apart>>
    BY <1>3 DEF show_plain
  <2>4. \A m \in Items : img'[m] = IF m = i THEN NoItem ELSE img[m]
    BY <2>3 DEF PicTyped
  <2>5. {img[i].kind, NoItem.kind} \cap {"text", "png"} = {}
    BY <1>1, Kinds
  <2>. QED
    BY <1>1, <1>2, <2>2, <2>3, <2>4, <2>5, PicturesRest
<1>4. CASE fb_png_get(i, r, job[t].entry) /\ Back(t)
  <2>1. PICK j : Plainly(j) /\ job' = [job EXCEPT ![t] = j]
    BY <1>0, <1>4, BacksTyped, Returns
  <2>. PICK p, e : p = r.path /\ e = IF png_cache[p] = Absent THEN [refcnt |-> 1] ELSE [refcnt |-> png_cache[p].refcnt + 1]
    OBVIOUS
  <2>2. p \in Paths /\ r.kind = "png"
    BY <1>1 DEF PngItem
  <2>3. img' = [img EXCEPT ![i] = r] /\ UNCHANGED <<strings, alive, apart>>
    BY <1>4 DEF fb_png_get
  <2>4. \A m \in Items : img'[m] = IF m = i THEN r ELSE img[m]
    BY <2>3 DEF PicTyped
  <2>5. "png" \notin raced' => FilesSound(img', png_cache')
    <3>. SUFFICES ASSUME "png" \notin raced PROVE FilesSound(img', png_cache')
      BY <1>2
    <3>1. FilesSound(img, png_cache) /\ FreshFile(job[t], img, png_cache)
      BY DEF FileSafe
    <3>2. job[t].entry = IF png_cache[p] = Absent THEN "none" ELSE "shared"
      BY <1>0, <3>1 DEF FreshFile, Located
    <3>3. png_cache' = [png_cache EXCEPT ![p] = e]
      BY <1>4, <2>2, <3>2 DEF fb_png_get, PicTyped
    <3>4. img[i].kind # "png" /\ img \in [Items -> Shows] /\ png_cache \in [Paths -> Files]
      BY <1>1, Kinds DEF PicTyped
    <3>5. FilesSound([img EXCEPT ![i] = r], [png_cache EXCEPT ![p] = e])
      BY <1>1, <2>2, <3>1, <3>4, FileGains
    <3>. QED
      BY <2>3, <3>3, <3>5
  <2>6. Fresh(j, img', strings) /\ FreshFile(j, img', png_cache')
    BY <2>1, PlainlyFresh
  <2>7. TextSafe'
    <3>1. \A m \in Items : img'[m] = img[m] \/ (img[m].kind # "text" /\ img'[m].kind # "text" /\ Alone(t, m))
      BY <1>1, <2>2, <2>4, Kinds
    <3>. QED
      BY <1>2, <2>1, <2>3, <2>6, <3>1, TextsRest
  <2>8. FileSafe'
    <3>1. \A m \in Items : img'[m] = img[m] \/ Alone(t, m)
      BY <1>1, <2>4
    <3>. QED
      BY <1>2, <2>1, <2>5, <2>6, <3>1, FileStep
  <2>. QED
    BY <2>7, <2>8
<1>. QED
  BY <1>3, <1>4 DEF Got

LEMMA LinkSafe ==
    ASSUME PicTyped, OwnInv, TextSafe, FileSafe, NEW t \in Threads, fb_ctx_add_item(t) PROVE TextSafe' /\ FileSafe'
<1>1. PICK j : j = Again(t)
  OBVIOUS
<1>2. job' = [job EXCEPT ![t] = j] /\ Plainly(j)
  BY <1>1 DEF fb_ctx_add_item, Turn, Again, Plainly
<1>3. UNCHANGED pictureVars
  BY DEF fb_ctx_add_item
<1>. QED
  BY <1>2, <1>3, PicturesRest DEF pictureVars

\* An item leaves its text.
LEMMA LeavesSafe ==
    ASSUME PicTyped, OwnInv, TextSafe, NEW t \in Threads, job[t].op \in CallOps,
           NEW i, i = job[t].item, img[i].kind = "text", NEW e, Read(e, img[i], strings) \/ ~TextsSound,
           NEW r, r.kind # "text", LeaveText(i, e, r), Meet(t, "strings"),
           NEW j, job' = [job EXCEPT ![t] = j], Plainly(j)
    PROVE  TextSafe'
<1>1. i \in Items /\ img[i] \in TextItem /\ Alone(t, i)
  BY Placed, Elsewhere, ItemTyped
<1>2. raced \subseteq raced' /\ ("strings" \notin raced' => \A u \in Threads : u # t => ~Inside(u, "strings"))
  BY Meeting
<1>. PICK k : k = img[i].text
  OBVIOUS
<1>3. /\ img' = [img EXCEPT ![i] = r] /\ apart' = apart
      /\ strings' = IF e # "none" THEN Counted(k, -1) ELSE strings
      /\ alive' = IF e # "none" THEN alive ELSE alive \ {img[i].data}
  BY DEF LeaveText
<1>4. TextsSound' => TextsSound
  BY <1>2, <1>3, StillSound, Zenon
<1>5. TextsSound' => Sound(img', strings', alive')
  <2>. SUFFICES ASSUME TextsSound PROVE Sound(img', strings', alive')
    BY <1>4
  <2>1. Sound(img, strings, alive) /\ Read(e, img[i], strings)
    BY DEF TextSafe
  <2>2. e = "none" <=> k \notin Entries(strings)
    BY <1>1, <2>1, ReadsEntry
  <2>3. k \in Texts /\ img \in [Items -> Shows] /\ strings \in [Texts -> Keeps]
    BY <1>1 DEF PicTyped, TextItem
  <2>4. CASE k \in Entries(strings)
    <3>1. strings' = [strings EXCEPT ![k].refcnt = @ + (-1)] /\ alive' = alive
      BY <1>3, <2>2, <2>3, <2>4, CountsEntry
    <3>2. Sound([img EXCEPT ![i] = r], [strings EXCEPT ![k].refcnt = @ + (-1)], alive)
      BY <1>1, <2>1, <2>3, <2>4, Leaves
    <3>. QED
      BY <1>3, <3>1, <3>2
  <2>5. CASE k \notin Entries(strings)
    <3>1. strings' = strings /\ alive' = alive \ {img[i].data}
      BY <1>3, <2>2, <2>5
    <3>2. Sound([img EXCEPT ![i] = r], strings, alive \ {img[i].data})
      BY <1>1, <2>1, <2>3, <2>5, Leaves
    <3>. QED
      BY <1>3, <3>1, <3>2
  <2>. QED
    BY <2>4, <2>5
<1>6. \A m \in Items : img'[m] = img[m] \/ Alone(t, m)
  BY <1>1, <1>3 DEF PicTyped
<1>7. Fresh(j, img', strings')
  BY PlainlyFresh
<1>8. TextsSound' => \A u \in Threads : u # t => ~Inside(u, "strings")
  BY <1>2 DEF TextsSound
<1>. QED
  BY <1>4, <1>5, <1>6, <1>7, <1>8, TextStep

LEMMA UnlinkedSafe ==
    ASSUME PicTyped, OwnInv, TextSafe, FileSafe, NEW t \in Threads, Unlinked(t) PROVE TextSafe' /\ FileSafe'
<1>. PICK i : i = job[t].item
  OBVIOUS
<1>0. /\ job[t].op = "unlink" /\ job[t].op \in CallOps /\ Meet(t, "strings")
      /\ LeaveText(i, job[t].entry, Blank)
  BY DEF Unlinked, unlink_from_caches, CallOps
<1>1. i \in Items /\ img[i].kind = "text" /\ Alone(t, i) /\ Blank.kind # "text" /\ Blank.kind # "png"
  BY <1>0, Placed, Elsewhere, Kinds DEF OwnInv, Fits
<1>2. PICK j : j = Step("render", i, job[t].as, "none", job[t].back)
  OBVIOUS
<1>3. job' = [job EXCEPT ![t] = j] /\ Plainly(j)
  BY <1>2, StepIs DEF Unlinked, To, Turn, Plainly
<1>4. Read(job[t].entry, img[i], strings) \/ ~TextsSound
  BY <1>0 DEF TextSafe, Fresh
<1>5. TextSafe'
  BY <1>0, <1>1, <1>3, <1>4, LeavesSafe
<1>6. FileSafe'
  <2>1. img' = [img EXCEPT ![i] = Blank] /\ png_cache' = png_cache
    BY <1>0 DEF LeaveText
  <2>2. \A m \in Items : img'[m] = img[m] \/ (img[m].kind # "png" /\ img'[m].kind # "png" /\ Alone(t, m))
    BY <1>1, <2>1 DEF PicTyped
  <2>3. FreshFile(j, img', png_cache) /\ raced \subseteq raced'
    BY <1>0, <1>3, PlainlyFresh, Meeting
  <2>. QED
    BY <1>3, <2>1, <2>2, <2>3, FilesRest
<1>. QED
  BY <1>5, <1>6

LEMMA RecolouredSafe ==
    ASSUME PicTyped, OwnInv, TextSafe, FileSafe, NEW t \in Threads, Recoloured(t) PROVE TextSafe' /\ FileSafe'
<1>. PICK i, e, c : i = job[t].item /\ e = job[t].entry /\ c = job[t].as.colour
  OBVIOUS
<1>0. /\ job[t].op = "recolour" /\ job[t].op \in CallOps /\ Meet(t, "strings")
      /\ fb_text_set_color(i, c, e)
  BY DEF Recoloured, CallOps
<1>1. i \in Items /\ img[i].kind = "text" /\ Alone(t, i) /\ img[i] \in TextItem /\ c \in Colours
  BY <1>0, Placed, Elsewhere, ItemTyped DEF OwnInv, Fits, TextItem
<1>2. raced \subseteq raced' /\ ("strings" \notin raced' => \A u \in Threads : u # t => ~Inside(u, "strings"))
  BY <1>0, Meeting
<1>3. PICK j : j = Step("paint", i, Blank, e, job[t].back)
  OBVIOUS
<1>4. job' = [job EXCEPT ![t] = j] /\ j.op = "paint" /\ j.entry = e
  BY <1>3, StepIs DEF Recoloured, To, Turn
<1>. PICK k, r : k = img[i].text /\ r = [img[i] EXCEPT !.colour = c]
  OBVIOUS
<1>5. r \in TextItem /\ r.kind = "text" /\ r.text = k /\ r.data = img[i].data /\ r.colour = c /\ k \in Texts
  BY <1>1 DEF TextItem
<1>6. img' = [img EXCEPT ![i] = r] /\ UNCHANGED <<png_cache, alive>>
  BY <1>0 DEF fb_text_set_color
<1>7. /\ apart' = (apart \/ e = "shared")
      /\ strings' = CASE e = "none" \/ strings[k] = Absent -> strings
                      [] e = "alone" /\ strings[k] # Absent -> [strings EXCEPT ![k].colour = c]
                      [] e = "shared" /\ strings[k] # Absent -> Counted(k, -1)
  BY <1>0, Zenon DEF fb_text_set_color
<1>8. (apart => apart') /\ (TextsSound' => e # "shared")
  BY <1>7, Zenon DEF TextsSound
<1>9. TextsSound' => TextsSound
  BY <1>2, <1>8, StillSound, Zenon
<1>10. \A m \in Items : img'[m] = IF m = i THEN r ELSE img[m]
  BY <1>6 DEF PicTyped
<1>11. TextsSound' => Sound(img', strings', alive')
  <2>. SUFFICES ASSUME TextsSound, e # "shared" PROVE Sound(img', strings', alive')
    BY <1>8, <1>9
  <2>1. Sound(img, strings, alive) /\ Read(e, img[i], strings)
    BY <1>0 DEF TextSafe, Fresh
  <2>2. /\ e = "none" <=> k \notin Entries(strings)
        /\ e = "alone" => k \in Entries(strings) /\ strings[k].refcnt = 1
    BY <1>1, <2>1, ReadsEntry
  <2>3. e \in {"none", "alone"}
    BY <2>1 DEF Read
  <2>4. img \in [Items -> Shows] /\ strings \in [Texts -> Keeps]
    BY DEF PicTyped
  <2>5. /\ k \notin Entries(strings) => Sound([img EXCEPT ![i] = r], strings, alive)
        /\ k \in Entries(strings) /\ strings[k].refcnt = 1 =>
             Sound([img EXCEPT ![i] = r], [strings EXCEPT ![k].colour = c], alive)
    BY <1>1, <1>5, <2>1, <2>4, Repaints
  <2>6. CASE e = "none"
    <3>1. strings' = strings
      BY <1>7, <2>6
    <3>. QED
      BY <1>6, <2>2, <2>5, <2>6, <3>1
  <2>7. CASE e = "alone"
    <3>1. strings[k] # Absent
      BY <2>2, <2>7 DEF Entries
    <3>2. strings' = [strings EXCEPT ![k].colour = c]
      BY <1>7, <2>7, <3>1
    <3>. QED
      BY <1>6, <2>2, <2>5, <2>7, <3>2
  <2>. QED
    BY <2>3, <2>6, <2>7
<1>12. TextsSound' => Fresh(j, img', strings')
  BY <1>4, <1>8 DEF Fresh
<1>13. FreshFile(j, img', png_cache)
  BY <1>4 DEF FreshFile
<1>14. TextSafe'
  <2>1. \A m \in Items : img'[m] = img[m] \/ Alone(t, m)
    BY <1>1, <1>10
  <2>2. TextsSound' => \A u \in Threads : u # t => ~Inside(u, "strings")
    BY <1>2 DEF TextsSound
  <2>. QED
    BY <1>4, <1>9, <1>11, <1>12, <2>1, <2>2, TextStep
<1>15. FileSafe'
  <2>1. \A m \in Items : img'[m] = img[m] \/ (img[m].kind # "png" /\ img'[m].kind # "png" /\ Alone(t, m))
    BY <1>1, <1>5, <1>10
  <2>. QED
    BY <1>2, <1>4, <1>6, <1>13, <2>1, FilesRest
<1>. QED
  BY <1>14, <1>15

LEMMA PaintedSafe ==
    ASSUME PicTyped, OwnInv, TextSafe, FileSafe, NEW t \in Threads, Painted(t) PROVE TextSafe' /\ FileSafe'
<1>. PICK i, e : i = job[t].item /\ e = job[t].entry
  OBVIOUS
<1>0. job[t].op = "paint" /\ job[t].op \in CallOps /\ RepaintText(i, e) /\ Back(t) /\ raced' = raced
  BY DEF Painted, CallOps
<1>1. i \in Items /\ img[i].kind = "text" /\ Alone(t, i) /\ img[i] \in TextItem
  BY <1>0, Placed, Elsewhere, ItemTyped DEF OwnInv, Fits
<1>2. PICK j : Plainly(j) /\ job' = [job EXCEPT ![t] = j]
  BY <1>0, BacksTyped, Returns
<1>3. UNCHANGED <<strings, png_cache, apart>>
  BY <1>0 DEF RepaintText
<1>4. e # "shared" => UNCHANGED <<img, alive>>
  BY <1>0, <1>1 DEF RepaintText, PicTyped, TextItem
<1>5. \A m \in Items : m # i => img'[m] = img[m]
  BY <1>0 DEF RepaintText, PicTyped
<1>6. img'[i].kind = "text"
  <2>. PICK d : img' = [img EXCEPT ![i].data = d]
    BY <1>0 DEF RepaintText
  <2>. QED
    BY <1>1 DEF PicTyped, TextItem
<1>7. Fresh(j, img', strings') /\ FreshFile(j, img', png_cache)
  BY <1>2, PlainlyFresh
<1>8. TextsSound' => TextsSound
  BY <1>0, <1>3, StillSound, Zenon
<1>9. TextsSound' => Sound(img', strings', alive')
  <2>. SUFFICES ASSUME TextsSound PROVE Sound(img', strings', alive')
    BY <1>8
  <2>1. Sound(img, strings, alive) /\ e # "shared"
    BY <1>0 DEF TextSafe, Fresh
  <2>. QED
    BY <1>3, <1>4, <2>1
<1>10. \A m \in Items : img'[m] = img[m] \/ Alone(t, m)
  BY <1>1, <1>5
<1>11. TextSafe'
  BY <1>2, <1>3, <1>7, <1>8, <1>9, <1>10, TextStep
<1>12. FileSafe'
  <2>1. \A m \in Items : img'[m] = img[m] \/ (img[m].kind # "png" /\ img'[m].kind # "png" /\ Alone(t, m))
    BY <1>1, <1>5, <1>6
  <2>. QED
    BY <1>0, <1>2, <1>3, <1>7, <2>1, FilesRest
<1>. QED
  BY <1>11, <1>12

LEMMA DestroySafe ==
    ASSUME PicTyped, OwnInv, TextSafe, FileSafe, NEW t \in Threads, fb_destroy_item(t) PROVE TextSafe' /\ FileSafe'
<1>. PICK i : i = job[t].item
  OBVIOUS
<1>0. job[t].op = "destroy" /\ job[t].op \in CallOps
  BY DEF fb_destroy_item, CallOps
<1>1. i \in Items /\ Alone(t, i)
  BY <1>0, Placed, Elsewhere
<1>2. CASE img[i].kind = "plain" /\ show_plain(i, NoItem) /\ Back(t) /\ raced' = raced
  <2>1. PICK j : Plainly(j) /\ job' = [job EXCEPT ![t] = j]
    BY <1>0, <1>2, BacksTyped, Returns
  <2>2. img' = [img EXCEPT ![i] = NoItem] /\ UNCHANGED <<strings, png_cache, alive, apart>>
    BY <1>2 DEF show_plain
  <2>3. \A m \in Items : img'[m] = IF m = i THEN NoItem ELSE img[m]
    BY <2>2 DEF PicTyped
  <2>4. {img[i].kind, NoItem.kind} \cap {"text", "png"} = {}
    BY <1>2, Kinds
  <2>5. raced \subseteq raced'
    BY <1>2
  <2>. QED
    BY <1>1, <2>1, <2>2, <2>3, <2>4, <2>5, PicturesRest
<1>3. ASSUME NEW e, NEW c, To(t, "leave", Blank, e), UNCHANGED <<img, strings, png_cache, alive, apart>>, Meet(t, c),
             img[i].kind = "text" => Read(e, img[i], strings),
             img[i].kind = "png" => Located(e, img[i].path, png_cache)
      PROVE  TextSafe' /\ FileSafe'
  <2>1. PICK j : j = Step("leave", i, Blank, e, job[t].back)
    OBVIOUS
  <2>2. job' = [job EXCEPT ![t] = j] /\ j.op = "leave" /\ j.item = i /\ j.entry = e
    BY <1>3, <2>1, StepIs DEF To, Turn
  <2>3. raced \subseteq raced'
    BY <1>3, Meeting
  <2>4. Fresh(j, img', strings) /\ FreshFile(j, img', png_cache)
    BY <1>3, <2>2 DEF Fresh, FreshFile
  <2>5. TextSafe'
    BY <1>3, <2>2, <2>3, <2>4, TextsRest
  <2>6. FileSafe'
    BY <1>3, <2>2, <2>3, <2>4, FilesRest
  <2>. QED
    BY <2>5, <2>6
<1>4. CASE /\ img[i].kind = "text" /\ To(t, "leave", Blank, SeenText(img[i].text, img[i].colour))
           /\ UNCHANGED <<img, strings, png_cache, alive, apart>> /\ Meet(t, "strings")
  <2>1. Read(SeenText(img[i].text, img[i].colour), img[i], strings) /\ img[i].kind # "png"
    BY <1>1, <1>4, Lookups, ItemTyped
  <2>. QED
    BY <1>3, <1>4, <2>1
<1>5. CASE /\ img[i].kind = "png" /\ To(t, "leave", Blank, SeenFile(img[i].path))
           /\ UNCHANGED <<img, strings, png_cache, alive, apart>> /\ Meet(t, "png")
  <2>1. img[i] \in PngItem
    BY <1>1, <1>5, ItemTyped
  <2>2. Located(SeenFile(img[i].path), img[i].path, png_cache) /\ img[i].kind # "text"
    BY <1>5, <2>1, Lookups DEF PngItem
  <2>. QED
    BY <1>3, <1>5, <2>2
<1>. QED
  BY <1>2, <1>4, <1>5 DEF fb_destroy_item

LEMMA LeftSafe ==
    ASSUME PicTyped, OwnInv, TextSafe, FileSafe, NEW t \in Threads, Left(t) PROVE TextSafe' /\ FileSafe'
<1>. PICK i, e : i = job[t].item /\ e = job[t].entry
  OBVIOUS
<1>0. job[t].op = "leave" /\ job[t].op \in CallOps /\ Back(t)
  BY DEF Left, CallOps
<1>1. i \in Items /\ Alone(t, i) /\ NoItem.kind # "text" /\ NoItem.kind # "png"
  BY <1>0, Placed, Elsewhere, Kinds
<1>2. PICK j : Plainly(j) /\ job' = [job EXCEPT ![t] = j]
  BY <1>0, BacksTyped, Returns
<1>3. CASE img[i].kind = "text" /\ LeaveText(i, e, NoItem) /\ Meet(t, "strings")
  <2>1. Read(e, img[i], strings) \/ ~TextsSound
    BY <1>0, <1>3 DEF TextSafe, Fresh
  <2>2. TextSafe'
    BY <1>0, <1>1, <1>2, <1>3, <2>1, LeavesSafe
  <2>3. img' = [img EXCEPT ![i] = NoItem] /\ png_cache' = png_cache
    BY <1>3 DEF LeaveText
  <2>4. \A m \in Items : img'[m] = img[m] \/ (img[m].kind # "png" /\ img'[m].kind # "png" /\ Alone(t, m))
    BY <1>1, <1>3, <2>3 DEF PicTyped
  <2>5. FreshFile(j, img', png_cache) /\ raced \subseteq raced'
    BY <1>2, <1>3, PlainlyFresh, Meeting
  <2>6. FileSafe'
    BY <1>2, <2>3, <2>4, <2>5, FilesRest
  <2>. QED
    BY <2>2, <2>6
<1>4. CASE img[i].kind = "png" /\ fb_png_release(i, e) /\ Meet(t, "png")
  <2>. PICK p : p = img[i].path
    OBVIOUS
  <2>1. img[i] \in PngItem /\ p \in Paths
    BY <1>1, <1>4, ItemTyped DEF PngItem
  <2>2. /\ img' = [img EXCEPT ![i] = NoItem] /\ UNCHANGED <<strings, alive, apart>>
        /\ png_cache' = [png_cache EXCEPT ![p] = IF e = "none" \/ @ = Absent THEN @ ELSE [refcnt |-> @.refcnt - 1]]
    BY <1>4 DEF fb_png_release
  <2>3. raced \subseteq raced' /\ ("png" \notin raced' => \A u \in Threads : u # t => ~Inside(u, "png"))
    BY <1>4, Meeting
  <2>4. \A m \in Items : img'[m] = IF m = i THEN NoItem ELSE img[m]
    BY <2>2 DEF PicTyped
  <2>5. "png" \notin raced' => FilesSound(img', png_cache')
    <3>. SUFFICES ASSUME "png" \notin raced PROVE FilesSound(img', png_cache')
      BY <2>3
    <3>1. FilesSound(img, png_cache) /\ FreshFile(job[t], img, png_cache)
      BY DEF FileSafe
    <3>2. img \in [Items -> Shows] /\ png_cache \in [Paths -> Files]
      BY DEF PicTyped
    <3>3. /\ png_cache[p] # Absent
          /\ FilesSound([img EXCEPT ![i] = NoItem], [png_cache EXCEPT ![p] = [refcnt |-> png_cache[p].refcnt - 1]])
      BY <1>1, <2>1, <3>1, <3>2, FileLoses
    <3>4. e = "shared"
      BY <1>0, <1>4, <3>1, <3>3 DEF FreshFile, Located
    <3>5. png_cache' = [png_cache EXCEPT ![p] = [refcnt |-> png_cache[p].refcnt - 1]]
      BY <2>1, <2>2, <3>2, <3>3, <3>4
    <3>. QED
      BY <2>2, <3>3, <3>5
  <2>6. Fresh(j, img', strings) /\ FreshFile(j, img', png_cache')
    BY <1>2, PlainlyFresh
  <2>7. TextSafe'
    <3>1. \A m \in Items : img'[m] = img[m] \/ (img[m].kind # "text" /\ img'[m].kind # "text" /\ Alone(t, m))
      BY <1>1, <1>4, <2>4
    <3>. QED
      BY <1>2, <2>2, <2>3, <2>6, <3>1, TextsRest
  <2>8. FileSafe'
    <3>1. \A m \in Items : img'[m] = img[m] \/ Alone(t, m)
      BY <1>1, <2>4
    <3>. QED
      BY <1>2, <2>3, <2>5, <2>6, <3>1, FileStep
  <2>. QED
    BY <2>7, <2>8
<1>. QED
  BY <1>3, <1>4 DEF Left, fb_text_destroy

-----------------------------------------------------------------------------
\* fb_clear's walks of the caches.
LEMMA DropFileSafe ==
    ASSUME PicTyped, OwnInv, TextSafe, FileSafe, NEW p \in Paths, DropFile(p) PROVE TextSafe' /\ FileSafe'
<1>0. Main \in Threads
  BY DEF Threads
<1>1. PICK j : j = [op |-> "files", left |-> job[Main].left \ {p}]
  OBVIOUS
<1>2. job' = [job EXCEPT ![Main] = j] /\ Plainly(j)
  BY <1>1 DEF DropFile, Turn, Plainly
<1>3. /\ UNCHANGED <<img, strings, alive, apart>> /\ Meet(Main, "png")
      /\ png_cache' = [png_cache EXCEPT ![p] = IF @ # Absent /\ @.refcnt <= 0 THEN Absent ELSE @]
  BY DEF DropFile, fb_png_drop_unused
<1>4. raced \subseteq raced' /\ ("png" \notin raced' => \A u \in Threads : u # Main => ~Inside(u, "png"))
  BY <1>0, <1>3, Meeting
<1>5. "png" \notin raced' => FilesSound(img', png_cache')
  <2>. SUFFICES ASSUME "png" \notin raced PROVE FilesSound(img', png_cache')
    BY <1>4
  <2>1. FilesSound(img, png_cache) /\ png_cache \in [Paths -> Files]
    BY DEF FileSafe, PicTyped
  <2>2. FilesSound(img, [png_cache EXCEPT ![p] = IF @ # Absent /\ @.refcnt <= 0 THEN Absent ELSE @])
    BY <2>1, FileGoes
  <2>. QED
    BY <1>3, <2>2
<1>6. Fresh(j, img', strings) /\ FreshFile(j, img', png_cache')
  BY <1>2, PlainlyFresh
<1>7. TextSafe'
  BY <1>0, <1>2, <1>3, <1>4, <1>6, TextsRest
<1>8. FileSafe'
  BY <1>0, <1>2, <1>3, <1>4, <1>5, <1>6, FileStep
<1>. QED
  BY <1>7, <1>8

LEMMA DropTextSafe ==
    ASSUME PicTyped, OwnInv, TextSafe, FileSafe, NEW k \in Texts, DropText(k) PROVE TextSafe' /\ FileSafe'
<1>0. Main \in Threads
  BY DEF Threads
<1>1. PICK j : j = [op |-> "texts", left |-> job[Main].left \ {k}]
  OBVIOUS
<1>2. job' = [job EXCEPT ![Main] = j] /\ Plainly(j)
  BY <1>1 DEF DropText, Turn, Plainly
<1>3. /\ UNCHANGED <<img, png_cache, apart>> /\ Meet(Main, "strings")
      /\ strings' = IF Unused(k) THEN [strings EXCEPT ![k] = Absent] ELSE strings
      /\ alive' = IF Unused(k) THEN alive \ {strings[k].data} ELSE alive
  BY DEF DropText, drop_strings_cache
<1>4. raced \subseteq raced' /\ ("strings" \notin raced' => \A u \in Threads : u # Main => ~Inside(u, "strings"))
  BY <1>0, <1>3, Meeting
<1>5. TextsSound' => TextsSound
  BY <1>3, <1>4, StillSound, Zenon
<1>6. TextsSound' => Sound(img', strings', alive')
  <2>. SUFFICES ASSUME TextsSound PROVE Sound(img', strings', alive')
    BY <1>5
  <2>1. Sound(img, strings, alive)
    BY DEF TextSafe
  <2>2. CASE Unused(k)
    <3>1. k \in Entries(strings) /\ strings[k].refcnt = 0
      BY <2>2 DEF Unused, Entries
    <3>2. img \in [Items -> Shows] /\ strings \in [Texts -> Keeps]
      BY DEF PicTyped
    <3>3. Sound(img, [strings EXCEPT ![k] = Absent], alive \ {strings[k].data})
      BY <2>1, <3>1, <3>2, Drops
    <3>. QED
      BY <1>3, <2>2, <3>3
  <2>3. CASE ~Unused(k)
    BY <1>3, <2>1, <2>3
  <2>. QED
    BY <2>2, <2>3
<1>7. Fresh(j, img', strings') /\ FreshFile(j, img', png_cache)
  BY <1>2, PlainlyFresh
<1>8. TextSafe'
  <2>1. TextsSound' => \A u \in Threads : u # Main => ~Inside(u, "strings")
    BY <1>4 DEF TextsSound
  <2>. QED
    BY <1>0, <1>2, <1>3, <1>5, <1>6, <1>7, <2>1, TextStep
<1>9. FileSafe'
  BY <1>0, <1>2, <1>3, <1>4, <1>7, FilesRest
<1>. QED
  BY <1>8, <1>9

LEMMA ClearSafe ==
    ASSUME PicTyped, OwnInv, TextSafe, FileSafe, ClearStep PROVE TextSafe' /\ FileSafe'
<1>. USE DEF Turn
<1>0. Main \in Threads
  BY DEF Threads
<1>1. ASSUME NEW j, job' = [job EXCEPT ![Main] = j], Plainly(j), raced \subseteq raced',
             UNCHANGED <<img, strings, png_cache, alive, apart>>
      PROVE  TextSafe' /\ FileSafe'
  BY <1>0, <1>1, PicturesRest
<1>2. CASE fb_clear
  <2>1. Plainly([op |-> "clear"]) /\ job' = [job EXCEPT ![Main] = [op |-> "clear"]] /\ UNCHANGED pictureVars
    BY <1>2 DEF fb_clear, Plainly
  <2>. QED
    BY <1>1, <2>1 DEF pictureVars
<1>3. CASE ClearItem
  <2>1. PICK j : j = Step("destroy", Head(items), Blank, "none", "clear")
    OBVIOUS
  <2>2. Plainly(j) /\ job' = [job EXCEPT ![Main] = j]
    BY <1>3, <2>1, StepIs DEF ClearItem, Plainly
  <2>3. UNCHANGED pictureVars
    BY <1>3 DEF ClearItem
  <2>. QED
    BY <1>1, <2>2, <2>3 DEF pictureVars
<1>4. CASE Cleared
  <2>1. PICK j : j = [op |-> "files", left |-> {p \in Paths : png_cache[p] # Absent}]
    OBVIOUS
  <2>2. Plainly(j) /\ job' = [job EXCEPT ![Main] = j]
    BY <1>4, <2>1 DEF Cleared, Plainly
  <2>3. UNCHANGED <<img, strings, png_cache, alive, apart>> /\ raced \subseteq raced'
    BY <1>0, <1>4, Meeting DEF Cleared
  <2>. QED
    BY <1>1, <2>2, <2>3
<1>5. CASE FilesDropped
  <2>1. PICK j : j = [op |-> "texts", left |-> {k \in Texts : strings[k] # Absent}]
    OBVIOUS
  <2>2. Plainly(j) /\ job' = [job EXCEPT ![Main] = j]
    BY <1>5, <2>1 DEF FilesDropped, Plainly
  <2>3. UNCHANGED <<img, strings, png_cache, alive, apart>> /\ raced \subseteq raced'
    BY <1>0, <1>5, Meeting DEF FilesDropped
  <2>. QED
    BY <1>1, <2>2, <2>3
<1>6. CASE TextsDropped
  <2>1. Plainly(Idle) /\ job' = [job EXCEPT ![Main] = Idle] /\ UNCHANGED pictureVars
    BY <1>6 DEF TextsDropped, Plainly, Idle
  <2>. QED
    BY <1>1, <2>1 DEF pictureVars
<1>. QED
  BY <1>2, <1>3, <1>4, <1>5, <1>6, DropFileSafe, DropTextSafe DEF ClearStep

LEMMA CachesKept == PicTyped /\ OwnInv /\ TextSafe /\ FileSafe /\ [Next]_vars => TextSafe' /\ FileSafe'
<1>. SUFFICES ASSUME PicTyped, OwnInv, TextSafe, FileSafe, [Next]_vars PROVE TextSafe' /\ FileSafe'
  OBVIOUS
<1>. USE DEF Turn, KeepItems
<1>0. Main \in Threads /\ Input \in Threads
  BY DEF Threads
<1>1. ASSUME UNCHANGED pictureVars, NEW t \in Threads,
             NEW j \in {Idle} \cup {[op |-> o] : o \in {"tested", "waiting", "freezing", "shot", "closing"}},
             job' = [job EXCEPT ![t] = j]
      PROVE  TextSafe' /\ FileSafe'
  <2>1. Plainly(j)
    BY DEF Plainly, Idle
  <2>. QED
    BY <1>1, <2>1, PicturesRest DEF pictureVars
<1>2. ASSUME UNCHANGED <<pictureVars, job>> PROVE TextSafe' /\ FileSafe'
  <2>1. job' = job /\ UNCHANGED <<img, strings, png_cache, alive, raced>>
    BY <1>2 DEF pictureVars
  <2>2. TextsSound' => TextsSound
    BY <1>2, Zenon DEF TextsSound, pictureVars
  <2>. QED
    BY <2>1, <2>2 DEF TextSafe, FileSafe
<1>3. ASSUME NEW t \in Threads, ItemCall(t) PROVE TextSafe' /\ FileSafe'
  <2>1. CASE fb_request_draw(t)
    BY <1>1, <2>1 DEF fb_request_draw
  <2>2. CASE Requested(t)
    BY <1>1, <2>2 DEF Requested
  <2>3. CASE CallStep(t)
    BY <2>3, RenderSafe, UsedSafe, StoredSafe, GotSafe, LinkSafe, UnlinkedSafe, RecolouredSafe, PaintedSafe,
       DestroySafe, LeftSafe, Zenon DEF CallStep
  <2>. QED
    BY <1>3, <2>1, <2>2, <2>3, BeginsSafe, Zenon DEF ItemCall, Begins
<1>4. CASE fb_open \/ Opened \/ fb_unfreeze \/ fb_push_context
  BY <1>2, <1>4 DEF fb_open, Opened, fb_unfreeze, fb_push_context
<1>5. CASE fb_close \/ Closed
  BY <1>0, <1>1, <1>5 DEF fb_close, Closed
<1>6. CASE fb_force_draw \/ fb_freeze \/ Frozen
  BY <1>0, <1>1, <1>6 DEF fb_force_draw, fb_freeze, Frozen
<1>7. CASE fb_pop_context
  <2>1. PICK j \in {Idle, [op |-> "tested"]} : job' = [job EXCEPT ![Main] = j]
    BY <1>7 DEF fb_pop_context
  <2>2. UNCHANGED pictureVars
    BY <1>7 DEF fb_pop_context
  <2>. QED
    BY <1>0, <1>1, <2>1, <2>2
<1>8. CASE fb_save_screenshot
  BY <1>0, <1>1, <1>8 DEF fb_save_screenshot
<1>9. CASE ShotTaken
  <2>1. UNCHANGED pictureVars
    BY <1>9 DEF ShotTaken
  <2>2. PICK j \in {Idle, [op |-> "tested"]} : job' = [job EXCEPT ![Input] = j]
    BY <1>9 DEF ShotTaken
  <2>. QED
    BY <1>0, <1>1, <2>1, <2>2
<1>10. CASE DrawShown
  <2>1. /\ UNCHANGED <<img, strings, png_cache, alive, raced>>
        /\ job' = [t \in Threads |-> IF job[t].op = "waiting" THEN Idle ELSE job[t]]
    BY <1>10 DEF DrawShown, KeepThreads, pictureVars
  <2>2. TextsSound' => TextsSound
    BY <1>10, Zenon DEF TextsSound, DrawShown, KeepThreads, pictureVars
  <2>3. \A t \in Threads : job'[t] = job[t] \/ (job'[t] = Idle /\ Plainly(Idle))
    BY <2>1 DEF Plainly, Idle
  <2>. QED
    BY <2>1, <2>2, <2>3, PlainlyFresh DEF TextSafe, FileSafe
<1>11. CASE DrawTaken \/ DrawBegin \/ DrawItem \/ DrawEnd \/ DrawThreadEnd
  <2>1. UNCHANGED <<pictureVars, job>>
    BY <1>11 DEF DrawTaken, DrawBegin, DrawItem, DrawEnd, DrawThreadEnd, KeepThreads
  <2>. QED
    BY <1>2, <2>1
<1>12. CASE Vsync \/ UNCHANGED vars
  BY <1>2, <1>12 DEF Vsync, vars
<1>. QED
  BY <1>3, <1>4, <1>5, <1>6, <1>7, <1>8, <1>9, <1>10, <1>11, <1>12, ClearSafe, Zenon
     DEF Next, MainCall, ClearStep, DrawThread

LEMMA CachesBegin == Init => TextSafe /\ FileSafe
<1>. SUFFICES ASSUME Init PROVE TextSafe /\ FileSafe
  OBVIOUS
<1>1. /\ img = [i \in Items |-> NoItem] /\ strings = [k \in Texts |-> Absent]
      /\ png_cache = [p \in Paths |-> Absent] /\ alive = {} /\ job = [t \in Threads |-> Idle]
  BY DEF Init, PicturesInit
<1>2. Texting(img) = {} /\ Entries(strings) = {} /\ \A p : FileUsers(img, p) = {}
  BY <1>1 DEF Texting, Entries, FileUsers, NoItem
<1>3. Sound(img, strings, alive)
  BY <1>1, <1>2 DEF Sound, AllUsed, AllCounted, Agree, OneEach, OwnText, SharedThere
<1>4. FilesSound(img, png_cache)
  BY <1>1, <1>2 DEF FilesSound
<1>5. \A t \in Threads : Plainly(job[t])
  BY <1>1 DEF Plainly, Idle
<1>6. \A t \in Threads : Fresh(job[t], img, strings) /\ FreshFile(job[t], img, png_cache)
  BY <1>5, PlainlyFresh
<1>. QED
  BY <1>3, <1>4, <1>6 DEF TextSafe, FileSafe

LEMMA OrderlyAlive == PicTyped /\ TextSafe /\ FileSafe => PixelsAlive
<1>. SUFFICES ASSUME PicTyped, TextSafe, FileSafe PROVE PixelsAlive
  OBVIOUS
<1>1. ASSUME "png" \notin raced, NEW i \in Items, img[i].kind = "png" PROVE png_cache[img[i].path] # Absent
  <2>1. FilesSound(img, png_cache)
    BY <1>1 DEF FileSafe
  <2>2. img[i].path \in Paths
    BY <1>1, ItemTyped DEF PngItem
  <2>3. i \in FileUsers(img, img[i].path)
    BY <1>1 DEF FileUsers
  <2>. QED
    BY <2>1, <2>2, <2>3 DEF FilesSound
<1>2. ASSUME TextsSound
      PROVE  /\ \A i \in TextItems : img[i].data \in alive
             /\ alive \subseteq {img[i].data : i \in TextItems} \cup {strings[k].data : k \in {u \in Texts : strings[u] # Absent}}
  <2>1. TextItems = Texting(img) /\ {u \in Texts : strings[u] # Absent} = Entries(strings)
    BY DEF TextItems, Texting, Entries
  <2>2. alive = {img[i].data : i \in Texting(img)} \cup {strings[k].data : k \in Entries(strings)}
    BY <1>2 DEF TextSafe, Sound, AllUsed
  <2>. QED
    BY <2>1, <2>2
<1>3. ~apart /\ "strings" \notin raced => TextsSound
  BY Zenon DEF TextsSound
<1>. QED
  BY <1>1, <1>2, <1>3, Zenon DEF PixelsAlive

\* Whatever is made, recoloured, renamed, dropped and let go, in the steps the calls take
\* without a lock, no item points to freed pixels and none stay allocated for nobody
\* (fb_text_render, fb_text_destroy, drop_strings_cache, fb_png_get, fb_png_release,
\* fb_png_drop_unused), as long as no two threads have been inside one cache at a time
\* and no text shows other pixels than its entry's.  Each cache keeps it for itself: a
\* race at the files says nothing of the texts.
THEOREM PixelsStayAlive == Spec => []PixelsAlive
<1>. DEFINE IInv == ShapeInv /\ PicTyped /\ OwnInv /\ TextSafe /\ FileSafe
<1>1. Init => IInv
  BY ShapeBegins, OwnBegins, CachesBegin
<1>2. IInv /\ [Next]_vars => IInv'
  BY ShapeKept, OwnKept, CachesKept
<1>3. IInv => PixelsAlive
  BY OrderlyAlive
<1>. QED
  BY <1>1, <1>2, <1>3, PTL DEF Spec
===============================================================================
