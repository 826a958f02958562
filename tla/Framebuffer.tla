----------------------------- MODULE Framebuffer -----------------------------
(***************************************************************************)
(* lib/framebuffer.c: the list of items, the contexts put aside, the draw  *)
(* thread, and the calls of the other threads.  Main opens and closes the  *)
(* frame buffer, freezes it, forces draws and changes contexts; every      *)
(* thread adds, changes and removes items and asks for draws.              *)
(*                                                                         *)
(* A call that takes a mutex is one step from the moment it has it, unless *)
(* the code does several things under it, which then are steps of their    *)
(* own; so are looking into a cache and using what was found there, which  *)
(* no mutex joins.  job[t] is the call the thread t is in.  No thread      *)
(* calls for an item another one is changing or removing.                  *)
(***************************************************************************)
EXTENDS Pictures, ScreenBuffers, SequencesExt

CONSTANTS
    Main, Input,    \* the threads of the program
    MaxContexts     \* bound: contexts put aside

NoOne == "no one"
Draw == "draw"

ASSUME FramebufferAssumption ==
    /\ Main # Input /\ {Main, Input} \cap {NoOne, Draw} = {}
    /\ MaxContexts \in Nat

VARIABLES
    items,          \* fb_ctx.first_item and what follows
    inactive_ctx,   \* the lists put aside
    ctxLock,        \* who holds fb_ctx.mutex
    drawLock,       \* who holds fb_draw_mutex
    requested,      \* fb_draw_requested
    frozen,         \* fb_frozen
    draw_run,       \* fb_draw_run
    pc,             \* where the draw thread is
    it,             \* the next item it draws
    canvas,         \* what this draw has drawn into fb.buffer
    job,            \* what each thread of the program does
    why             \* history: who set requested: "open", "late" or "force"

drawVars == <<ctxLock, drawLock, requested, frozen, draw_run, pc, it, canvas, why>>
vars == <<pictureVars, bufferVars, items, inactive_ctx, drawVars, job>>

Threads == {Main, Input}
Idle == [op |-> "idle"]

\* A call at an item: what the item is to show, what the call has seen in the cache, and
\* where it goes when it is done.
CallOps == {"render", "use", "store", "get", "link", "destroy", "leave", "unlink", "recolour",
            "paint"}
Calls == [op : CallOps, item : Items, as : Shows, entry : Seen,
          back : {"idle", "batch", "clear", "link"}]

Jobs == [op : {"idle", "batch", "tested", "waiting", "freezing", "shot", "closing", "clear"}]
        \cup Calls
        \cup [op : {"files"}, left : SUBSET Paths] \cup [op : {"texts"}, left : SUBSET Texts]

FramebufferTypeOK ==
    /\ PicturesTypeOK /\ BuffersTypeOK
    /\ items \in Seq(Items) /\ inactive_ctx \in Seq(Seq(Items))
    /\ ctxLock \in Threads \cup {NoOne, Draw} /\ drawLock \in Threads \cup {NoOne, Draw}
    /\ requested \in BOOLEAN /\ frozen \in BOOLEAN /\ draw_run \in BOOLEAN
    /\ pc \in {"none", "opening", "check", "begin", "paint", "update", "ended"}
    /\ it \in Nat /\ canvas \in Seq(Items)
    /\ job \in [Threads -> Jobs]
    /\ why \in {"no one", "open", "late", "force"}

Init ==
    /\ PicturesInit /\ BuffersInit
    /\ items = <<>> /\ inactive_ctx = <<>>
    /\ ctxLock = NoOne /\ drawLock = NoOne
    /\ requested = FALSE /\ frozen = FALSE /\ draw_run = FALSE
    /\ pc = "none" /\ it = 1 /\ canvas = <<>>
    /\ job = [t \in Threads |-> Idle]
    /\ why = NoOne

-----------------------------------------------------------------------------
\* Opening and closing.

\* fb_open, down to the black frame it shows and the thread it starts.
fb_open ==
    /\ draw_run = FALSE /\ pc = "none"
    /\ \E forced \in BOOLEAN : fb_open_impl(forced)
    /\ frozen' = FALSE
    /\ pc' = "opening"
    /\ UNCHANGED <<pictureVars, items, inactive_ctx, ctxLock, drawLock, requested, draw_run,
                   it, canvas, job, why>>

Opened ==
    /\ pc = "opening"
    /\ fb_update
    /\ draw_run' = TRUE
    /\ pc' = "check"
    /\ UNCHANGED <<pictureVars, items, inactive_ctx, ctxLock, drawLock, requested, frozen, it,
                   canvas, job, why>>

\* fb_close: the thread is told to end, and joined.  The program clears its items first.
fb_close ==
    /\ job[Main] = Idle /\ job[Input] = Idle
    /\ draw_run /\ inactive_ctx = <<>> /\ items = <<>>
    /\ draw_run' = FALSE
    /\ job' = [job EXCEPT ![Main] = [op |-> "closing"]]
    /\ UNCHANGED <<pictureVars, bufferVars, items, inactive_ctx, ctxLock, drawLock,
                   requested, frozen, pc, it, canvas, why>>

Closed ==
    /\ job[Main].op = "closing"
    /\ pc = "ended"
    /\ pc' = "none"
    /\ job' = [job EXCEPT ![Main] = Idle]
    /\ close_impl
    /\ UNCHANGED <<pictureVars, items, inactive_ctx, ctxLock, drawLock, requested,
                   frozen, draw_run, it, canvas, why>>

Open == draw_run /\ impl # "none"

-----------------------------------------------------------------------------
\* The list of items.

\* fb_items_lock: a thread in a batch has the mutex already.
fb_items_lock(t) == ctxLock \in {NoOne, t}

Ready(t) == Open /\ job[t].op \in {"idle", "batch"}
Again(t) == [op |-> IF ctxLock = t THEN "batch" ELSE "idle"]
Turn(t, j) == job' = [job EXCEPT ![t] = j]
KeepDraw == UNCHANGED <<bufferVars, drawVars>>
KeepLists == UNCHANGED <<items, inactive_ctx>>

\* The item the thread's call is at, and whether it is left to the thread.
At(t) == IF job[t].op \in CallOps THEN {job[t].item} ELSE {}
Free(t, i) == \A u \in Threads \ {t} : i \notin At(u)

Clearing(t) == job[t].op = "clear" \/ (job[t].op \in CallOps /\ job[t].back = "clear")

\* The thread's call is inside a cache: it has looked and not yet done what it looked for.
\* One that comes to the same cache meanwhile reads, changes or frees what the other uses.
Inside(t, cache) ==
    \/ job[t].op \in (IF cache = "png" THEN {"get", "files"}
                      ELSE {"use", "store", "unlink", "recolour", "texts"})
    \/ job[t].op = "leave" /\ img[job[t].item].kind = (IF cache = "png" THEN "png" ELSE "text")

Meet(t, cache) ==
    raced' = IF \E u \in Threads \ {t} : Inside(u, cache) THEN raced \cup {cache} ELSE raced

fb_batch_start(t) ==
    /\ Open /\ job[t] = Idle
    /\ ctxLock = NoOne
    /\ ctxLock' = t
    /\ Turn(t, [op |-> "batch"])
    /\ UNCHANGED <<pictureVars, bufferVars, items, inactive_ctx, drawLock, requested,
                   frozen, draw_run, pc, it, canvas, why>>

fb_batch_end(t) ==
    /\ job[t].op = "batch"
    /\ ctxLock' = NoOne
    /\ Turn(t, Idle)
    /\ UNCHANGED <<pictureVars, bufferVars, items, inactive_ctx, drawLock, requested,
                   frozen, draw_run, pc, it, canvas, why>>

\* LEVEL_RECT, LEVEL_PNG, LEVEL_TEXT
Level(i) == CASE img[i].kind = "text" -> 3 [] img[i].kind = "png" -> 2 [] OTHER -> 1

\* Before the first item of a higher level, or last.
Place(s, i, n) ==
    /\ \A m \in 1..(n - 1) : Level(s[m]) <= Level(i)
    /\ n <= Len(s) => Level(s[n]) > Level(i)

Unborn == {i \in Items : img[i].kind = "none"}

\* Where a call goes on: to a step at the item, or back to what the thread did before.
Step(op, i, as, entry, back) == [op |-> op, item |-> i, as |-> as, entry |-> entry, back |-> back]
To(t, op, as, entry) == Turn(t, Step(op, job[t].item, as, entry, job[t].back))
Back(t) == IF job[t].back = "link" THEN To(t, "link", Blank, "none")
           ELSE Turn(t, [op |-> job[t].back])

\* Once the texts' cache is out of order no more texts are made or changed, and no more
\* files are shown once theirs is.
TextsSound == ~apart /\ "strings" \notin raced

\* Making an item: its pixels first, without a lock, then its place in the list.
fb_text_finalize(t, i, k, c) ==
    /\ Ready(t) /\ i \in Unborn /\ TextsSound /\ Free(t, i)
    /\ show_plain(i, Blank)
    /\ Turn(t, Step("render", i, [kind |-> "text", text |-> k, colour |-> c, data |-> NoPixels],
                    "none", "link"))
    /\ KeepLists /\ KeepDraw /\ UNCHANGED raced

fb_add_png_img(t, i, p) ==
    /\ Ready(t) /\ i \in Unborn /\ "png" \notin raced /\ Free(t, i)
    /\ show_plain(i, Blank)
    /\ Turn(t, Step("get", i, [kind |-> "png", path |-> p], SeenFile(p), "link"))
    /\ Meet(t, "png") /\ KeepLists /\ KeepDraw

\* A file that is not in the cache may not load, and then nothing is added.
Got(t) ==
    /\ job[t].op = "get"
    /\ \/ fb_png_get(job[t].item, job[t].as, job[t].entry) /\ Back(t)
       \/ job[t].entry = "none" /\ show_plain(job[t].item, NoItem) /\ Turn(t, Again(t))
    /\ Meet(t, "png") /\ KeepLists /\ KeepDraw

\* Rectangles, lines and circles.
fb_add_rect(t, i) ==
    /\ Ready(t) /\ i \in Unborn /\ Free(t, i)
    /\ show_plain(i, [kind |-> "plain"])
    /\ Turn(t, Step("link", i, Blank, "none", "link"))
    /\ KeepLists /\ KeepDraw /\ UNCHANGED raced

fb_ctx_add_item(t) ==
    /\ job[t].op = "link"
    /\ fb_items_lock(t)
    /\ \E n \in 1..(Len(items) + 1) :
          /\ Place(items, job[t].item, n)
          /\ items' = InsertAt(items, n, job[t].item)
    /\ Turn(t, Again(t))
    /\ UNCHANGED <<pictureVars, inactive_ctx>> /\ KeepDraw

\* fb_text_render looks for an entry, and shares it or renders the text.
fb_text_render(t) ==
    LET i == job[t].item
        shown == job[t].as
    IN /\ job[t].op = "render"
       /\ \/ /\ get_cache_for_string(shown.text, shown.colour)
             /\ To(t, "use", [shown EXCEPT !.data = strings[shown.text].data], "none")
             /\ UNCHANGED <<img, strings, png_cache, alive, apart>>
          \/ /\ ~get_cache_for_string(shown.text, shown.colour)
             /\ RenderText(i, shown) /\ To(t, "store", Blank, "none")
       /\ Meet(t, "strings") /\ KeepLists /\ KeepDraw

\* The text has its pixels: a new one gets its place, a change of content or size gives up
\* the mutex it has taken.
Finished(t) ==
    /\ Back(t)
    /\ ctxLock' = IF job[t].back = "idle" THEN NoOne ELSE ctxLock
    /\ Meet(t, "strings") /\ KeepLists
    /\ UNCHANGED <<bufferVars, drawLock, requested, frozen, draw_run, pc, it, canvas, why>>

Used(t) == job[t].op = "use" /\ ShareText(job[t].item, job[t].as) /\ Finished(t)
Stored(t) == job[t].op = "store" /\ add_to_strings(job[t].item) /\ Finished(t)

\* fb_rm_rect, fb_rm_img, fb_rm_text, fb_rm_line: out of the list under the lock, then
\* destroyed.  A thread removes what is in the current list.
fb_ctx_rm_item(t, i) ==
    /\ Ready(t) /\ fb_items_lock(t) /\ Free(t, i)
    /\ \E n \in DOMAIN items : items[n] = i /\ items' = RemoveAt(items, n)
    /\ Turn(t, Step("destroy", i, Blank, "none", job[t].op))
    /\ UNCHANGED <<pictureVars, inactive_ctx>> /\ KeepDraw

fb_destroy_item(t) ==
    LET i == job[t].item
        Leave(entry) == To(t, "leave", Blank, entry) /\ UNCHANGED <<img, strings, png_cache, alive, apart>>
    IN /\ job[t].op = "destroy"
       /\ \/ /\ img[i].kind = "text"
             /\ Leave(SeenText(img[i].text, img[i].colour)) /\ Meet(t, "strings")
          \/ img[i].kind = "png" /\ Leave(SeenFile(img[i].path)) /\ Meet(t, "png")
          \/ img[i].kind = "plain" /\ show_plain(i, NoItem) /\ Back(t) /\ UNCHANGED raced
       /\ KeepLists /\ KeepDraw

Left(t) ==
    LET i == job[t].item
    IN /\ job[t].op = "leave"
       /\ \/ /\ img[i].kind = "text"
             /\ fb_text_destroy(i, job[t].entry) /\ Meet(t, "strings")
          \/ img[i].kind = "png" /\ fb_png_release(i, job[t].entry) /\ Meet(t, "png")
       /\ Back(t) /\ KeepLists /\ KeepDraw

-----------------------------------------------------------------------------
\* Changing a text that is listed.

Changes(t, i) ==
    /\ Ready(t) /\ i \in Range(items) /\ img[i].kind = "text" /\ TextsSound /\ Free(t, i)
    /\ \A u \in Threads : ~Clearing(u)
    /\ Meet(t, "strings")
    /\ UNCHANGED <<img, strings, png_cache, alive, apart>> /\ KeepLists

\* fb_text_set_content and fb_text_set_size, under the lock; the text may be the same.
ChangeText(t, i, k) ==
    /\ Changes(t, i)
    /\ fb_items_lock(t)
    /\ ctxLock' = t
    /\ Turn(t, Step("unlink", i, [img[i] EXCEPT !.text = k], SeenText(img[i].text, img[i].colour),
                    job[t].op))
    /\ UNCHANGED <<bufferVars, drawLock, requested, frozen, draw_run, pc, it, canvas, why>>

Unlinked(t) ==
    /\ job[t].op = "unlink"
    /\ unlink_from_caches(job[t].item, job[t].entry)
    /\ To(t, "render", job[t].as, "none")
    /\ Meet(t, "strings") /\ KeepLists /\ KeepDraw

\* fb_text_set_color: without the lock up to the pixels.
ChangeColour(t, i, c) ==
    /\ Changes(t, i) /\ c # img[i].colour
    /\ Turn(t, Step("recolour", i, [img[i] EXCEPT !.colour = c],
                    SeenText(img[i].text, img[i].colour), job[t].op))
    /\ KeepDraw

Recoloured(t) ==
    /\ job[t].op = "recolour"
    /\ fb_text_set_color(job[t].item, job[t].as.colour, job[t].entry)
    /\ To(t, "paint", Blank, job[t].entry)
    /\ Meet(t, "strings") /\ KeepLists /\ KeepDraw

Painted(t) ==
    /\ job[t].op = "paint"
    /\ fb_items_lock(t)
    /\ RepaintText(job[t].item, job[t].entry)
    /\ Back(t)
    /\ UNCHANGED raced /\ KeepLists /\ KeepDraw

-----------------------------------------------------------------------------
\* Contexts, by Main while no other thread is at an item.

Quiet == job[Main] = Idle /\ job[Input].op \in {"idle", "tested", "shot"}

fb_push_context ==
    /\ Open /\ Quiet /\ ctxLock = NoOne
    /\ Len(inactive_ctx) < MaxContexts
    /\ inactive_ctx' = Append(inactive_ctx, items)
    /\ items' = <<>>
    /\ UNCHANGED <<pictureVars, job>> /\ KeepDraw

\* fb_clear destroys the items one after the other under the mutex, then drops the
\* pictures nobody shows: files, then texts.
fb_clear ==
    /\ Open /\ job[Main] = Idle
    /\ ctxLock = NoOne
    /\ At(Input) \cap Range(items) = {}
    /\ ctxLock' = Main
    /\ Turn(Main, [op |-> "clear"])
    /\ UNCHANGED <<pictureVars, bufferVars, items, inactive_ctx, drawLock, requested,
                   frozen, draw_run, pc, it, canvas, why>>

ClearItem ==
    /\ job[Main].op = "clear"
    /\ items # <<>>
    /\ items' = Tail(items)
    /\ Turn(Main, Step("destroy", Head(items), Blank, "none", "clear"))
    /\ UNCHANGED <<pictureVars, inactive_ctx>> /\ KeepDraw

Cleared ==
    /\ job[Main].op = "clear"
    /\ items = <<>>
    /\ ctxLock' = NoOne
    /\ Turn(Main, [op |-> "files", left |-> {p \in Paths : png_cache[p] # Absent}])
    /\ Meet(Main, "png")
    /\ UNCHANGED <<img, strings, png_cache, alive, apart, bufferVars, items, inactive_ctx,
                   drawLock, requested, frozen, draw_run, pc, it, canvas, why>>

DropFile(p) ==
    /\ job[Main].op = "files" /\ p \in job[Main].left
    /\ fb_png_drop_unused(p)
    /\ Turn(Main, [op |-> "files", left |-> job[Main].left \ {p}])
    /\ Meet(Main, "png") /\ KeepLists /\ KeepDraw

FilesDropped ==
    /\ job[Main].op = "files" /\ job[Main].left = {}
    /\ Turn(Main, [op |-> "texts", left |-> {k \in Texts : strings[k] # Absent}])
    /\ UNCHANGED <<img, strings, png_cache, alive, apart>>
    /\ Meet(Main, "strings") /\ KeepLists /\ KeepDraw

DropText(k) ==
    /\ job[Main].op = "texts" /\ k \in job[Main].left
    /\ drop_strings_cache(k)
    /\ Turn(Main, [op |-> "texts", left |-> job[Main].left \ {k}])
    /\ Meet(Main, "strings") /\ KeepLists /\ KeepDraw

TextsDropped ==
    /\ job[Main].op = "texts" /\ job[Main].left = {}
    /\ Turn(Main, Idle)
    /\ UNCHANGED pictureVars /\ KeepLists /\ KeepDraw

\* fb_pop_context, after its fb_clear; it ends with a request.
fb_pop_context ==
    /\ Open /\ Quiet /\ ctxLock = NoOne
    /\ inactive_ctx # <<>> /\ items = <<>>
    /\ items' = Last(inactive_ctx)
    /\ inactive_ctx' = Front(inactive_ctx)
    /\ Turn(Main, IF frozen THEN Idle ELSE [op |-> "tested"])
    /\ UNCHANGED pictureVars /\ KeepDraw

-----------------------------------------------------------------------------
\* Asking for draws.

KeepItems == UNCHANGED <<pictureVars, bufferVars, items, inactive_ctx, ctxLock>>

\* The compare-and-exchange, by the one who sets it.
Request(by) ==
    /\ requested' = TRUE
    /\ why' = IF requested THEN why ELSE by

\* fb_request_draw looks at fb_frozen, then sets the request.
fb_request_draw(t) ==
    /\ Open /\ job[t] = Idle
    /\ ~frozen
    /\ Turn(t, [op |-> "tested"])
    /\ KeepItems /\ UNCHANGED <<drawLock, requested, frozen, draw_run, pc, it, canvas, why>>

Requested(t) ==
    /\ job[t].op = "tested"
    /\ Request(IF frozen THEN "late" ELSE "open")
    /\ Turn(t, Idle)
    /\ KeepItems /\ UNCHANGED <<drawLock, frozen, draw_run, pc, it, canvas>>

\* fb_force_draw sets the request under fb_draw_mutex, frozen or not, and waits.
fb_force_draw ==
    /\ Open /\ job[Main] = Idle
    /\ drawLock = NoOne
    /\ Request("force")
    /\ Turn(Main, [op |-> "waiting"])
    /\ KeepItems /\ UNCHANGED <<drawLock, frozen, draw_run, pc, it, canvas>>

\* fb_freeze: the count first, then fb_draw_mutex, to take a request back.
fb_freeze ==
    /\ Open /\ job[Main] = Idle
    /\ ~frozen
    /\ frozen' = TRUE
    /\ Turn(Main, [op |-> "freezing"])
    /\ KeepItems /\ UNCHANGED <<drawLock, requested, draw_run, pc, it, canvas, why>>

Frozen_KeepsRequest ==
    /\ job[Main].op = "freezing"
    /\ drawLock = NoOne
    /\ Turn(Main, Idle)
    /\ KeepItems /\ UNCHANGED <<drawLock, requested, frozen, draw_run, pc, it, canvas, why>>

Frozen ==
    /\ job[Main].op = "freezing"
    /\ drawLock = NoOne
    /\ requested' = FALSE
    /\ why' = NoOne
    /\ Turn(Main, Idle)
    /\ KeepItems /\ UNCHANGED <<drawLock, frozen, draw_run, pc, it, canvas>>

fb_unfreeze ==
    /\ Open /\ job[Main] = Idle
    /\ frozen
    /\ frozen' = FALSE
    /\ KeepItems /\ UNCHANGED <<drawLock, requested, draw_run, pc, it, canvas, why, job>>

\* fb_save_screenshot, by the input thread: the picture is written under fb_draw_mutex,
\* then the screen flashes white.
fb_save_screenshot ==
    /\ Open /\ job[Input] = Idle
    /\ drawLock = NoOne
    /\ drawLock' = Input
    /\ Turn(Input, [op |-> "shot"])
    /\ KeepItems /\ UNCHANGED <<requested, frozen, draw_run, pc, it, canvas, why>>

\* The file failed, or the flash and then a request.
ShotTaken ==
    /\ job[Input].op = "shot"
    /\ drawLock' = NoOne
    /\ \/ Turn(Input, Idle) /\ UNCHANGED bufferVars
       \/ Turn(Input, IF frozen THEN Idle ELSE [op |-> "tested"]) /\ fb_update
    /\ UNCHANGED <<pictureVars, items, inactive_ctx, ctxLock, requested, frozen, draw_run,
                   pc, it, canvas, why>>

-----------------------------------------------------------------------------
\* fb_draw_thread_work and fb_draw.

KeepThreads == UNCHANGED <<pictureVars, items, inactive_ctx, frozen, draw_run>>

\* The request is taken under fb_draw_mutex, which is kept until the frame is shown.
DrawTaken ==
    /\ pc = "check" /\ draw_run
    /\ drawLock = NoOne
    /\ requested
    /\ requested' = FALSE
    /\ drawLock' = Draw
    /\ pc' = "begin"
    /\ KeepThreads /\ UNCHANGED <<bufferVars, job, ctxLock, it, canvas, why>>

\* The background, then the batch.
DrawBegin_Unlocked ==
    /\ pc = "begin"
    /\ ctxLock = NoOne
    /\ it' = 1
    /\ pc' = "paint"
    /\ KeepThreads /\ UNCHANGED <<bufferVars, job, ctxLock, drawLock, requested, canvas, why>>

DrawBegin ==
    /\ pc = "begin"
    /\ ctxLock = NoOne
    /\ ctxLock' = Draw
    /\ it' = 1
    /\ pc' = "paint"
    /\ KeepThreads /\ UNCHANGED <<bufferVars, job, drawLock, requested, canvas, why>>

DrawItem ==
    /\ pc = "paint" /\ it <= Len(items)
    /\ canvas' = Append(canvas, items[it])
    /\ it' = it + 1
    /\ KeepThreads /\ UNCHANGED <<bufferVars, job, ctxLock, drawLock, requested, pc, why>>

DrawEnd ==
    /\ pc = "paint" /\ it > Len(items)
    /\ ctxLock' = NoOne
    /\ pc' = "update"
    /\ KeepThreads /\ UNCHANGED <<bufferVars, job, drawLock, requested, it, canvas, why>>

\* fb_update, and the broadcast that wakes who forced a draw.
DrawShown_Unheard ==
    /\ pc = "update"
    /\ fb_update
    /\ drawLock' = NoOne
    /\ pc' = "check"
    /\ canvas' = <<>>
    /\ it' = 1
    /\ KeepThreads /\ UNCHANGED <<ctxLock, requested, why, job>>

DrawShown ==
    /\ pc = "update"
    /\ fb_update
    /\ job' = [t \in Threads |-> IF job[t].op = "waiting" THEN Idle ELSE job[t]]
    /\ drawLock' = NoOne
    /\ pc' = "check"
    /\ canvas' = <<>>
    /\ it' = 1
    /\ KeepThreads /\ UNCHANGED <<ctxLock, requested, why>>

DrawThreadEnd ==
    /\ pc = "check" /\ ~draw_run
    /\ pc' = "ended"
    /\ KeepThreads /\ UNCHANGED <<bufferVars, job, ctxLock, drawLock, requested, it, canvas, why>>

Vsync ==
    /\ VerticalBlank
    /\ UNCHANGED <<pictureVars, items, inactive_ctx, drawVars, job>>

-----------------------------------------------------------------------------
DrawThread == DrawTaken \/ DrawBegin \/ DrawItem \/ DrawEnd \/ DrawShown \/ DrawThreadEnd

\* The further steps of a call at an item.
CallStep(t) ==
    \/ fb_text_render(t) \/ Used(t) \/ Stored(t) \/ Got(t) \/ fb_ctx_add_item(t)
    \/ Unlinked(t) \/ Recoloured(t) \/ Painted(t)
    \/ fb_destroy_item(t) \/ Left(t)

ItemCall(t) ==
    \/ fb_batch_start(t) \/ fb_batch_end(t)
    \/ \E i \in Items :
        \/ \E k \in Texts, c \in Colours : fb_text_finalize(t, i, k, c)
        \/ \E p \in Paths : fb_add_png_img(t, i, p)
        \/ fb_add_rect(t, i)
        \/ fb_ctx_rm_item(t, i)
        \/ \E k \in Texts : ChangeText(t, i, k)
        \/ \E c \in Colours : ChangeColour(t, i, c)
    \/ CallStep(t)
    \/ fb_request_draw(t) \/ Requested(t)

MainCall ==
    \/ fb_open \/ Opened \/ fb_close \/ Closed
    \/ fb_clear \/ ClearItem \/ Cleared
    \/ \E p \in Paths : DropFile(p)
    \/ FilesDropped
    \/ \E k \in Texts : DropText(k)
    \/ TextsDropped
    \/ fb_push_context \/ fb_pop_context
    \/ fb_force_draw \/ fb_freeze \/ Frozen \/ fb_unfreeze

Next ==
    \/ DrawThread \/ MainCall \/ Vsync
    \/ fb_save_screenshot \/ ShotTaken
    \/ \E t \in Threads : ItemCall(t)

\* The draw thread is never starved of its two mutexes, since it asks for them every 16 ms
\* or so and the others hold them for short calls; a call that has begun goes on, and a
\* batch ends.
Fairness ==
    /\ SF_vars(DrawTaken) /\ SF_vars(DrawBegin)
    /\ WF_vars(DrawItem \/ DrawEnd \/ DrawShown \/ DrawThreadEnd)
    /\ \A t \in Threads : /\ SF_vars(fb_batch_end(t))
                          /\ WF_vars(CallStep(t))
    /\ WF_vars(ShotTaken) /\ WF_vars(ClearItem \/ Cleared)

Spec == Init /\ [][Next]_vars /\ Fairness

-----------------------------------------------------------------------------
\* "wait for last draw to finish or prevent new draw": once fb_freeze is back, no draw is
\* under way and none begins until fb_freeze(0), except a forced one and one asked for
\* by a call that had looked at fb_frozen before.
FreezeHolds ==
    frozen /\ job[Main].op # "freezing" /\ pc \in {"begin", "paint", "update"}
        => why \in {"late", "force"}

\* fb_force_draw comes back.
ForceReturns == (job[Main].op = "waiting") ~> (job[Main].op # "waiting")

\* Every frame is the list as it was at one moment after the request was taken.
Promise == INSTANCE Screen WITH
    asked <- requested,
    phase <- IF pc = "begin" THEN "taken" ELSE IF pc \in {"paint", "update"} THEN "pictured" ELSE "none",
    picture <- IF pc = "paint" THEN items ELSE canvas

ShowsTheList == Promise!Spec
===============================================================================
