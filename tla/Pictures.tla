------------------------------- MODULE Pictures -------------------------------
(***************************************************************************)
(* The pixels of the items on the screen: lib/framebuffer_png.c's cache of *)
(* decoded files and lib/framebuffer_truetype.c's cache of rendered texts. *)
(* Both count their users; nothing locks them, so a call that looks an     *)
(* entry up and the same call when it uses what it found are steps of      *)
(* their own: the operators here take what was found.  A text is looked up *)
(* by its size and content, the entry's colour must match; its style,      *)
(* wrapping and justification are not part of the key.                     *)
(***************************************************************************)
EXTENDS Integers, FiniteSets

CONSTANTS
    Items,      \* the items the program has at once
    Texts,      \* size and content of a text
    Colours,
    Paths       \* PNG files, with their size

ASSUME PicturesAssumption == IsFiniteSet(Items)

VARIABLES
    img,        \* each item and the pixels it points to
    strings,    \* cache.strings
    png_cache,  \* the users of each decoded file, or Absent
    alive,      \* allocated pixels of texts
    apart,      \* history: a text got pixels other than its cache entry's
    raced       \* history: the caches two threads have been at together

pictureVars == <<img, strings, png_cache, alive, apart, raced>>

Pixels == Nat
NoPixels == 0
NoItem == [kind |-> "none"]
Blank == [kind |-> "blank"]     \* an item that has no picture yet
Absent == [entry |-> FALSE]
TextItem == [kind : {"text"}, text : Texts, colour : Colours, data : Pixels]
PngItem == [kind : {"png"}, path : Paths]
PlainItem == [kind : {"plain"}]
Shows == TextItem \cup PngItem \cup PlainItem \cup {NoItem, Blank}
StringsEntry == [data : Pixels, colour : Colours, refcnt : Int]
Seen == {"none", "alone", "shared"}     \* no entry, one with refcnt 1, another one

PicturesTypeOK ==
    /\ img \in [Items -> Shows]
    /\ strings \in [Texts -> StringsEntry \cup {Absent}]
    /\ png_cache \in [Paths -> [refcnt : Int] \cup {Absent}]
    /\ alive \subseteq Pixels /\ IsFiniteSet(alive)
    /\ apart \in BOOLEAN
    /\ raced \subseteq {"png", "strings"}

PicturesInit ==
    /\ img = [i \in Items |-> NoItem]
    /\ strings = [k \in Texts |-> Absent]
    /\ png_cache = [p \in Paths |-> Absent]
    /\ alive = {}
    /\ apart = FALSE
    /\ raced = {}

TextItems == {i \in Items : img[i].kind = "text"}
malloc(used) == CHOOSE d \in 1..(Cardinality(used) + 1) : d \notin used

\* Whether there is an entry whose pixels the text could share, and what a call sees of it.
get_cache_for_string(k, c) == strings[k] # Absent /\ strings[k].colour = c

SeenText(k, c) ==
    IF ~get_cache_for_string(k, c) THEN "none"
    ELSE IF strings[k].refcnt = 1 THEN "alone" ELSE "shared"

SeenFile(p) == IF png_cache[p] = Absent THEN "none" ELSE "shared"

\* An entry that has been dropped since it was found is counted in freed memory.
Counted(k, n) == IF strings[k] = Absent THEN strings ELSE [strings EXCEPT ![k].refcnt = @ + n]

\* A text shown from other pixels than its entry's: from here on the item may match an
\* entry that does not count it.
Apart(newImg, newStrings) ==
    apart \/ \E i \in Items :
        /\ newImg[i].kind = "text"
        /\ newStrings[newImg[i].text] # Absent
        /\ newImg[i].data # newStrings[newImg[i].text].data

-----------------------------------------------------------------------------
\* Texts.  fb_text_render has found an entry, "shown" being the text with its pixels, ...
ShareText(i, shown) ==
    /\ img' = [img EXCEPT ![i] = shown]
    /\ strings' = Counted(shown.text, 1)
    /\ apart' = Apart(img', strings')
    /\ UNCHANGED <<png_cache, alive>>

\* ... or none: the text is rendered into pixels of its own, which are stored unless it
\* has an entry, of whatever colour.
RenderText(i, shown) ==
    /\ img' = [img EXCEPT ![i] = [shown EXCEPT !.data = malloc(alive)]]
    /\ alive' = alive \cup {malloc(alive)}
    /\ apart' = Apart(img', strings)
    /\ UNCHANGED <<strings, png_cache>>

add_to_strings(i) ==
    /\ strings' = [strings EXCEPT ![img[i].text] =
                     IF @ # Absent THEN @
                     ELSE [data |-> img[i].data, colour |-> img[i].colour, refcnt |-> 1]]
    /\ apart' = Apart(img, strings')
    /\ UNCHANGED <<img, png_cache, alive>>

\* fb_text_destroy, and unlink_from_caches with the free that follows: the item leaves
\* its text, and is "left" afterwards.
LeaveText(i, seen, left) ==
    /\ img' = [img EXCEPT ![i] = left]
    /\ strings' = IF seen # "none" THEN Counted(img[i].text, -1) ELSE strings
    /\ alive' = IF seen # "none" THEN alive ELSE alive \ {img[i].data}
    /\ UNCHANGED <<png_cache, apart>>

fb_text_destroy(i, seen) == LeaveText(i, seen, NoItem)
unlink_from_caches(i, seen) == LeaveText(i, seen, Blank)

\* fb_text_set_color up to its lock: the only user takes the entry along to the new
\* colour, another one leaves it and will copy its pixels.
fb_text_set_color(i, c, seen) ==
    LET k == img[i].text
    IN /\ img' = [img EXCEPT ![i].colour = c]
       /\ strings' = CASE seen = "none" \/ strings[k] = Absent -> strings
                       [] seen = "alone" /\ strings[k] # Absent -> [strings EXCEPT ![k].colour = c]
                       [] seen = "shared" /\ strings[k] # Absent -> Counted(k, -1)
       /\ apart' = (apart \/ seen = "shared")
       /\ UNCHANGED <<png_cache, alive>>

\* The rest of it, under the lock.
RepaintText(i, seen) ==
    /\ img' = [img EXCEPT ![i].data = IF seen = "shared" THEN malloc(alive) ELSE @]
    /\ alive' = IF seen = "shared" THEN alive \cup {malloc(alive)} ELSE alive
    /\ UNCHANGED <<strings, png_cache, apart>>

\* One entry of fb_text_drop_cache_unused's walk.
Unused_Last(k) == strings[k] # Absent /\ strings[k].refcnt <= 1
Unused(k) == strings[k] # Absent /\ strings[k].refcnt = 0

drop_strings_cache(k) ==
    /\ strings' = IF Unused(k) THEN [strings EXCEPT ![k] = Absent] ELSE strings
    /\ alive' = IF Unused(k) THEN alive \ {strings[k].data} ELSE alive
    /\ UNCHANGED <<img, png_cache, apart>>

-----------------------------------------------------------------------------
\* Files.  One that is not in the cache is loaded and gets an entry (a second one, which
\* lookups do not reach, when another thread has loaded it meanwhile).
fb_png_get(i, shown, seen) ==
    /\ img' = [img EXCEPT ![i] = shown]
    /\ png_cache' = [png_cache EXCEPT ![shown.path] =
                       IF seen = "none" /\ @ = Absent THEN [refcnt |-> 1]
                       ELSE IF seen # "none" /\ @ # Absent THEN [refcnt |-> @.refcnt + 1]
                       ELSE @]
    /\ UNCHANGED <<strings, alive, apart>>

fb_png_release(i, seen) ==
    /\ img' = [img EXCEPT ![i] = NoItem]
    /\ png_cache' = [png_cache EXCEPT ![img[i].path] =
                       IF seen = "none" \/ @ = Absent THEN @ ELSE [refcnt |-> @.refcnt - 1]]
    /\ UNCHANGED <<strings, alive, apart>>

\* One entry of its walk.
fb_png_drop_unused(p) ==
    /\ png_cache' = [png_cache EXCEPT ![p] =
                       IF @ # Absent /\ @.refcnt <= 0 THEN Absent ELSE @]
    /\ UNCHANGED <<img, strings, alive, apart>>

\* An item that has no picture, yet or at all: one a call is about to make, one it could
\* not load, and rectangles, lines and circles, which own what they show.
show_plain(i, shown) ==
    /\ img' = [img EXCEPT ![i] = shown]
    /\ UNCHANGED <<strings, png_cache, alive, apart>>

-----------------------------------------------------------------------------
\* No item points to pixels that have been freed, by the drop of an entry somebody still
\* shows, by an item that frees what it shared, or by a file let go too early; and pixels
\* stay allocated only while an item shows them or an entry keeps them for later.  A cache
\* keeps this as long as two threads have not been at it together (raced), the texts'
\* cache also only as long as no text has been rendered or recoloured apart from its
\* entry (apart).
PixelsAlive ==
    /\ "png" \notin raced =>
         \A i \in Items : img[i].kind = "png" => png_cache[img[i].path] # Absent
    /\ ~apart /\ "strings" \notin raced =>
         /\ \A i \in TextItems : img[i].data \in alive
         /\ alive \subseteq {img[i].data : i \in TextItems}
               \cup {strings[k].data : k \in {u \in Texts : strings[u] # Absent}}
===============================================================================
