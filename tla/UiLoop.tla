-------------------------------- MODULE UiLoop --------------------------------
(***************************************************************************)
(* multirom_ui(): the main thread's loop and what the other threads do to  *)
(* it.  The input thread delivers touches with touch_mutex held and keys   *)
(* without it; the worker counts the auto-boot down; a thread watches for  *)
(* drives.  They answer through exit_ui_code and selected_rom and ask      *)
(* through loop_act, under exit_code_mutex, which the loop holds while it  *)
(* looks at them.                                                          *)
(***************************************************************************)
EXTENDS NotificationCard

CONSTANTS
    Asks,       \* no-kexec: the loop asks for the method
    AutoBoot,   \* the auto-boot ROM: "internal", "usb" or "none"
    Cards,      \* bound: the cards a widget shows
    Seconds     \* bound: of the countdown

ASSUME UiAssumption ==
    /\ Asks \in BOOLEAN
    /\ AutoBoot \in {"internal", "usb", "none"} /\ Seconds \in Nat \ {0}
    /\ Cards \subseteq {"rom", "note"}

VARIABLES
    check_keys,     \* AUTOBOOT_CHECK_KEYS
    exit_ui_code,   \* "none", "boot" or "reboot"
    selected_rom,   \* "none", "internal" or "usb"
    method,         \* nokexec()->selected_method has been chosen
    loop_act,       \* what the loop is asked to do
    ticking,        \* a countdown animation is under way
    seconds,        \* auto_boot_data.seconds
    keys,           \* keyaction_ctx.enable
    theme,          \* the widgets are there
    stopping,       \* anim_stop has been called
    input_run, run_usb_refresh,
    auto_boot_rom,
    left,           \* the answer with which the loop was left
    late            \* history: an answer came once the loop had been left, but before the end

uiVars == <<check_keys, exit_ui_code, selected_rom, method, loop_act, ticking, seconds, keys, theme, stopping,
            input_run, run_usb_refresh, auto_boot_rom, left, late>>

ROMs == {"internal", "usb"}
NoAnswer == [code |-> "none", rom |-> "none"]
CardAlone == UNCHANGED <<card, registered, listed, pending, pushed, overtaken>>

UiInit ==
    /\ CardInit
    /\ at = [t \in Threads |-> Place(IF t = "main" THEN "begin" ELSE "none")]
    /\ back = [t \in Threads |-> <<>>]
    /\ check_keys \in BOOLEAN
    /\ exit_ui_code = "none" /\ selected_rom = "none" /\ method = FALSE
    /\ loop_act = {}
    /\ ticking = FALSE /\ seconds = Seconds + 1
    /\ keys = FALSE /\ theme = FALSE /\ stopping = FALSE
    /\ input_run = FALSE /\ run_usb_refresh = FALSE
    /\ auto_boot_rom = AutoBoot
    /\ left = NoAnswer /\ late = FALSE

\* What most steps leave alone.
Place1(t, op) == Go(t, op) /\ UNCHANGED back
Answers == UNCHANGED <<exit_ui_code, selected_rom, method, auto_boot_rom, left, late>>
Threading == UNCHANGED <<ticking, seconds, stopping, input_run, run_usb_refresh>>
Screen == UNCHANGED <<keys, theme, loop_act>>

-----------------------------------------------------------------------------
\* The input thread's life.

\* start_input_thread_wait(1): pthread_cond_wait, until the thread has come by.
start_input_thread(wait, next) ==
    /\ Free("start")
    /\ ~input_run
    /\ input_run' = TRUE
    /\ at' = [at EXCEPT !["main"] = Place(IF wait THEN "started" ELSE next), !["input"] = Place("starting")]
    /\ UNCHANGED <<back, lock, destroy, ticking, seconds, stopping, run_usb_refresh>>
    /\ CardAlone /\ Answers /\ Screen

\* input_thread_work signals that it has started.
InputStarts ==
    /\ At("input", "starting")
    /\ Free("start")
    /\ Place1("input", "idle")
    /\ UNCHANGED <<lock, destroy>> /\ CardAlone /\ Answers /\ Threading /\ Screen

\* stop_input_thread keeps input_start_mutex while it joins.
stop_input_thread(next) ==
    /\ Take("main", "start")
    /\ input_run' = FALSE
    /\ Call("main", Place("join input"), Place(next))
    /\ UNCHANGED <<destroy, ticking, seconds, stopping, run_usb_refresh>>
    /\ CardAlone /\ Answers /\ Screen

\* The thread is not waited for.
Joined_AtOnce ==
    /\ At("main", "join input")
    /\ Drop("start")
    /\ Return("main")
    /\ UNCHANGED destroy /\ CardAlone /\ Answers /\ Threading /\ Screen

Joined ==
    /\ At("main", "join input")
    /\ At("input", "none")
    /\ Drop("start")
    /\ Return("main")
    /\ UNCHANGED destroy /\ CardAlone /\ Answers /\ Threading /\ Screen

InputEnds ==
    /\ At("input", "idle") /\ ~input_run
    /\ Place1("input", "none")
    /\ UNCHANGED <<lock, destroy>> /\ CardAlone /\ Answers /\ Threading /\ Screen

-----------------------------------------------------------------------------
\* Touches and keys.

\* touch_commit_events holds touch_mutex while the handlers run, the card's first.
TouchBegins ==
    /\ At("input", "idle") /\ input_run
    /\ listed > 0 \/ theme
    /\ Take("input", "touch")
    /\ Call("input", Place(IF listed > 0 THEN "card" ELSE "widgets"), Place("touched"))
    /\ UNCHANGED destroy /\ CardAlone /\ Answers /\ Threading /\ Screen

TouchEnds ==
    /\ At("input", "touched")
    /\ Drop("touch")
    /\ Place1("input", "idle")
    /\ UNCHANGED destroy /\ CardAlone /\ Answers /\ Threading /\ Screen

\* keyaction_handle_keyevent: a key takes a cancelable card away, else goes to a widget.
Key ==
    /\ At("input", "idle") /\ input_run /\ keys /\ theme
    /\ Call("input", Place(IF card.shown /\ card.cancelable THEN "hide" ELSE "widgets"), Place("idle"))
    /\ UNCHANGED <<lock, destroy>> /\ CardAlone /\ Answers /\ Threading /\ Screen

\* ncard_touch_handler.  Its mutex is free again before a callback runs.  A finger beside
\* the buttons hides a cancelable card, and passes through one that is not in the centre.
ncard_touch_handler ==
    /\ At("input", "card")
    /\ Free("card")
    /\ \/ card.btns /\ Place1("input", "button")
       \/ card.cancelable /\ Place1("input", "hide")
       \/ ~card.cancelable /\ card.centre /\ Return("input")
       \/ ~card.cancelable /\ ~card.centre /\ Place1("input", "widgets")
    /\ UNCHANGED <<lock, destroy>> /\ CardAlone /\ Answers /\ Threading /\ Screen

\* The buttons: Cancel or ok; "Boot now", which first does what hiding does; and the
\* answers to the question for the boot method.
CardButton ==
    /\ At("input", "button")
    /\ \/ Place1("input", "hide")
       \/ /\ card.kind = "auto"
          /\ at' = [at EXCEPT !["input"] = Place("hidden")]
          /\ back' = [back EXCEPT !["input"] = <<Place("boot now")>> \o @]
       \/ card.kind = "ask" /\ Place1("input", "use method")
    /\ UNCHANGED <<lock, destroy>> /\ CardAlone /\ Answers /\ Threading /\ Screen

\* An answer, under exit_code_mutex.  The loop looks at it again after giving that back.
Final == At("main", "done") \/ At("main", "workers_stop") \/ (At("main", "destroy") /\ left # NoAnswer)
Leaving == (At("main", "leave") \/ left # NoAnswer) /\ ~Final

Answer(t, code, rom) ==
    /\ Free("exit")
    /\ exit_ui_code' = code
    /\ selected_rom' = rom
    /\ late' = (late \/ Leaving)
    /\ Return(t)
    /\ UNCHANGED <<lock, destroy, method, auto_boot_rom, left>> /\ CardAlone /\ Threading /\ Screen

\* multirom_ui_auto_boot_now, multirom_ui_auto_boot_tick
BootsAuto(t) ==
    /\ At(t, "boot now")
    /\ Answer(t, "boot", auto_boot_rom)

\* nokexec_multirom_ui_use_kexec, nokexec_multirom_ui_use_nokexec
UseMethod ==
    /\ At("input", "use method")
    /\ Free("exit")
    /\ exit_ui_code' = "boot"
    /\ method' = TRUE
    /\ late' = (late \/ Leaving)
    /\ Return("input")
    /\ UNCHANGED <<lock, destroy, selected_rom, auto_boot_rom, left>>
    /\ CardAlone /\ Threading /\ Screen

\* The widgets: a ROM tapped twice, the buttons of the third tab.
Widget ==
    /\ At("input", "widgets")
    /\ \/ \E rom \in ROMs : Answer("input", "boot", rom)
       \/ Answer("input", "reboot", selected_rom)

WidgetAsks ==
    /\ At("input", "widgets")
    /\ Free("exit")
    /\ \E a \in {"pong", "colours"} : loop_act' = loop_act \cup {a}
    /\ Return("input")
    /\ UNCHANGED <<lock, destroy, keys, theme>> /\ CardAlone /\ Answers /\ Threading

\* A ROM tapped once, an unsupported one, the log that was saved: a card.  Taking the
\* selection away hides it.
WidgetShows ==
    /\ At("input", "widgets")
    /\ \/ \E kind \in Cards : at' = [at EXCEPT !["input"] = Show(kind)] /\ UNCHANGED back
       \/ Place1("input", "hide")
       \/ Return("input")
    /\ UNCHANGED <<lock, destroy>> /\ CardAlone /\ Answers /\ Threading /\ Screen

-----------------------------------------------------------------------------
\* multirom_ui_auto_boot_tick, by the main thread once and then by the worker, under the
\* workers' mutex.

\* Pong puts the animations aside.
WorkerBegins ==
    /\ At("worker", "none") /\ ticking /\ ~At("main", "pop")
    /\ Take("worker", "workers")
    /\ ticking' = FALSE
    /\ Call("worker", Place("tick"), Place("round"))
    /\ UNCHANGED <<destroy, seconds, stopping, input_run, run_usb_refresh>>
    /\ CardAlone /\ Answers /\ Screen

WorkerEnds ==
    /\ At("worker", "round")
    /\ Drop("workers")
    /\ Place1("worker", "none")
    /\ UNCHANGED destroy /\ CardAlone /\ Answers /\ Threading /\ Screen

\* A countdown that was hidden goes no further.
TickOver(t) ==
    /\ At(t, "tick")
    /\ Free("auto") /\ destroy
    /\ Return(t)
    /\ UNCHANGED <<lock, destroy>> /\ CardAlone /\ Answers /\ Threading /\ Screen

TickZero(t) ==
    /\ At(t, "tick")
    /\ Free("auto") /\ ~destroy /\ seconds = 1
    /\ seconds' = 0
    /\ destroy' = TRUE
    /\ Place1(t, "boot now")
    /\ UNCHANGED <<lock, ticking, stopping, input_run, run_usb_refresh>>
    /\ CardAlone /\ Answers /\ Screen

\* The next second, and the card, with auto_boot_data.mutex held.  Nothing is animated
\* any more once anim_stop has been called.
Tick(t) ==
    /\ At(t, "tick")
    /\ ~destroy /\ seconds > 1
    /\ Take(t, "auto")
    /\ seconds' = seconds - 1
    /\ ticking' = ~stopping
    /\ Call(t, Show("auto"), Place("ticked"))
    /\ UNCHANGED <<destroy, stopping, input_run, run_usb_refresh>>
    /\ CardAlone /\ Answers /\ Screen

Ticked(t) ==
    /\ At(t, "ticked")
    /\ Drop("auto")
    /\ Return(t)
    /\ UNCHANGED destroy /\ CardAlone /\ Answers /\ Threading /\ Screen

-----------------------------------------------------------------------------
\* multirom_usb_refresh_thread_work: the partitions, then the handler.

DrivesChange ==
    /\ At("refresh", "idle") /\ run_usb_refresh
    /\ Place1("refresh", "tell")
    /\ UNCHANGED <<lock, destroy>> /\ CardAlone /\ Answers /\ Threading /\ Screen

multirom_ui_refresh_usb_handler ==
    /\ At("refresh", "tell")
    /\ Free("exit")
    /\ loop_act' = loop_act \cup {"usb"}
    /\ Place1("refresh", "idle")
    /\ UNCHANGED <<lock, destroy, keys, theme>> /\ CardAlone /\ Answers /\ Threading

RefreshEnds ==
    /\ At("refresh", "idle") /\ ~run_usb_refresh
    /\ Place1("refresh", "none")
    /\ UNCHANGED <<lock, destroy>> /\ CardAlone /\ Answers /\ Threading /\ Screen

-----------------------------------------------------------------------------
\* The main thread.  Nothing but its place changes in a step that only waits.
MainOn(op) == Place1("main", op) /\ UNCHANGED destroy /\ CardAlone /\ Answers /\ Threading
MainSteps(op) == MainOn(op) /\ Screen

\* With AUTOBOOT_CHECK_KEYS the ROM is booted unless a key is held.  (What is returned
\* without the loop is kept in its variables.)
CheckKeysHeld ==
    \/ /\ At("main", "begin") /\ check_keys /\ AutoBoot # "none"
       /\ start_input_thread(TRUE, "check")
    \/ /\ At("main", "started")
       /\ At("input", "idle") /\ Free("start")
       /\ UNCHANGED lock /\ MainSteps("check")

KeysHeld ==
    /\ At("main", "check")
    /\ \/ stop_input_thread("open")
       \/ stop_input_thread("boot at once")

BootAtOnce ==
    /\ At("main", "boot at once")
    /\ Place1("main", "done")
    /\ left' = [code |-> "boot", rom |-> AutoBoot]
    /\ exit_ui_code' = "boot" /\ selected_rom' = AutoBoot
    /\ UNCHANGED <<lock, destroy, method, auto_boot_rom, late>> /\ CardAlone /\ Threading /\ Screen

\* Without a theme for this screen only the power key is left.
NoTheme ==
    \/ At("main", "open") /\ start_input_thread(FALSE, "wait for key")
    \/ /\ At("main", "wait for key") /\ At("input", "idle")
       /\ stop_input_thread("reboot")
    \/ /\ At("main", "reboot")
       /\ Place1("main", "done")
       /\ exit_ui_code' = "reboot" /\ left' = [code |-> "reboot", rom |-> "none"]
       /\ UNCHANGED <<lock, destroy, selected_rom, method, auto_boot_rom, late>>
       /\ CardAlone /\ Threading /\ Screen

\* multirom_ui_init_theme: the widgets, their touch handlers, the refresh thread.
multirom_ui_init_theme(next) ==
    /\ Free("touch")
    /\ theme' = TRUE
    /\ run_usb_refresh' = TRUE
    /\ at' = [at EXCEPT !["main"] = Place(next), !["refresh"] = Place("idle")]
    /\ UNCHANGED <<back, lock, destroy, keys, loop_act, ticking, seconds, stopping, input_run>>
    /\ CardAlone /\ Answers

\* multirom_init_fb() fails: a ROM is to be booted, and none is given.
Dark ==
    /\ At("main", "open")
    /\ Place1("main", "dark")
    /\ left' = [code |-> "boot", rom |-> "none"]
    /\ UNCHANGED <<lock, destroy, exit_ui_code, selected_rom, method, auto_boot_rom, late>>
    /\ CardAlone /\ Threading /\ Screen

Opens ==
    \/ /\ At("main", "begin") /\ ~(check_keys /\ AutoBoot # "none")
       /\ UNCHANGED lock /\ MainSteps("open")
    \/ At("main", "open") /\ multirom_ui_init_theme("start")
    \/ At("main", "start") /\ start_input_thread(FALSE, "enable")

\* keyaction_enable waits for the workers' mutex, to add or remove the repeat worker.
EnableKeys(on, next) ==
    /\ Free("workers")
    /\ keys' = on
    /\ UNCHANGED <<lock, theme, loop_act>> /\ MainOn(next)

Enabled == At("main", "enable") /\ EnableKeys(TRUE, "auto boot")

\* multirom_ui_auto_boot, or the theme is revealed.
multirom_ui_auto_boot ==
    /\ At("main", "auto boot")
    /\ IF AutoBoot # "none" /\ ~check_keys
       THEN Call("main", Place("tick"), Place("loop")) /\ destroy' = FALSE
       ELSE Place1("main", "loop") /\ UNCHANGED destroy
    /\ UNCHANGED lock /\ CardAlone /\ Answers /\ Threading /\ Screen

-----------------------------------------------------------------------------
\* The loop, with exit_code_mutex.

Loop ==
    /\ At("main", "loop")
    /\ Take("main", "exit")
    /\ MainSteps(IF exit_ui_code = "boot" /\ ~method THEN "method" ELSE "exit?")

\* The internal ROM has the normal method; otherwise the user may be asked.
ChooseMethod ==
    /\ At("main", "method")
    /\ IF Asks /\ selected_rom # "internal"
       THEN /\ exit_ui_code' = "none"
            /\ Call("main", Show("ask"), Place("exit?"))
            /\ UNCHANGED method
       ELSE /\ method' = TRUE
            /\ Place1("main", "exit?")
            /\ UNCHANGED exit_ui_code
    /\ UNCHANGED <<lock, destroy, selected_rom, auto_boot_rom, left, late>>
    /\ CardAlone /\ Threading /\ Screen

Leaves ==
    /\ At("main", "exit?") /\ exit_ui_code # "none"
    /\ Drop("exit")
    /\ MainSteps("leave")

\* multirom_find_usb_roms, unless the card moves: the ROMs of drives are looked for
\* again.  The auto-boot ROM becomes the internal one when it is not found.  Then, still
\* with exit_code_mutex, the list is filled anew, which hides the card if an item was
\* selected, and changes the workers if it begins or ceases to scroll.
UpdateUsb ==
    /\ At("main", "exit?") /\ exit_ui_code = "none"
    /\ \/ Place1("main", "pong?") /\ UNCHANGED auto_boot_rom
       \/ /\ "usb" \in loop_act
          /\ auto_boot_rom' \in {auto_boot_rom, "internal"}
          /\ \E next \in {"scroll", "filled"} :
                 Place1("main", next) \/ Call("main", Place("hide"), Place(next))
    /\ UNCHANGED <<lock, destroy, exit_ui_code, selected_rom, method, left, late>>
    /\ CardAlone /\ Threading /\ Screen

\* listview_enable_scroll waits for the workers' mutex.
ListFilled ==
    \/ /\ At("main", "scroll")
       /\ Free("workers")
       /\ UNCHANGED lock /\ MainSteps("filled")
    \/ /\ At("main", "filled")
       /\ loop_act' = loop_act \ {"usb"}
       /\ UNCHANGED <<lock, keys, theme>> /\ MainOn("pong?")

\* Pong, and all it puts aside, still with exit_code_mutex.
Pong ==
    \/ /\ At("main", "pong?")
       /\ IF "pong" \in loop_act
          THEN Place1("main", "disable") /\ loop_act' = loop_act \ {"pong"}
          ELSE Place1("main", "colours?") /\ UNCHANGED loop_act
       /\ UNCHANGED <<lock, destroy, keys, theme>> /\ CardAlone /\ Answers /\ Threading
    \/ At("main", "disable") /\ EnableKeys(FALSE, "push")
    \/ At("main", "pop done") /\ EnableKeys(TRUE, "colours?")

PongContext ==
    /\ Free("touch")
    /\ \/ /\ At("main", "push")
          /\ pushed' = listed /\ listed' = 0
          /\ theme' = FALSE
          /\ Place1("main", "pop")
       \/ /\ At("main", "pop")
          /\ listed' = pushed /\ pushed' = -1
          /\ theme' = TRUE
          /\ Place1("main", "pop done")
    /\ UNCHANGED <<lock, destroy, keys, loop_act, card, registered, pending, overtaken>>
    /\ Answers /\ Threading

\* The theme is taken down with exit_code_mutex.
LoopEnds_Locked ==
    /\ At("main", "colours?")
    /\ IF "colours" \in loop_act
       THEN UNCHANGED lock /\ MainSteps("destroy")
       ELSE Drop("exit") /\ MainSteps("loop")

\* Other colours: the mutex is given back before the theme is taken down.
LoopEnds ==
    /\ At("main", "colours?")
    /\ Drop("exit")
    /\ MainSteps(IF "colours" \in loop_act THEN "destroy" ELSE "loop")

\* multirom_ui_destroy_theme: the touch handlers, then the refresh thread, then its flag.
multirom_ui_destroy_theme ==
    \/ /\ At("main", "destroy")
       /\ Free("touch")
       /\ theme' = FALSE
       /\ run_usb_refresh' = FALSE
       /\ Place1("main", "join refresh")
       /\ UNCHANGED <<lock, destroy, keys, loop_act, ticking, seconds, stopping, input_run>>
       /\ CardAlone /\ Answers
    \/ /\ At("main", "join refresh")
       /\ At("refresh", "none")
       /\ UNCHANGED lock /\ MainSteps("usb flag")
    \/ /\ At("main", "usb flag")
       /\ Free("exit")
       /\ loop_act' = loop_act \ {"usb"}
       /\ UNCHANGED <<lock, keys, theme>>
       /\ MainOn(IF left = NoAnswer THEN "theme again" ELSE "workers_stop")

ThemeAgain ==
    \/ At("main", "theme again") /\ multirom_ui_init_theme("coloured")
    \/ /\ At("main", "coloured")
       /\ Free("exit")
       /\ loop_act' = loop_act \ {"colours"}
       /\ UNCHANGED <<lock, keys, theme>> /\ MainOn("loop")

-----------------------------------------------------------------------------
\* Leaving: no keys, the answer, no input, the last card, no animations, no theme.
Leave ==
    /\ At("main", "leave")
    /\ Free("workers")
    /\ keys' = FALSE
    /\ left' = [code |-> exit_ui_code, rom |-> IF exit_ui_code = "boot" THEN selected_rom ELSE "none"]
    /\ Place1("main", "stop input")
    /\ UNCHANGED <<lock, destroy, theme, loop_act, exit_ui_code, selected_rom, method, auto_boot_rom, late>>
    /\ CardAlone /\ Threading

StopInput == At("main", "stop input") /\ stop_input_thread("last card")

LastCard ==
    /\ At("main", "last card")
    /\ Call("main", Show("bye"), Place("anim_stop"))
    /\ UNCHANGED <<lock, destroy>> /\ CardAlone /\ Answers /\ Threading /\ Screen

\* anim_stop(1) lets the animations end, and waits for the worker.
AnimStop ==
    \/ /\ At("main", "anim_stop")
       /\ stopping' = TRUE
       /\ Place1("main", "anims end")
       /\ UNCHANGED <<lock, destroy, ticking, seconds, input_run, run_usb_refresh>>
       /\ CardAlone /\ Answers /\ Screen
    \/ /\ At("main", "anims end")
       /\ ~ticking /\ Free("workers")
       /\ UNCHANGED lock /\ MainSteps("destroy")

WorkersStop ==
    /\ At("main", "workers_stop")
    /\ Free("workers")
    /\ UNCHANGED lock /\ MainSteps("done")

MainNext ==
    \/ CheckKeysHeld \/ KeysHeld \/ BootAtOnce \/ NoTheme \/ Dark \/ Opens \/ Enabled \/ multirom_ui_auto_boot
    \/ Loop \/ ChooseMethod \/ Leaves \/ UpdateUsb \/ ListFilled \/ Pong \/ PongContext \/ LoopEnds
    \/ multirom_ui_destroy_theme \/ ThemeAgain
    \/ Leave \/ StopInput \/ Joined \/ LastCard \/ AnimStop \/ WorkersStop

InputNext ==
    \/ InputStarts \/ InputEnds \/ TouchBegins \/ TouchEnds \/ Key
    \/ ncard_touch_handler \/ CardButton \/ UseMethod \/ Widget \/ WidgetAsks \/ WidgetShows

OfThread(t) == CardCall(t) /\ UNCHANGED uiVars

UiNext ==
  /\ check_keys' = check_keys
  /\ \/ MainNext \/ InputNext
     \/ WorkerBegins \/ WorkerEnds
     \/ DrivesChange \/ multirom_ui_refresh_usb_handler \/ RefreshEnds
     \/ HandlerThread /\ UNCHANGED uiVars
     \/ \E t \in Threads :
            OfThread(t) \/ BootsAuto(t) \/ TickOver(t) \/ TickZero(t) \/ Tick(t) \/ Ticked(t)

UiSpec == UiInit /\ [][UiNext]_<<cardVars, uiVars>>

-----------------------------------------------------------------------------
\* The lock a thread waits for, by its place, and the thread it therefore waits for.
Wanted(t) ==
    CASE At(t, "show") \/ At(t, "show again") \/ At(t, "hide lock") \/ At(t, "card") -> {"card"}
      [] At(t, "hide handler") /\ t # "input" -> {"touch"}
      [] At(t, "push") \/ At(t, "pop") \/ At(t, "destroy") \/ At(t, "theme again") -> {"touch"}
      [] At(t, "hidden") \/ At(t, "tick") -> {"auto"}
      [] At(t, "boot now") \/ At(t, "use method") \/ At(t, "widgets") \/ At(t, "tell")
         \/ At(t, "loop") \/ At(t, "usb flag") \/ At(t, "coloured") -> {"exit"}
      [] At(t, "starting") \/ At(t, "stop input") \/ At(t, "check") -> {"start"}
      [] At(t, "enable") \/ At(t, "disable") \/ At(t, "pop done") \/ At(t, "scroll") \/ At(t, "leave")
         \/ At(t, "anims end") \/ At(t, "workers_stop") -> {"workers"}
      [] OTHER -> {}

WaitsFor(t) ==
    ({lock[l] : l \in Wanted(t)} \ {NoOne})
        \cup (IF At(t, "join input") THEN {"input"} ELSE {})
        \cup (IF At(t, "join refresh") THEN {"refresh"} ELSE {})

Circles == {S \in (SUBSET Threads) \ {{}} : \A t \in S : WaitsFor(t) \cap S # {}}

\* The circles the code can run into.  A touch, whose callback waits for exit_code_mutex
\* with touch_mutex, while the loop wants that to put the touch handlers aside for Pong or
\* back.  The worker's countdown answers while the loop waits for the worker to enable or
\* disable the keys, or, filling the list anew after a drive has changed, to let the list
\* begin or cease to scroll.  stop_input_thread joins a thread that has not started yet.  A
\* card with buttons that came as main or the worker was about to hide the one before is
\* hidden with ncard.mutex and more, for which a touch waits with touch_mutex.
KnownCircle(S) ==
    \/ S = {"main", "input"} /\ At("main", "push") /\ Wanted("input") = {"exit"}
    \/ S = {"main", "input"} /\ At("main", "pop") /\ Wanted("input") = {"exit"}
    \/ /\ S = {"main", "worker"} /\ At("worker", "boot now")
       /\ At("main", "disable") \/ At("main", "pop done") \/ At("main", "scroll")
    \/ S = {"main", "input"} /\ At("main", "join input") /\ At("input", "starting")
    \/ \E t \in S : At(t, "hide handler") /\ Wanted(t) = {"touch"}

\* No threads wait for one another in a circle, except in those.  Of the mutexes in lock and of
\* the two joins: keyaction_ctx.lock and fb_ctx.mutex are not among them, and what the key actions
\* and the drawing do under those is not in this module.
WaitsKnown == \A S \in Circles : \E K \in SUBSET S : K \in Circles /\ KnownCircle(K)

\* A ROM is returned with a method chosen, and what is returned is what the card says.  A
\* touch, or a countdown that had reached zero, may still answer between the loop and the
\* end of the input thread and of the animations (late); once stop_input_thread has joined
\* and anim_stop has waited, nobody does.  "boot" without a ROM is the answer exactly if the
\* frame buffer did not open.
AnswerMatches ==
    Final \/ At("main", "dark") =>
        /\ left.code # "none"
        /\ left.code = "boot" => (left.rom = "none" <=> At("main", "dark"))
        /\ Final /\ ~late => exit_ui_code = left.code
        /\ Final /\ ~late /\ left.code = "boot" => selected_rom = left.rom /\ (method \/ check_keys)
===============================================================================
