# MultiROM in TLA+

MultiROM lets one Android device hold several systems. It sits between the kernel and
Android: the ramdisk's `/init` is MultiROM's *trampoline*, which mounts `/data`, runs the
`multirom` program (status file, list of ROMs, touch interface) and then executes the real
init, `/main_init`. This directory holds TLA+ modules of that program, TLC configurations
that check them on small instances, and proofs for every instance.

Contents: [inventory](#inventory) ·
[modules](#modules) · [runs](#runs) · [bounds](#bounds) · [fairness](#fairness) ·
[proofs](#proofs) · [disagreements with the comments](#where-the-code-and-its-comments-disagree) ·
[other defects](#defects-met-while-modelling-that-no-run-states) ·
[not modelled](#not-modelled) · [plan](#plan)

## Inventory

| part | state it keeps | operations | interacts with | what is hard | what makes it correct |
|---|---|---|---|---|---|
| no-kexec workaround (`no_kexec.c`) | the boot partition, `primary_boot.img`, a temp file, the tag byte | flash a secondary, restore the primary, is this a second boot? | `multirom()` calls it; the trampoline reads the same tag | a failure, kill or power cut between any two file operations | the primary image is never lost; results mean what the caller does with them |
| boot sequence (`multirom.c`, `main.c`) | `multirom.ini` (current ROM, auto-boot type), `struct multirom_status`, the exit code | load status, decide, flash/restore, prepare, save, sync | trampoline runs it, UI picks the ROM, `main()` reboots or kexecs | two boots for one request; two records (slot, ini) of one decision | the running system and kernel belong together; the request is served; no reboot loop |
| trampoline (`trampoline.c`, `mrom_data.c`) | mounts, paths | mount `/data`, run multirom, restart it after a crash, go on | bootloader before it, `/main_init` after it | early exits in a second boot | never goes on with a secondary in the slot |
| encryption (`encryption.c`, `trampoline_encmnt/`) | child process, pipe | decrypt, password screen, remove | trampoline | the child's answer, its death | one of three results, acted on |
| devices (`devices.c`) | sysfs walk, uevent socket, firmware child | init, handle add/remove | thread in trampoline | events during the walk | every block device has its node |
| adb (`adb.c`) | thread, child pid | start, respawn, quit | trampoline | kill between wait and fork | quit ends |
| ROM list, partitions, USB (`multirom.c`) | lists of ROMs and partitions, refresh thread | scan, mount, rescan when `blkid` changes | UI loop, status file | lists rebuilt while others point into them | nothing refers to a freed ROM |
| UI (`multirom_ui*.c`) | `exit_ui_code`, `loop_act`, `selected_rom`, auto-boot countdown | buttons, tabs, auto-boot tick, exit | workers, input, card, framebuffer | three threads set the exit code | the ROM booted is the one chosen last before the loop ended |
| workers (`lib/workers.c`) | list of callbacks, `run` | add, remove, start, stop | animations, list views, USB refresh | callbacks run under the mutex | stop ends; each callback runs only while registered |
| animations (`lib/animation.c`) | list, `in_update_loop`, contexts | add, cancel, update, push/pop | worker thread, every UI thread | mutex released around callbacks | no step on a freed item |
| input (`lib/input*.c`, `keyboard.c`) | touch slots, handlers, key queue, key actions | start/stop thread, register, dispatch | card, list view, UI | handlers registered from handlers | no lost release; threads stop |
| notification card | the card, its mutex | show, hide, touch | input, animations | `ncard.mutex` against `touch_mutex` | no deadlock |
| framebuffer (`lib/framebuffer.c`) | items, draw request, freeze count, contexts | request, force, freeze, push/pop | draw thread, everybody | flag and counters outside the locks | a request is drawn; force returns |
| widgets (`listview.c`, `tabview.c`, `button.c`) | positions, selection | touch, scroll, select | input, animation | many small states | selection names an item on screen |
| containers, fstab, util (`lib/`) | NULL-terminated arrays | add, remove, find, parse | everybody | index arithmetic | reference sequence operations |
| kexec, injection (`kexec.c`, `inject.c`) | argument list, image in memory | build, inject | `multirom_prepare_for_boot`, no-kexec | capacity, partial write | well-formed command; image replaced only when whole |
| quirks, rc additions | a ROM's init files | edit | prepare_for_boot | repeated edits | idempotent |

The interplay of a no-kexec boot, which carries the program's core promise:

    bootloader -> kernel in slot -> trampoline -> multirom()
       first boot : UI or --boot-rom picks r; back up primary, flash r's boot.img,
                    tag it, multirom.ini := r, sync, reboot
       second boot: tag seen; restore the primary into the slot, remove the backup,
                    prepare r's mounts, multirom.ini := r, sync, /main_init

## Modules

**`NoKexec`**: `no_kexec.c`. The variables are the files (`slot`, `backup`, `temp`, each
ROM's own `boot.img`), what storage held at the last `sync()` (`disk`, `dirty`), and the
call in progress (`pc`, `req`, `res`). An image is a record: whose kernel, the tag, whole or
torn. Every file operation is one action with its failures; `pc` names the function about to
run. A failing `libbootimg` call is limited to what its caller can see. `Killed` and
`PowerLoss` may come between any two operations; a power loss leaves of every unsynced file
the old, the new or a torn content. `primary` and `exposed` are histories: what the user
installed last, and the last of five mishaps that happened since (they are the ways in which the
code, knowingly or not, stakes the only copy).

| mishap | code | what it costs |
|---|---|---|
| `cut` | power or process gone between writing the slot and `sync()` | a torn or untagged slot |
| `untagged` | `no_kexec.c:376` fails after `:372` | the secondary passes for a new primary |
| `short` | `util.c:285` does not look at `fwrite` | a torn image passes for a copy |
| `misread` | `no_kexec.c:308`, `:389` with an unreadable header | a new primary not backed up, or an old one restored |
| `stale` | `no_kexec.c:245` unchecked | an earlier temp file is flashed |

**`PrimaryCustody`**: what `no_kexec.c` promises: of slot and backup, one gains the primary
only by a copy from the other and gives it up only while the other holds it.

**`BootChain`** extends `NoKexec` with the boot around it: `stage` (where the boot is),
`kernel`, `system`, `ini`/`pending` (the status file, durable and not), `s` (multirom()'s
locals and `selected_method`), `usb`. It reuses NoKexec's actions for the calls, so that a
flash may be interrupted at any operation also here. `LoadStatus`, `Commit`, `Prepare`,
`Save`, `SyncAll`, `Leave` are the stretches of `multirom()` between two steps that others
can see or that can fail. `strained` records the mishaps of the chain since the slot last held
the primary: a header that could not be read (`blind`; the password screen then offers to boot
Internal, which a second boot it recognises as one does not), a `run_core` that left before
`/data` was tried (`gaveUp`), a crash of multirom's (`died`), a `multirom.ini` not written
(`saveLost`). `chosen` records what the user asked for until it is served or voided. The
method the UI leaves selected is kept (`Methods`) although nothing reads it afterwards, as in the
code.

**`Workers`**: `lib/workers.c`. `worker` is where the thread is in its loop, `at` its place in
the list, `call` the callback that runs. The worker holds the mutex from `Lock` to `Unlock`, so
the critical sections of the others (`Added`, `Removed`) are single steps that wait for it;
what they do before they take it, the look at `run`, is a step of its own (`Ask`). `gone` and
`called` are histories. A job may drop out of the list by returning 1 (`OneShot`, as the
charset switch of `keyboard.c` does).

**`Animation`** extends `Workers` with `lib/animation.c`. `upd` and `it` are `anim_update`'s place
and iterator; `Windows` are the places where it has given up `anim_list.mutex` around a
callback. A call of another thread that has two critical sections (`item_anim_add_after`, then
the append; `anim_cancel_for`, then what its caller does) is two steps, and `does` holds the
call in between. `phase` is where `multirom_ui()` is in starting and stopping all this, and
`items` says what exists. The animations are of the kinds the program has: tab moves
(cancelled by id), selections of the list view and cards (cancelled with their item), a hidden
card's (destroys its item), the progress dots' (renews itself). Two things the code does not
exclude take an animation away under a running callback: the cancelling of the animation
whose window is open, and pong's change of context during a window or a call. `mishap` names
them. What `anim_update` does with a freed node is undefined, so that nothing is explored after
one of them; the same interleavings with any other animation are explored.

**`UsbRoms`** and **`Preparation`**: from `multirom.ini` to the root file system the ROM starts
on. `UsbRoms` has the list of ROMs as structures that are born and freed: a ROM points to its
partition by the partition's birth, and `current_rom`, `auto_boot_rom`, `selected_rom` point into
the list. The watcher replaces partitions, the UI lists ROMs anew, and `Alive` says whether what
is pointed to is still there. `multirom.ini` may fail to open for reading, and to be written, which nobody
looks at: `ini_fails` records it. `Preparation` is `multirom()` after the choice: one action per call
of `multirom_load_kexec` and `multirom_prepare_for_boot`, each of which may fail (`Faults`); `root`
is what has been done to the root (whose each folder is, the lines of the fstabs that are
disabled, what was added to init's files), `job` what multirom holds meanwhile. The failures the
code passes over are kept in `slips`. Which folders a ROM may do without is decided as in the code, by
`strstr` over the whole path: `NamedVendor` has the ROMs whose name alone passes that test. An image
that cannot be mounted is tried again for ever (`hung`). The way through
`multirom.ini` is there too: what one boot saved, the next one looks for in a list made anew. Where the code goes on with a
structure that has been freed, the stage is `undefined` and nothing is explored after it; `OnlyDrivesDangle`
says whose structures these can be.

**`Devices`**, **`Decryption`**, **`Adbd`**, **`Trampoline`**: the trampoline from `devices_init` to the
`execve` of the ROM's init. `Devices` is `devices.c` against the kernel: `plugged` is sysfs, `socket`
the uevents not yet read, `nodes` and `links` are /dev; whoever reads (`reading`: main during the
walk, then the thread) answers one event at a time, and devices come and go meanwhile.
`Decryption` is `encryption.c` in the trampoline, `encmnt.cpp` in the child and `pw_ui.cpp` in the child's input
thread: cryptfs, external, makes the mapping, and the node trampoline_encmnt looks for is made
by `Devices`' thread; it may die with the mapping made, and the `remove` command may fail. `Adbd` is the fork
loop against `adb_quit`, the set-up and its undoing. `Trampoline` puts main around them; `BootChain` says
what multirom did in between. A process of an adb shell may have a mount in use when it is to be unmounted
(`users`): it stays (`kept`), as nobody looks at what `umount` returned, and the mapping under it.

**`Touch`**, **`KeyActions`**, **`NotificationCard`**, **`UiLoop`**: the touch interface. `Touch` takes the
two kinds of driver from the contacts of a frame to what the handlers are told. A frame is delivered slot by
slot (`next`), and the handlers may be taken away in between. With type A, a frame with more contacts and
lifted ones together than there are slots leaves an id in the list that the next frame fills (`lost`), and
the assertion in `idlist_add` may then fail; nothing comes after that. `KeyActions` is
the walk of the volume keys through the widgets, where a callback runs without the lock: `Begin`,
`Called` and `CallReturns` are its three steps, and `crossed` says that two callbacks that move the highlight
overlapped, or that the widget of one was removed (`Moves`); a callback that only confirms crosses nothing. `NotificationCard` is `ncard_show`, `ncard_hide`, its touch
handler, and the threads that register and unregister it; `at[t]` is the place of a thread,
`back[t]` where it returns to, `lock` who holds each of six mutexes. `UiLoop` extends it with
`multirom_ui()`, the tabs' answers, the worker's countdown, the USB thread, Pong's and the
theme's change of contexts, and the end of it all. A refresh after a drive has changed fills the list of ROMs anew
with `exit_code_mutex` held (`UpdateUsb`, `ListFilled`): it hides a card of the list's, and waits for the workers'
mutex if the list begins or ceases to scroll. A frame buffer that does not open (`Dark`) makes the answer to
boot a ROM with none given, which the caller takes for no choice (`multirom.c:338`) and reboots.

**`Screen`** is what the frame buffer promises: a draw that was asked for paints the whole list
of items as it stood at one moment. **`Framebuffer`** is `framebuffer.c`: `items` and `inactive_ctx`, the
two mutexes (`ctxLock`, `drawLock`), the request, the freeze, the draw thread (`pc`, `it`, `canvas`) and
the call each thread is in (`job`). It extends **`Pictures`** (the caches of decoded files and of
rendered texts, with their counts: `alive` says which pixels are allocated), **`ScreenBuffers`** (which
back end `fb_open` ends up with, and which of its buffers is shown and which is copied into)
and **`FrameGeometry`** (clamping and rotation as functions). Nothing locks the caches: a call that looks
an entry up, and the same call when it uses what it has found, drops the item's old pixels, renders new ones or
frees what is unused, entry by entry, are steps of their own; `job[t]` holds what was found. `raced` says which cache two
threads have been inside at one time, `apart` that a text shows pixels other than its entry's. The
kernel's `yoffset`, what the display really shows, outlasts a close, while the flag of a back end starts from 0; `astray` says that
these two may differ, after such an opening of the generic back end or after an ioctl of fbdev's that failed and was
passed over. fb_draw_rect, which draws rectangles and pictures, clamps to the parent and the screen; a line has a clamping of
its own (`LineEnd`).

**`BootChain_proofs`** (of `NoKexec` and `BootChain`), **`Animation_proofs`** (of `Workers` and `Animation`),
**`Input_proofs`** (of `KeyActions` and `Touch`), **`Preparation_proofs`** (of `UsbRoms` and `Preparation`),
**`Trampoline_proofs`**, **`Framebuffer_proofs`**, **`UiLoop_proofs`**: the proofs. **`ListLemmas`**: what the
library's folds, searches, removals and flattenings do to a list, for the proofs. **`MCNoKexec`** adds the symmetry of the
images for TLC; **`MCAnimation`**, **`MCInterface`**, **`MCTrampoline`**,
**`MCPreparation`** and **`MCFramebuffer`** give the constants and say which part of the system a
behaviour exercises in full (`focus`, see [bounds](#bounds)).

A definition named `X_Y` next to `X` is `X` with a plausible bug `Y`. It is used nowhere; each
property is listed in `PROJECT.json` with the bug that TLC finds it violated by.

## Runs

| run | module, cfg | shows |
|---|---|---|
| `nokexec` | `MCNoKexec`, `NoKexec.cfg` | 226k states. `PrimaryRecoverable`, `ResultTruthful`, `FailedCallHarmless`, and `CustodySpec`: the file operations implement the promise |
| `bootstorage` | `BootChain`, `BootStorage.cfg` | 1.2M states. Storage faults in the chain: `KernelMatchesSystem`, `SlotRestoredWhileRunning`, `PendingMatchesIni`; `NoKexecSpec`: the chain touches the slot only by whole calls |
| `bootkinds` | `BootChain`, `BootKinds.cfg` | 53k states. All kinds of ROM, kexec and the choice option: `RequestServed`, `ForceIsOneShot`, and the liveness properties `BootSettles`, `RequestAnswered` |
| `animation` | `MCAnimation`, `Animation.cfg` | 199k states. The workers by themselves: `RemovedIsQuiet` (a removed job is neither registered nor running), `RoundServesAll` (jobs that drop out do not make a round skip others), `StopReturns`. The animations on them: `NoStepOnFreedItem`, `StopLeavesNothing`, `AfterWaits` (an animation put after others starts after them, however uneven the rounds), `AnimStopReturns` (although the progress dots renew themselves) |
| `preparation` | `MCPreparation`, `Preparation.cfg` | 600k states. `StartsWhole`: what is handed to the ROM's init is the ROM that was chosen, and whole, through its folders, fstabs, image files, drive and kernel, and after a second boot; or the boot failed and said so, or what failed is a step the code passes over. `OnlyDrivesDangle`: a structure used after it was freed is a drive's |
| `trampoline` | `MCTrampoline`, `Trampoline.cfg` | 1.5M states. `DevFollows` (/dev follows sysfs), `HandsOverClean` (no thread of the trampoline's is left to the ROM's init, and of its mounts, mapping and folders only what a process had in use or a named failure left), `NobodyLeftToKill` (adbd and `adb_quit`) |
| `ui` | `MCInterface`, `Interface.cfg` | 1.1M states. `AnswerMatches` (the ROM booted is the one last chosen), `WaitsKnown` (no deadlock but the named circles), `HandlerAsFlagged`, `HighlightFollows`, `TouchesAgree`, `PlaceForEach` (type A's lists have a place for every contact) |
| `draw` | `MCFramebuffer`, `Drawing.cfg` | 360k states. `ShowsTheList`: `Framebuffer` implements `Screen`; `FreezeHolds`, `ForceReturns`, `CopyOffScreen` |
| `caches` | `MCFramebuffer`, `Caches.cfg` | 204k states. `PixelsAlive`: no item shows pixels that were freed, and none are allocated for nobody, with two threads at the caches step by step |
| `untagged` | `NoKexec`, `Untagged.cfg` | violation, see [below](#where-the-code-and-its-comments-disagree) |
| `bootgivesup` | `BootChain`, `BootGivesUp.cfg` | violation, see below |
| `actionlost` | `MCInterface`, `ActionLost.cfg` | violation, see below |

## Bounds

* `Primaries`: two in `nokexec`, since a stale backup of an *earlier* primary is the
  interesting case; one in the boot runs, where the primary's identity is not used to decide
  anything. `Roms`: two, since a mix-up needs two.
* `MaxFaults` = 3 in `nokexec`: a mishap and two faults while recovering from it. `MaxFaults` +
  `MaxBootFaults` = 2 in the boot runs.
* The properties are conditional on `exposed = "none"` (and `strained = "none"`): the states after a
  mishap are explored, the promise is void in them until the slot holds the primary again or
  another one is installed. Faults that are not mishaps (a failing open, a failing load, a
  failed removal) do not void anything, and each mishap's site is reached with a small bound.
* `NoKexec.cfg` uses the symmetry of `Primaries` and of `Roms`, and checks no liveness. The
  boot runs have no symmetry: each ROM is there for its kind or its place, and `bootkinds`
  checks liveness.
* `animation`, the focus `workers`: two threads, since the race is between the worker, one that removes and one that
  adds or stops; three jobs (`MaxJobs`), since dropping one of the list in the middle needs a
  neighbour on either side.
* `animation`, the focus of that name: three `Nodes`, which is one animation, one put after it and one more; `Room`
  keeps the threads within them. One card and one row of dots. `Duration` 2 with `Diffs` {1, 3}
  lets a round be shorter or longer than what an animation has left, or than an offset. A
  thread that starts a selection while the last one still waits for its turn is left out, as in
  `listview.c:618`.
* `HasKexec` and `Option` are constants: the kernel's answer is taken to be the same for
  every kernel. `bootstorage` has no kexec; `bootkinds` has it, with the choice option.

* The runs of many modules have a `focus`: chosen at the start, it says what a behaviour
  exercises in full, where the parts share little. `ui`: touches, key actions, the loop with the
  answers, and the loop with the wishes of widgets and drives (`touch`, `keys`, `loop`, `wishes`);
  the first two share no variable with the rest. Left out is an answer that meets a wish in the
  same round of the loop. `trampoline`: `devices`, with a bus, a storage controller, two
  partitions of one label, a card that may take a partition's node and a serial interface, three
  swaps and a socket that holds three events, so that events are lost; and `boot`, with nothing
  swapped. `preparation`: `list`, two drives that come and go while the UI is up and no failing
  step; `root`, one drive, all kinds of ROM, fstabs and image files, and two failing calls.
  `draw`: `lists` (two items, a context put aside, freezes, forced draws, screenshots, on the
  generic back end) and `buffers` (every back end, no items); `caches` is the third focus of the same module
  (`pictures`: two threads at the caches, nothing drawn), in a run of its own (`Parts`), with the symmetry of items, texts and
  colours, as it checks no liveness.
* `ui`: two fingers and three ids, because a finger must be able to leave while another comes
  in the same frame; widgets with two, one and one position, because a list has to be
  entered, walked and left on either side; one second of countdown. After callbacks have
  crossed two widgets are followed further. Two slots are enough for a frame with more held and lifted contacts
  together than slots.
* `draw`, `caches`: two items, since order, levels and a shared picture need two; two texts in two
  colours, since the cache is looked up by text and compared by colour. Clamping, lines and rotation are
  evaluated on a screen of four pixels when either run starts (`GeometryHolds`); the theorems are for every size.
* Histories that void a property after a named mishap, as `exposed` does in `NoKexec`: `unheard`
  (touches committed without a handler) and `lost` (lifted ones without a slot), `crossed`, `overtaken` (the card's two registering threads in
  the wrong order), `late` (an answer after the loop), `mishaps` and `slips`, `missed` (a kill that
  finds no pid), `kept` (a mount in use), `ini_fails`, `raced`, `apart`, `astray`. Each is named at the property that it voids, and voids
  only the part it bears on: a race at the files says nothing of the texts, a lost event nothing of the mounts. The states
  after them are explored, except after `overtaken`, and, once a cache was `raced` or a text is `apart`, the making of
  further pictures in it.

## Fairness

`FairBootSpec` asks for weak fairness of `DeviceStep`, all steps of the device together: it
does not stop by itself between the bootloader and the end of a boot, because everything
there is sequential code that runs on (waits in it, such as `wait_for_file`, are bounded).
No fairness for the user: nobody has to press a key, pick a ROM or plug the drive, and a
boot that waits for the user counts as settled. Faults are bounded, hence a device that
fails for ever is not a counterexample. `do_kexec`'s endless loop is a state (`hung`) the
properties name.

`FairWorkersSpec`: weak fairness of the worker's steps (its callbacks return) and of
`pthread_join`. The other threads need not do anything. `FairAnimSpec`: weak fairness of the
worker and strong fairness of the shut-down of `multirom_ui()`, which takes mutexes the worker
holds again and again: the worker sleeps about 10 ms in every round with the mutexes free
(`workers.c:78`), so that a waiting thread gets them.

`Framebuffer!Fairness`: strong fairness of the draw thread where it takes a mutex (it asks every
16 ms or so, and everybody else holds them for short calls), weak fairness of what it does with
them; a call that has begun goes on, a batch ends (the code between `fb_batch_start` and
`fb_batch_end` is a few assignments) and a screenshot ends. Nobody has to ask for a draw,
freeze or unfreeze. The other runs of this kind check no liveness.

## Proofs

For all finite or infinite `Primaries` and `Roms` and every `MaxFaults`, under
`NoKexecAssumption` (the names of images are distinct):

* `TypeCorrect`: `[]TypeOK`, with `CallInv`, which says what each `pc` knows.
* `Recoverable`, `Truthful`: `PrimaryRecoverable`, `ResultTruthful` and
  `FailedCallHarmless` are not inductive: whether the slot may be overwritten depends on
  what the call has established before. `IInv` adds, for each label of a call, what is
  known when no mishap happened: after `is_new_primary` has passed the backup holds the
  primary unless the backup step is next; in a flash the temp file is the image asked for;
  what is not dirty equals what storage held. The proof has one step per action.
* `Implements`: every step of `NoKexec` is a step of `PrimaryCustody` or leaves `held` and
  `lost` alone, from `IInv`.
* `Harmless`: `FailedCallHarmless`, from `IInv` with what a call remembers of the slot it found.
* `ChainImplements`, `ChainRecoverable`: every step of `BootChain` is a step of `NoKexec` or
  leaves its variables alone, so NoKexec's theorems hold through whole boots.
* `ChainTyped`, `KernelFits`, `SlotRestored`, `IniNamesSlot`, `Served`, `OneShot`, for any ROMs of
  any kind and any number of faults, with or without kexec and the choice option. That the
  kernel fits the system follows from no single file: the ROM's kernel is in the slot because
  `multirom.ini` says so, and is booted because the slot holds it. `Shaped` gives the locals
  `multirom()` has at each stage and the call of `NoKexec` it is in; `ChainInv`, on it, says
  in four parts what slot, kernel and `multirom.ini` know of each other while no
  mishap has happened (`CleanInv`), what has become of the request (`RequestInv`) and of the
  force flag (`ForceInv`). One step for each action of the chain, and one for each call of
  `NoKexec` it may be in, from that call's pre- and postcondition.

* `WorkersTypeCorrect`, `Quietness`, for any threads and jobs. `RemovedIsQuiet` alone is not
  inductive: `workers_remove` takes out the first match, so a job has to be registered at most
  once (`AtMostOnce`, with the additions under way), and the callback that runs has to be the
  one at the worker's place (`PlaceInv`). Four lemmas say what `list_add`, `list_rm_at` and the
  search do to a list.
* `RoundsServe`: `RoundServesAll` needs `RoundInv`: what was called in this round is what
  stood in the list before the worker's place, whatever dropped out there.
* `StopIsClean`, for any threads, items and nodes: `StopInv` ties the phase of
  `multirom_ui()` to what is registered, listed and called. `AnimationUsesWorkers`: every
  step of `Animation` is a step of `Workers` or leaves its variables alone; this gives `StopInv`
  the typing of the workers, and `Animation` the theorems about them.
* `AnimationTyped`, `NothingStepsOnFreed`, `StartsAfterOthers`, for any threads, items and nodes.
  `OrderInv` has four parts: where the walk of `anim_update` stands in a list that callbacks
  change in its windows, that an item owns each animation listed (also those put aside with a
  context), what a thread between its two critical sections may still append, and that
  an animation put after others has no more to wait than they have to run. It is void after one
  of the named mishaps, as the model's steps are.

* `HighlightAlways`, for any widgets with any positions (`PositionsAssumption`): `KeysInv` adds
  to `HighlightFollows` that a thread in a callback is alone there and in that of the active
  widget, and that one which hands the key on has no highlight left. The least and the
  greatest widget beyond a place exist by the well-foundedness of the naturals.
* `HandlersAlwaysAgree`, for any number of slots, any ids and both kinds of driver. `TouchesAgree`
  compares what the handlers were told with the contacts of the last frame; `TouchInv` adds what
  the driver's side keeps between frames: at most one slot for each id (`OneSlotEach`), the slots
  or the list of active ids are those of the last frame and the other list is empty (`LastFrame`), and, between two
  slots of a frame as well, what the handlers know and are still to be told makes what is held (`AllHeard`). The order of
  the slots does not matter as no contact is both added and removed in one frame. All of it is void once a
  lifted contact got no slot (`lost`). A frame's lists are folds: what they add and take out
  are the lemmas `AddSteps` and `RemoveSteps`, then `Collects`, `LeavesTheRest`. `AlwaysPlaceForEach` follows from `LastFrame`.
* `AlwaysStartsWhole`, `AlwaysOnlyDrivesDangle`, `ListSafe`, for any drives, ROMs, files of theirs and fstabs
  (`UsbRomsAssumption`, `PreparationAssumption`: names are strings, no drive is called as the storage
  is, and the storage has an Internal, which `multirom_import_internal` makes). `StartsWhole` speaks
  of the end of `multirom()` and of the next boot, so that the invariant has to carry to there what
  each call has done. `ListInv`: what is pointed to is a ROM of some directory, all partitions are of
  one search and mounted, the watcher is gone before a ROM is prepared. `WishInv`: what a second boot
  is for is in `multirom.ini` until the list is read; that the same ROM comes out
  is `LoadFinds`, by the three ways of `multirom_get_rom` (Internal, a name, a name on a drive).
  `PrepInv`: what is done of the root and the job by the time a stage is left. An fstab that counts
  as processed is sound (`ChangedSound`: nothing of the primary's is mounted, /data is passed over, in
  every order of entries and with any of them twice); the ROM's firmware is asked for by `fw_part`,
  then by what is to be written, then by what was; a failure the code passes over is in
  `slips`. One lemma for each call. What `StartsWhole` says of `multirom.ini` is only claimed where it was
  written and read (`ini_fails`): nobody looks whether it was. The drive stays mounted (`DriveIsHeld`) because one search makes
  one partition of a drive. TLC checked the three parts on the states of `preparation` first.
* `HandsOverAlways`, `NobodyLeftAlways`, for any set of devices and any order of events
  (`DevicesAssumption`, `DmAssumption`, `TrampolineAssumption`), from `TrampolineSafe`. The
  invariant has four parts: adbd's thread as main sees it in each phase, where the ramdisk's own
  folders are kept, who has yet to answer for the mapping, and what is mounted on /realdata. What the code does not
  take back is in the statement itself: a mount that was in use, with the mapping under it, the four recorded
  ways in which the mapping outlasts the decryption, and what adbd's set-up left when it broke off.
* `DevAlwaysFollows`, for any devices, names, labels and length of the socket. `DevFollows` speaks only
  of a socket that has been read. `FollowInv` says it of every moment: the events that
  wait, answered one after the other, lead from the nodes there are to what is plugged now, an
  event answered twice or a removal of what is not there included; and the links are those of the
  nodes.
* `AlwaysInside`, `AlwaysFaithful`: clamping and rotation for all sizes, places and paddings, by
  arithmetic alone. What is drawn of a rectangle or picture is on the screen; a line reaches, along its axis, at most the
  row or column after the last one, and its thickness is not bounded by anything.
* `FreezeAlwaysHolds`, for any items and contexts:
  `FreezeInv` says that the draw thread keeps `fb_draw_mutex` from the request to the shown frame,
  and that a request there is in a freeze has a reason.
* `DrawsWhatIsListed`: `Framebuffer` implements `Screen`, for any items, levels and depth of
  contexts. `PictureInv` says that the list's mutex is the draw thread's while it draws, which no
  batch and no clearing has at the same time, and that what it has drawn is what it has
  passed; so the list stands still, each `DrawItem` is a stutter, and what is shown is the list as
  it stood at `DrawBegin`. One step for each action, as a step of `Screen` or none.
* `PixelsStayAlive`, `OneOwner`, `FramebufferTyped`, for any finite sets of items and texts
  (`PicturesAssumption`: the caches count their users, and so does the proof) and any threads.
  That an entry's pixels are there follows from nothing the entry knows. `FileSafe` says of the files, and `TextSafe`
  of the texts, each as long as its own cache was not `raced`, that the counts are right and that what a call has found
  still holds when it comes to use it (`Fresh`, `FreshFile`). A file's entry counts the items that show it; as long as no pixels
  were set apart from their entry (`~apart`), a text's entry counts the items with its text (`AllCounted`),
  which have its pixels and its colour (`Agree`); no two entries share pixels (`OneEach`), no item has those
  of another text's entry (`OwnText`), two items that share theirs have an entry (`SharedThere`), and
  what is allocated is what an item shows or an entry keeps (`AllUsed`). There is a lemma for each step of a call.
  `OwnInv` says who owns an item: the list drawn, a list put aside, or one call (`NoneTwice`, `ListsApart`, `HeldApart`,
  `CallsApart`), and all of these were created (`AllBorn`); so an item is neither destroyed twice nor listed twice. The typing is as
  deep as that, since a count that is taken down has to be above zero.
* `CopiesOffScreen`, from `BufferInv`: which buffer the display shows, which the flag of the back end
  names, and whether a flip is under way, for each of the back ends, as long as no failure was passed over that makes
  the two differ (`astray`); the kernel's offset outlasts every close and open.

* `HandlerFlagged`, `AnswerAlwaysMatches`, for any cards, auto-boot ROM and length of the countdown
  (`UiAssumption`), from `UiSafe`. A thread goes through calls within calls (a touch, the
  card's button, the hiding of the card, what is to be done once it is hidden), so that first
  `StackInv` says which places a thread can be in and what it may return to, however deep:
  `Calls(t, p)` are the places a call from `p` goes through. On it stand `CardInv` (who has
  `ncard.mutex`, and in which places), `HandlerInv` (what the threads of the card's handler still
  have to do makes up for what is listed: `listed + pending.add = pending.rm + 1` while
  the handler is thought to be there), `ThreadsInv` (which threads there are at each place of main's:
  no input thread after it has been joined, no worker after the animations have ended) and
  `AnswerInv` (what the answer is worth at each place of main's, under `exit_code_mutex` or
  without). An answer from the others comes before the loop is left, or is `late`, or the
  thread that could give it is gone. The one answer that goes with no ROM is that of a frame buffer that did not open.
* `CirclesKnown`: the threads of the interface wait for one another, for six mutexes and in two joins, in no circle but those
  five kinds `KnownCircle` names, that of the countdown against a list filled anew among them, from `OwnersSafe`: who has each of the six mutexes, by the places of the
  threads. `AutoInv` does it for `auto_boot_data.mutex`, the one held across calls: its
  owner is in `multirom_ui_auto_boot_tick`, or shows the countdown's card for it (`ShowsCount`), or hides
  another card to do so (`HidesFirst`), and nobody else has a frame of a countdown (`BareList`). The card that is
  hidden first is not the countdown's, as that lies where the new one goes: so nobody waits for
  `auto_boot_data.mutex` in `multirom_ui_auto_boot_hidden` while having it. `OwnerInv` does the other
  five: `exit_code_mutex` is held between `loop` and the loop's end, the input thread's start only
  while main joins it, `touch_mutex` from under a touch, `ncard.mutex` in three places, the workers'
  by the worker alone. Then `NoCircle` takes any circle without a thread that removes the card's
  handler: the owners of `ncard.mutex` and of `auto_boot_data.mutex` wait for no mutex that a thread of
  the circle has, so nobody in it waits for these two; what is left waits for main, and main only for a touch, a
  countdown or a thread's end at the places `KnownCircle` lists.

Every invariant and action property of the passing runs is stated by a theorem, and so are the two
refinements of a whole module (`CustodySpec`, `ShowsTheList`) and that of a composition
(`NoKexecSpec`). Only model-checked: liveness (`BootSettles`, `RequestAnswered`, `StopReturns`,
`AnimStopReturns`, `ForceReturns`), as fairness and anything else that needs `ENABLED` is out of the
prover's reach. So is the library's induction over naturals and sequences, which takes a predicate as
a parameter; where a fold has to be known for every list (`Among`, the frames of `Touch`),
`ListLemmas` goes round it with sets: a set of naturals that holds 0 and with each number the next
holds all (`UpTo`), as there is no least number it lacks, and the recursive function a fold
stands for exists up to each length (`FoldExists`), as there is no least length without.

## Where the code and its comments disagree

* `untagged`: `multirom.c:481` relies on a secondary in the slot being recognised
  ("will trigger second_boot=1"); a flash whose last step fails leaves one that is not.
* `bootgivesup`: `trampoline.c:367` reboots a second boot that has no `/data`, and `:370` favours the recovery to
  avoid a boot loop. `run_core` leaves by `goto exit` without fb0 (`:335`) or an fstab (`:344`), past that
  check, and main goes on to `/main_init` on the secondary's kernel.
* `actionlost`: `input.c:702` says that the current action not being found in the list "should never be
  reached". Its callback ran without the lock (`:673`): the widget may be gone, or a touch have taken the highlight away,
  and the key is lost; if the list was freed meanwhile, the search reads through NULL.

## Defects met while modelling, that no run states

The runs above are for what a line of the repository denies; these are what the modules reach and name
(a history that voids a part of a property, as listed under [bounds](#bounds)), or what was only read. The hazards of
`PROJECT.json` say which property covers what is left.

* `framebuffer.c`: `fb_ctx_rm_item` of the head of a context put aside overwrites the head of the
  active one; `fb_open_impl` reads past `impls[]` when every back end fails; `fb_save_screenshot`
  calls `mkdir_recursive` on an uninitialised `path`; a draw may begin in a freeze if its request
  had looked at the count before (`late`); a line is clamped to one past its parent (`:762`), and its thickness not at
  all, so that one along the last row or column writes outside the buffer.
* `framebuffer_truetype.c`: the cache's key has no style, justification or wrapping; nothing locks it, nor that of the
  files: two threads in one of them at a time may free what the other has found (`raced`), or
  render one text twice, and one of them later drops the entry the other shows
  (`apart`). `framebuffer_fbdev.c`, `framebuffer_generic.c`: a failed ioctl, or a second open of the generic back end while the
  display stands at the second buffer, leaves the flag at the wrong one, which is then copied into while it is
  shown (`astray`). `framebuffer_drm.c`: a failed surface allocation frees twice.
  `framebuffer_qcom_overlay.c`: a failed map closes descriptor 0.
* `input_type_a.c`: when held and lifted contacts of one frame are more than the slots, an id stays in the list the
  next frame fills (`lost`): ten fingers of which one is exchanged for another, then the same ten again, and the `assert(0)`
  of `idlist_add` (`:75`) ends the program; `mt_slot` is not bounded. `input.c`: flags of frames without handlers stay set.
* Locks in two orders: `touch_mutex` and `exit_code_mutex` (Pong), `exit_code_mutex` and the
  workers' mutex (the countdown against Pong's `keyaction_enable`, and against the list that a USB refresh fills
  anew, `multirom_ui.c:286` and `:559`), a join under `input_start_mutex`. Two that were read and are outside
  `WaitsKnown`: `keyaction_remove` calls back under the lock of the key actions, where `listview_update_ui` may take
  the workers' mutex, while the worker that repeats a held key waits for that lock; and `listview_update_ui` holds the frame
  buffer's mutex (`fb_batch_start`) where a card may be hidden, while `ncard_show` takes it under `ncard.mutex`. `touch_mutex` and `ncard.mutex`: main or the worker that hides a card with
  buttons removes its touch handler with `ncard.mutex`, while a touch asks for that with
  `touch_mutex`. The card's handler may be registered and removed in the wrong order.
* `multirom.c:478` flashes a ROM with a boot.img whatever method was selected: the options that `no_kexec.h:27-32`
  describes and the choice card have no effect on it.
* `multirom_ui.c`: the list of ROMs is rebuilt by main while a touch may be walking it; `selected_rom`, the auto-boot ROM and their partitions dangle after a USB refresh
  while the no-kexec card asks, and after the loop has ended until `keep_mounted` is set; a
  late touch or tick changes `exit_ui_code` after the loop; a method chosen for one ROM stays for
  the next one picked in the same round.
* `multirom.c`: `find_usb_roms` looks for the auto-boot ROM with the current ROM's partition, and
  turns a ROM of the storage, or none, into Internal, which is then saved; `fill_kexec_linux` leaves
  the image mounted on failure; `multirom_mount_image` tries for ever on a sparse image that
  cannot be mounted (`hung`); `strstr(from, "vendor")` also matches a ROM's name, and such a ROM is started without
  its system, data and cache (`NamedVendor`); that `multirom.ini` could not be read (`:953`) or written (`:1068`) is not
  looked at (`ini_fails`); the copying of a ROM's `boot/` stops after its first sub-directory.
* `fstab.c`: options are parsed in place, so that a changed line is saved with its first option
  alone; `fstab_save` tests the wrong pointer. `rom_quirks.c`: `strstr`'s NULL plus an offset;
  an endless loop on a source that cannot be opened.
* `trampoline`: `adb_quit`'s kill may miss the child that is being forked, and the join waits for it
  (`missed`); a failed fork makes `waitpid(-1)` take multirom's status; `encryption_cleanup`
  removes an empty `/firmware` of the ramdisk's and leaves the link at `/vendor` if there was none;
  the mapping stays when the answer changes after the right password, when the child dies after making it, and when
  `remove` fails; an `umount` that fails as a shell's process uses the mount is passed over (`kept`); `devices_close` joins a
  thread that was not made if the socket could not be opened.

## Not modelled

Charger mode (`main_init` of the kernel's own ramdisk, before anything else happens); the
wording of the logs; run-on-boot scripts; the texts of command lines and init files beyond what
they name; the look of the interface: sizes, colours, glyphs and their cache, texts that cannot be rendered, pixel formats, the interpolation of
animations, the scrolling and bouncing of lists and the sliding of tabs; the trackers of touch
and velocity, the keyboard and the queue of raw keys; the NULL-terminated lists and maps of
`containers.c`, which are used as sequences and functions; Pong; vendored code (freetype,
kexec-tools, adbd) and packaging. `libbootimg` is a submodule that is not in this tree: it is
modelled by how its results are used, as are cryptfs and the kernel's uevents.

## Plan

1. *(done)* `NoKexec`, `PrimaryCustody`, `BootChain`, their runs and theorems.
2. *(done)* The threads of the UI: `Workers`, `Animation`, `NotificationCard`, `UiLoop`, `Touch`,
   `KeyActions`; the frame buffer: `Screen`, `Framebuffer` and its parts.
3. *(done)* The trampoline: `Devices`, `Decryption`, `Adbd`, `Trampoline`; the ROM: `UsbRoms`, `Preparation`.
4. *(done)* Theorems: the inductive invariants of every module with state, one for each safety
   property of a passing run.
5. Models: the list view's scrolling against the worker's animation of it; the tab view with
   the theme's change; the keyboard widget with the worker that switches its character set.
