------------------------------ MODULE Animation ------------------------------
(***************************************************************************)
(* lib/animation.c on top of lib/workers.c: a list of running animations,  *)
(* which the job anim_update walks in every round of the worker, and which *)
(* the threads of the interface change.  anim_list.mutex guards the list,  *)
(* and anim_update gives it up around the callbacks of an animation.       *)
(*                                                                         *)
(* Main is the thread of multirom_ui(), which starts and stops everything  *)
(* and plays pong in a context of its own; the other threads run touch and *)
(* key handlers.  Drawing is left out: an animation "steps", and what it   *)
(* steps on is an item (a card, the progress dots) that has to exist.      *)
(***************************************************************************)
EXTENDS Workers

CONSTANTS
    Main,       \* the thread of multirom_ui(), one of Threads
    Cards,      \* items shown by an animation and hidden by one that removes them
    Dots,       \* items whose animation adds its successor (progressdots.c)
    Owner,      \* the thread that creates and destroys an item
    Nodes,      \* bound: how many animations there are at a time
    Duration,   \* the length of an animation
    Gap,        \* start_offset of the progress dots
    Diffs       \* the time that may pass between two rounds

Items == Cards \cup Dots
Update == "anim_update"

ASSUME AnimationAssumption ==
    /\ Main \in Threads
    /\ Update \in Jobs \ OneShot
    /\ Cards \cap Dots = {} /\ "none" \notin Items
    /\ Owner \in [Items -> Threads]
    /\ Nodes \subseteq Nat \ {0}
    /\ Duration \in Nat \ {0} /\ Gap \in Nat
    /\ Diffs \subseteq Nat \ {0}

VARIABLES
    running,    \* anim_list.running
    list,       \* the active list: animations in order
    contexts,   \* anim_list.inactive_ctx, as lists
    anim,       \* what each animation is
    upd,        \* where anim_update is
    it,         \* its current animation, or 0
    diff,       \* the time this round stands for
    does,       \* the call on the animations each thread is in
    items,      \* which items exist
    phase,      \* where multirom_ui() is
    mishap      \* history: a callback's animation or context was taken away under it

animVars == <<running, list, contexts, anim, upd, it, diff, does, items, phase, mishap>>
vars == <<workersVars, animVars>>

-----------------------------------------------------------------------------
\* An animation: left is duration - elapsed.  A "tab" animation has no item, "select" and
\* "hide" ones have an on_step_call, a "hide" one destroys its item when it finishes, and a
\* "dots" one has an on_finished_call.  waits is a history: the animations of the same item
\* it was put after.
Kinds == {"tab", "select", "hide", "dots"}
Anim(kind, i, offset, waits) ==
    [kind |-> kind, item |-> i, offset |-> offset, left |-> Duration, waits |-> waits]
NoAnim == [kind |-> "none", item |-> "none", offset |-> 0, left |-> 0, waits |-> {}]

Idle == [op |-> "idle"]

\* anim_update has given up the mutex to call back.
Windows == {"stepping", "finishing", "adding", "ending"}
\* It holds it; the critical sections of the other threads are one step each.
AnimLocked == upd \in {"at", "stepped", "remove"}

Used == Range(list) \cup (UNION {Range(contexts[k]) : k \in DOMAIN contexts}) \cup {it}
Unused == Nodes \ Used
NextOf(n) == LET k == SelectInSeq(list, LAMBDA m : m = n)
             IN  IF k = Len(list) THEN 0 ELSE list[k + 1]
ForItem(i) == {n \in Range(list) : anim[n].item = i}

\* The list s without the animations ns.
Unlinked(s, ns) ==
    LET kept == {k \in DOMAIN s : s[k] \notin ns}
        Nth(n) == CHOOSE k \in kept : Cardinality({m \in kept : m <= k}) = n
    IN  [n \in 1..Cardinality(kept) |-> s[Nth(n)]]

\* free(): the animations ns are no more; nobody waits for them.
Without(ns) == [n \in Nodes |-> IF n \in ns THEN NoAnim
                                ELSE [anim[n] EXCEPT !.waits = @ \ ns]]

AnimInit ==
    /\ WorkersInit
    /\ running = FALSE
    /\ list = <<>> /\ contexts = <<>>
    /\ anim = [n \in Nodes |-> NoAnim]
    /\ upd = "out" /\ it = 0 /\ diff = 0
    /\ does = [t \in Threads |-> Idle]
    /\ items = [i \in Items |-> "gone"]
    /\ phase = "down"
    /\ mishap = "none"

-----------------------------------------------------------------------------
\* Calls on the animations.  MayUse: what a thread may do follows from multirom_ui(): the
\* other threads act while the interface is up, and Main acts between them and, on every
\* item, after they ended.  After anim_stop it only destroys the theme.
MayUse(t, i) ==
    /\ does[t] = Idle /\ want[t] = Free
    /\ items[i] = "shown"
    /\ \/ phase = "up" /\ Owner[i] = t
       \/ phase = "closing" /\ t = Main

Destroying(i, how) == phase = "quiet" /\ items[i] = "shown" /\ how = "remove"

Does(t, d) == does' = [does EXCEPT ![t] = d]

\* Bound: a thread starts an animation only when there is a node for it, and for its
\* successor if it has one.
Needs(a) == IF a.kind = "dots" THEN 2 ELSE 1
Reserved(d) == CASE d.op = "append" -> Needs(d.anim)
                 [] d.op = "cancel" -> 1
                 [] OTHER -> 0
Room(a) == Needs(a) + MapThenSumSet(LAMBDA t : Reserved(does[t]), Threads)
                    + MapThenSumSet(LAMBDA n : Needs(anim[n]), Used \ {0})
           <= Cardinality(Nodes)

Show(t, i) ==
    /\ does[t] = Idle /\ phase = "up" /\ Owner[i] = t
    /\ items[i] = "gone"
    /\ items' = [items EXCEPT ![i] = "shown"]
    /\ UNCHANGED <<running, list, contexts, anim, upd, it, diff, does, phase, mishap>>

\* The end of item_anim_add and call_anim_add: an animation added while nothing runs is freed.
Put(t, a) == Does(t, IF running THEN [op |-> "append", anim |-> a] ELSE Idle)

item_anim_add(t, i) ==
    /\ MayUse(t, i) /\ ForItem(i) = {}
    /\ LET a == Anim(IF i \in Dots THEN "dots" ELSE "select", i, 0, {})
       IN  Room(a) /\ Put(t, a)
    /\ UNCHANGED <<running, list, contexts, anim, upd, it, diff, items, phase, mishap>>

\* A tab view's, from its touch handler.
call_anim_add(t) ==
    /\ t # Main /\ does[t] = Idle /\ want[t] = Free
    /\ phase = "up" /\ Room(NoAnim)
    /\ Put(t, Anim("tab", "none", 0, {}))
    /\ UNCHANGED <<running, list, contexts, anim, upd, it, diff, items, phase, mishap>>

\* anim_update has not yet counted this round's time for n.
NotCounted(n) == upd = "out" \/ SelectInSeq(list, LAMBDA m : m = n)
                                    > SelectInSeq(list, LAMBDA m : m = it)

\* item_anim_add_after_Elapsed waits for the time that has passed.
item_anim_add_after_Elapsed(t, i) ==
    /\ MayUse(t, i) /\ i \in Cards /\ Room(NoAnim)
    /\ \A n \in ForItem(i) : anim[n].offset = 0
    /\ ~AnimLocked
    /\ LET before == ForItem(i)
           offset == Max({0} \cup {Duration - anim[n].left : n \in before})
       IN  Put(t, Anim("select", i, offset, {n \in before : NotCounted(n)}))
    /\ UNCHANGED <<running, list, contexts, anim, upd, it, diff, items, phase, mishap>>

\* A selection is put after by a deselection (listview.c:618), which is not put after again
\* while it waits.
item_anim_add_after(t, i) ==
    /\ MayUse(t, i) /\ i \in Cards /\ Room(NoAnim)
    /\ \A n \in ForItem(i) : anim[n].offset = 0
    /\ ~AnimLocked
    /\ LET before == ForItem(i)
           offset == Max({0} \cup {anim[n].offset + anim[n].left : n \in before})
       IN  Put(t, Anim("select", i, offset, {n \in before : NotCounted(n)}))
    /\ UNCHANGED <<running, list, contexts, anim, upd, it, diff, items, phase, mishap>>

Linked(a) ==
    \E n \in Unused :
        /\ \A m \in Unused : n <= m
        /\ anim' = [anim EXCEPT ![n] = a]
        /\ list' = Append(list, n)

Appended(t) ==
    /\ does[t].op = "append"
    /\ ~AnimLocked
    /\ LET a == does[t].anim
       IN  Linked([a EXCEPT !.waits = @ \cap ForItem(a.item)])
    /\ Does(t, Idle)
    /\ UNCHANGED <<running, contexts, upd, it, diff, items, phase, mishap>>

\* An item is removed (fb_remove_item), or a card is hidden (ncard_hide) or shown anew with
\* other text (ncard_show): first its animations are cancelled, unless nothing runs.
Replace(t, i, how) ==
    /\ MayUse(t, i) \/ (t = Main /\ does[t] = Idle /\ Destroying(i, how))
    /\ how # "remove" => i \in Cards /\ Room(NoAnim)
    /\ Does(t, [op |-> "cancel", item |-> i, how |-> how])
    /\ UNCHANGED <<running, list, contexts, anim, upd, it, diff, items, phase, mishap>>

\* anim_cancel_for_First stops at the first match, as anim_cancel does.
anim_cancel_for_First(i) ==
    /\ ~AnimLocked
    /\ LET ns == {n \in ForItem(i) : \A m \in ForItem(i) : n <= m}
       IN  /\ list' = Unlinked(list, ns)
           /\ anim' = Without(ns)
           /\ mishap' = IF upd \in Windows /\ it \in ns THEN "cancelled" ELSE mishap

anim_cancel_for(i) ==
    IF running
    THEN /\ ~AnimLocked
         /\ list' = Unlinked(list, ForItem(i))
         /\ anim' = Without(ForItem(i))
         /\ mishap' = IF upd \in Windows /\ it \in ForItem(i) THEN "cancelled" ELSE mishap
    ELSE UNCHANGED <<list, anim, mishap>>

Cancelled(t) ==
    /\ does[t].op = "cancel"
    /\ LET i == does[t].item IN
       /\ anim_cancel_for(i)
       /\ \/ /\ does[t].how = "remove"
             /\ items' = [items EXCEPT ![i] = "gone"]
             /\ Does(t, Idle)
          \/ /\ does[t].how = "hide"
             /\ items' = [items EXCEPT ![i] = "hiding"]
             /\ Put(t, Anim("hide", i, 0, {}))
          \/ /\ does[t].how = "show"
             /\ Put(t, Anim("select", i, 0, {}))
             /\ UNCHANGED items
    /\ UNCHANGED <<running, contexts, upd, it, diff, phase>>

\* anim_cancel of the id a tab view keeps; the id may be of an animation long gone.
anim_cancel(t) ==
    /\ t # Main /\ does[t] = Idle /\ phase = "up" /\ running
    /\ ~AnimLocked
    /\ \E n \in Range(list) :
        /\ anim[n].kind = "tab"
        /\ list' = Unlinked(list, {n})
        /\ anim' = Without({n})
    /\ UNCHANGED <<running, contexts, upd, it, diff, does, items, phase, mishap>>

\* Around pong(): the input handlers are pushed away as well.  A call another thread is in,
\* or a callback of the worker, goes on in the wrong context.
Busy == upd \in Windows \/ \E t \in Threads : does[t] # Idle

anim_push_context ==
    /\ phase = "up" /\ does[Main] = Idle /\ want[Main] = Free
    /\ ~AnimLocked
    /\ contexts' = Append(contexts, list)
    /\ list' = <<>>
    /\ mishap' = IF Busy THEN "switched" ELSE mishap
    /\ phase' = "pong"
    /\ UNCHANGED <<running, anim, upd, it, diff, does, items>>

anim_pop_context ==
    /\ phase = "pong"
    /\ ~AnimLocked
    /\ anim' = Without(Range(list))
    /\ list' = Last(contexts)
    /\ contexts' = Front(contexts)
    /\ mishap' = IF Busy THEN "switched" ELSE mishap
    /\ phase' = "up"
    /\ UNCHANGED <<running, upd, it, diff, does, items>>

-----------------------------------------------------------------------------
\* The job anim_update: one call of the worker, in steps.  n is the current animation.
Quiet == UNCHANGED <<workersVars, running, contexts, does, phase, mishap>>
Current(place, n) ==
    /\ upd = place /\ it = n /\ n \in Range(list)
    /\ Quiet

UpdateBegins ==
    /\ call = Update /\ upd = "out"
    /\ upd' = "at"
    /\ it' = IF list = <<>> THEN 0 ELSE Head(list)
    /\ diff' \in Diffs
    /\ UNCHANGED <<list, anim, items>>
    /\ Quiet

\* Wait_Wraps subtracts without comparing: the unsigned offset wraps.
Wait_Wraps(n) ==
    /\ Current("at", n) /\ anim[n].offset > 0
    /\ anim' = [anim EXCEPT ![n].offset = @ - diff]
    /\ it' = NextOf(n)
    /\ UNCHANGED <<list, upd, diff, items>>

\* An animation that has not started only waits.
Wait(n) ==
    /\ Current("at", n) /\ anim[n].offset > 0
    /\ anim' = [anim EXCEPT ![n].offset = IF @ > diff THEN @ - diff ELSE 0]
    /\ it' = NextOf(n)
    /\ UNCHANGED <<list, upd, diff, items>>

Step(n) ==
    /\ Current("at", n) /\ anim[n].offset = 0
    /\ anim' = [anim EXCEPT ![n].left = IF @ > diff THEN @ - diff ELSE 0]
    /\ upd' = IF anim[n].kind \in {"select", "hide"} THEN "stepping" ELSE "stepped"
    /\ UNCHANGED <<list, it, diff, items>>

OnStepReturns(n) ==
    /\ Current("stepping", n)
    /\ upd' = "stepped"
    /\ UNCHANGED <<list, anim, it, diff, items>>

Continues(n) ==
    /\ Current("stepped", n) /\ anim[n].left > 0
    /\ upd' = "at" /\ it' = NextOf(n)
    /\ UNCHANGED <<list, anim, diff, items>>

Finishes(n) ==
    /\ Current("stepped", n) /\ anim[n].left = 0
    /\ upd' = CASE anim[n].kind = "dots" -> "finishing"
                [] anim[n].kind = "tab" -> "remove"
                [] OTHER -> "ending"
    /\ UNCHANGED <<list, anim, it, diff, items>>

\* OnFinished_Always adds whether anything runs or not.
OnFinished_Always(n) ==
    /\ Current("finishing", n)
    /\ upd' = "adding"
    /\ UNCHANGED <<list, anim, it, diff, items>>

\* progdots_anim_finished: item_anim_add looks at running before it takes the mutex.
OnFinished(n) ==
    /\ Current("finishing", n)
    /\ upd' = IF running THEN "adding" ELSE "ending"
    /\ UNCHANGED <<list, anim, it, diff, items>>

AddsSuccessor(n) ==
    /\ Current("adding", n)
    /\ Linked(Anim("dots", anim[n].item, Gap, {}))
    /\ upd' = "ending"
    /\ UNCHANGED <<it, diff, items>>

\* item_anim_on_finished: the item of a hidden card goes.  The anim_cancel_for in its
\* removal does nothing on this thread, in the loop.
ItemFinished(n) ==
    /\ Current("ending", n)
    /\ items' = IF anim[n].kind = "hide" THEN [items EXCEPT ![anim[n].item] = "gone"]
                ELSE items
    /\ upd' = "remove"
    /\ UNCHANGED <<list, anim, it, diff>>

RemovesFinished(n) ==
    /\ Current("remove", n)
    /\ it' = NextOf(n)
    /\ list' = Unlinked(list, {n})
    /\ anim' = Without({n})
    /\ upd' = "at"
    /\ UNCHANGED <<diff, items>>

UpdateReturns ==
    /\ upd = "at" /\ it = 0
    /\ upd' = "out" /\ diff' = 0
    /\ Return
    /\ UNCHANGED <<running, list, contexts, anim, it, does, items, phase, mishap>>

UpdateStep ==
    \/ UpdateBegins \/ UpdateReturns
    \/ \E n \in Nodes : \/ Wait(n) \/ Step(n) \/ OnStepReturns(n) \/ Continues(n) \/ Finishes(n)
                       \/ OnFinished(n) \/ AddsSuccessor(n) \/ ItemFinished(n)
                       \/ RemovesFinished(n)

\* The rounds of the worker.  Nobody registers another job here: they share the rounds with
\* anim_update and nothing else (WorkersNext has them).
Round == (Check \/ Lock \/ Call \/ Unlock) /\ UNCHANGED animVars

-----------------------------------------------------------------------------
\* multirom_ui(): what it does with the workers and the animations, in order.
Phase(from, to) == phase = from /\ phase' = to
KeepAnims == UNCHANGED <<running, list, contexts, anim, upd, it, diff, does, items, mishap>>

StartsWorkers == Phase("down", "starting") /\ workers_start(Main) /\ KeepAnims

anim_init ==
    /\ Phase("starting", "registering")
    /\ running' = TRUE
    /\ Ask(Main, "add", Update)
    /\ UNCHANGED <<list, contexts, anim, upd, it, diff, does, items, mishap>>

Registers == Phase("registering", "up") /\ Added(Main) /\ KeepAnims

\* StopsInput_NoJoin does not wait for the handlers.
StopsInput_NoJoin ==
    /\ Phase("up", "closing")
    /\ UNCHANGED workersVars /\ KeepAnims

\* stop_input_thread() joins it: no other thread is in a call any more.
StopsInput ==
    /\ Phase("up", "closing")
    /\ \A t \in Threads : does[t] = Idle /\ want[t] = Free
    /\ UNCHANGED workersVars /\ KeepAnims

\* anim_stop(1): no new animations, wait until the list is empty, then take the job away.
anim_stop ==
    /\ Phase("closing", "draining")
    /\ does[Main] = Idle
    /\ running' = FALSE
    /\ UNCHANGED <<workersVars, list, contexts, anim, upd, it, diff, does, items, mishap>>

Drained ==
    /\ Phase("draining", "removing")
    /\ ~AnimLocked /\ list = <<>>
    /\ Ask(Main, "remove", Update)
    /\ KeepAnims

Unregisters == Phase("removing", "clearing") /\ Removed(Main) /\ KeepAnims

anim_list_clear ==
    /\ Phase("clearing", "quiet")
    /\ ~AnimLocked
    /\ list' = <<>> /\ anim' = Without(Range(list))
    /\ UNCHANGED <<workersVars, running, contexts, upd, it, diff, does, items, mishap>>

\* After multirom_ui_destroy_theme().
StopsWorkers ==
    /\ Phase("quiet", "joining")
    /\ does[Main] = Idle
    /\ \A i \in Items : items[i] = "gone"
    /\ workers_stop(Main) /\ KeepAnims
WorkersEnded == Phase("joining", "down") /\ Joined(Main) /\ KeepAnims

Shutdown == \/ anim_stop \/ Drained \/ Unregisters \/ anim_list_clear
            \/ StopsWorkers \/ WorkersEnded
Startup == StartsWorkers \/ anim_init \/ Registers

AnimCall(t) ==
    /\ \/ \E i \in Items : \/ Show(t, i) \/ item_anim_add(t, i) \/ item_anim_add_after(t, i)
                           \/ \E how \in {"remove", "hide", "show"} : Replace(t, i, how)
       \/ call_anim_add(t) \/ anim_cancel(t)
       \/ Appended(t) \/ Cancelled(t)
    /\ UNCHANGED workersVars

Pong == (anim_push_context \/ anim_pop_context) /\ UNCHANGED workersVars

\* After a mishap anim_update goes on with an animation that was freed or is in another
\* list, or a call ends in the wrong context.  What a corrupted heap does is not modelled:
\* nothing is explored, and nothing claimed, from there on.
Broken == mishap # "none" /\ UNCHANGED vars

Next ==
    \/ /\ mishap = "none"
       /\ \/ Round \/ UpdateStep
          \/ Startup \/ Pong \/ StopsInput \/ Shutdown
          \/ \E t \in Threads : AnimCall(t)
    \/ Broken

AnimSpec == AnimInit /\ [][Next]_vars

\* The worker goes on, and so does multirom_ui() once it has asked the animations to stop.
\* Strong fairness for the latter: the mutexes are free while the worker sleeps.
FairAnimSpec ==
    /\ AnimSpec
    /\ WF_vars(mishap = "none" /\ (Round \/ UpdateStep))
    /\ SF_vars(mishap = "none" /\ Shutdown)

-----------------------------------------------------------------------------
Places == {"out", "at", "stepping", "stepped", "finishing", "adding", "ending", "remove"}
AnimRecs == [kind : Kinds \cup {"none"}, item : Items \cup {"none"}, offset : Nat,
             left : 0..Duration, waits : SUBSET Nodes]

\* Types; anim_update is at work only inside its call, and nodes are in one list each.
AnimTypeOK ==
    /\ WorkersTypeOK
    /\ running \in BOOLEAN
    /\ list \in Seq(Nodes) /\ contexts \in Seq(Seq(Nodes))
    /\ anim \in [Nodes -> AnimRecs]
    /\ upd \in Places /\ it \in Nodes \cup {0} /\ diff \in Diffs \cup {0}
    /\ upd # "out" => call = Update
    /\ IsInjective(list)
    /\ \A t \in Threads : does[t].op \in {"idle", "append", "cancel"}
    /\ items \in [Items -> {"shown", "hiding", "gone"}]
    /\ mishap \in {"none", "cancelled", "switched"}

\* No animation that will step again is left on an item that was freed, in any context: the
\* owner cancels before it frees, and what a hidden card's own animation frees has no other
\* animation (framebuffer.c:547, animation.c:349, notification_card.c:494).  Void when a
\* callback's animation was cancelled, or its context switched, while the mutex was given up
\* for it.
NoStepOnFreedItem ==
    mishap = "none" =>
        \A n \in Used \ {0} :
            anim[n].item # "none" => \/ items[anim[n].item] # "gone"
                                     \/ upd = "remove" /\ it = n

\* When anim_stop(1) has returned, no animation is left, the job is not registered and is
\* not running, and nothing is added any more: multirom_ui() destroys the theme after it
\* (animation.c:301, multirom_ui.c:373).
StopLeavesNothing ==
    phase \in {"quiet", "joining", "down"} =>
        /\ list = <<>> /\ contexts = <<>>
        /\ Update \notin Range(jobs) /\ upd = "out"

\* An animation put after others of its item does not start before they are gone
\* (animation.c:462), however the rounds are spaced; put there by a callback's window, it
\* waits for those whose time was not counted in that round.
AfterWaits ==
    mishap = "none" =>
        \A n \in Range(list) :
            anim[n].offset = 0 /\ anim[n].left < Duration
                => anim[n].waits \cap Range(list) = {}

\* anim_stop(1) returns: no animation can go on or be renewed for ever (animation.c:307).
AnimStopReturns == phase = "draining" ~> phase = "quiet"
=============================================================================
