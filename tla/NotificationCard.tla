--------------------------- MODULE NotificationCard ---------------------------
(***************************************************************************)
(* lib/notification_card.c with the touch handler it registers, and the    *)
(* threads that show, hide and touch the card.  A thread's place is at[t]; *)
(* back[t] is where it goes on after the call it is in.  A lock is taken   *)
(* in the step that goes on with it.                                       *)
(***************************************************************************)
EXTENDS Integers, Sequences, FiniteSets

Threads == {"main", "input", "worker", "refresh"}
Locks == {"touch", "card", "auto", "exit", "start", "workers"}

VARIABLES
    at, back,
    lock,           \* who holds each mutex
    card,           \* the notification card; its fields stay after it is hidden
    registered,     \* ncard.touch_handler_registered
    listed,         \* how often ncard_touch_handler is in mt_handlers
    pending,        \* the threads under way that add or remove it
    pushed,         \* the handlers are put aside, with the card's as often as this, or -1
    overtaken,      \* history: a removal came before its addition, or a change while put aside
    destroy         \* auto_boot_data.destroy

cardVars == <<at, back, lock, card, registered, listed, pending, pushed, overtaken, destroy>>

NoOne == "no one"
Kinds == {"auto", "ask", "note", "rom", "bye"}
Hidden == [shown |-> FALSE, kind |-> "none", cancelable |-> FALSE, btns |-> FALSE, centre |-> TRUE,
           on_hidden |-> FALSE]

\* The cards the program shows.  The one of a selected ROM avoids its item, the others lie
\* in the centre; only the auto-boot card wants to know when it is hidden.
Card(kind) ==
    [shown |-> TRUE, kind |-> kind, cancelable |-> kind \in {"auto", "ask", "note"},
     btns |-> kind \in {"auto", "ask", "note"}, centre |-> kind # "rom", on_hidden |-> kind = "auto"]

CardInit ==
    /\ lock = [l \in Locks |-> NoOne]
    /\ card = Hidden
    /\ registered = FALSE /\ listed = 0
    /\ pending = [add |-> 0, rm |-> 0]
    /\ pushed = -1
    /\ overtaken = FALSE
    /\ destroy = TRUE

At(t, op) == at[t].op = op
Place(op) == [op |-> op]
Go(t, op) == at' = [at EXCEPT ![t] = Place(op)]
Call(t, place, return) ==
    /\ at' = [at EXCEPT ![t] = place]
    /\ back' = [back EXCEPT ![t] = <<return>> \o @]
Return(t) == at' = [at EXCEPT ![t] = Head(back[t])] /\ back' = [back EXCEPT ![t] = Tail(@)]

Free(l) == lock[l] = NoOne
Take(t, l) == Free(l) /\ lock' = [lock EXCEPT ![l] = t]
Drop(l) == lock' = [lock EXCEPT ![l] = NoOne]

HandlersAlone == UNCHANGED <<registered, listed, pending, pushed, overtaken>>

-----------------------------------------------------------------------------
\* ncard_show, of the card the place names.
Show(kind) == [op |-> "show", kind |-> kind]
Elsewhere(t) == card.shown /\ card.centre # Card(at[t].kind).centre

ShowLocked(t) ==
    /\ At(t, "show")
    /\ ~Elsewhere(t)
    /\ Take(t, "card")
    /\ at' = [at EXCEPT ![t].op = "show set"]
    /\ UNCHANGED <<back, card, destroy>> /\ HandlersAlone

\* A card somewhere else is hidden first, without the mutex.
ShowHides(t) ==
    /\ At(t, "show")
    /\ Elsewhere(t)
    /\ Free("card")
    /\ Call(t, Place("hide"), [at[t] EXCEPT !.op = "show again"])
    /\ UNCHANGED <<lock, card, destroy>> /\ HandlersAlone

ShowAgain(t) ==
    /\ At(t, "show again")
    /\ Take(t, "card")
    /\ at' = [at EXCEPT ![t].op = "show set"]
    /\ UNCHANGED <<back, card, destroy>> /\ HandlersAlone

\* The card's handler is added or removed by a thread of its own.
ShowSet(t) ==
    /\ At(t, "show set")
    /\ LET c == Card(at[t].kind)
       IN /\ card' = c
          /\ registered' = c.btns
          /\ pending' = CASE c.btns /\ ~registered -> [pending EXCEPT !.add = @ + 1]
                          [] ~c.btns /\ registered -> [pending EXCEPT !.rm = @ + 1]
                          [] OTHER -> pending
    /\ Drop("card")
    /\ Return(t)
    /\ UNCHANGED <<listed, pushed, overtaken, destroy>>

-----------------------------------------------------------------------------
\* ncard_hide

HideLooked(t) ==
    /\ At(t, "hide")
    /\ IF card.shown THEN Go(t, "hide lock") /\ UNCHANGED back ELSE Return(t)
    /\ UNCHANGED <<lock, card, destroy>> /\ HandlersAlone

\* Another thread that hid the card meanwhile leaves c->bg NULL, and the program crashes:
\* nothing is explored beyond.
HideLocked(t) ==
    /\ At(t, "hide lock")
    /\ card.shown
    /\ Take(t, "card")
    /\ card' = [card EXCEPT !.shown = FALSE]
    /\ Go(t, IF registered THEN "hide handler" ELSE "hide unlock")
    /\ UNCHANGED <<back, destroy>> /\ HandlersAlone

\* rm_touch_handler: the input thread leaves it to a thread of its own, another one waits
\* for touch_mutex with ncard.mutex.
HandlerGoes ==
    /\ listed' = IF listed > 0 THEN listed - 1 ELSE 0
    /\ overtaken' = (overtaken \/ listed = 0 \/ pushed # -1)

HandlerRemoved(t) ==
    \/ t = "input" /\ pending' = [pending EXCEPT !.rm = @ + 1] /\ UNCHANGED <<listed, overtaken>>
    \/ t # "input" /\ Free("touch") /\ HandlerGoes /\ UNCHANGED pending

\* touch_handler_registered is not reset.
HideHandler_Flagged(t) ==
    /\ At(t, "hide handler")
    /\ HandlerRemoved(t)
    /\ Go(t, "hide unlock")
    /\ UNCHANGED <<back, lock, card, registered, pushed, destroy>>

HideHandler(t) ==
    /\ At(t, "hide handler")
    /\ HandlerRemoved(t)
    /\ registered' = FALSE
    /\ Go(t, "hide unlock")
    /\ UNCHANGED <<back, lock, card, pushed, destroy>>

HideUnlocked(t) ==
    /\ At(t, "hide unlock")
    /\ Drop("card")
    /\ IF card.on_hidden THEN Go(t, "hidden") /\ UNCHANGED back ELSE Return(t)
    /\ UNCHANGED <<card, destroy>> /\ HandlersAlone

\* multirom_ui_auto_boot_hidden
AutoHidden(t) ==
    /\ At(t, "hidden")
    /\ Free("auto")
    /\ destroy' = TRUE
    /\ Return(t)
    /\ UNCHANGED <<lock, card>> /\ HandlersAlone

-----------------------------------------------------------------------------
\* The threads of add_touch_handler_async and rm_touch_handler_async.
HandlerThread ==
    /\ Free("touch")
    /\ \/ /\ pending.add > 0
          /\ pending' = [pending EXCEPT !.add = @ - 1]
          /\ listed' = listed + 1
          /\ overtaken' = (overtaken \/ pushed # -1)
       \/ /\ pending.rm > 0
          /\ pending' = [pending EXCEPT !.rm = @ - 1]
          /\ HandlerGoes
    /\ UNCHANGED <<at, back, lock, card, registered, pushed, destroy>>

CardCall(t) ==
    \/ ShowLocked(t) \/ ShowHides(t) \/ ShowAgain(t) \/ ShowSet(t)
    \/ HideLooked(t) \/ HideLocked(t) \/ HideHandler(t) \/ HideUnlocked(t) \/ AutoHidden(t)

-----------------------------------------------------------------------------
\* With no thread at the card, its touch handler is in the list once if it is thought to
\* be, else not at all, though threads of their own put it there and take it away.  Two
\* such threads in the wrong order, or one that runs while the handlers are put aside for
\* Pong, leave it in or out for good.
HandlerAsFlagged ==
    ~overtaken /\ Free("card") /\ pending.add = 0 /\ pending.rm = 0
        => listed + (IF pushed = -1 THEN 0 ELSE pushed) = IF registered THEN 1 ELSE 0
===============================================================================
