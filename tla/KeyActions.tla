------------------------------ MODULE KeyActions ------------------------------
(***************************************************************************)
(* lib/input.c, keyaction_*: the volume keys walk through the widgets, the *)
(* power key confirms.  A widget has positions of its own to walk through  *)
(* (a list one for each item, a button one) and says when they are used    *)
(* up.  Its callback is called without the lock, by the input thread for a *)
(* key or a touch and by the worker for a key that is held.                *)
(***************************************************************************)
EXTENDS Integers, Sequences

CONSTANTS
    Positions   \* of each widget, in the order they lie on the screen

ASSUME PositionsAssumption == Positions \in Seq(Nat \ {0})

VARIABLES
    actions,    \* the widgets that are listed and still there
    visible,    \* those within the screen
    cur_act,    \* the active one, or NoWidget
    shows,      \* the position each widget highlights, 0 for none
    repeat,     \* the key that is held, or "none"
    enable,     \* keyaction_ctx.enable
    call,       \* the callback each thread is in, or NoCall
    crossed     \* history: two calls that move the highlight overlapped, or their widget was removed

keyVars == <<actions, visible, cur_act, shows, repeat, enable, call, crossed>>

Widgets == 1..Len(Positions)
NoWidget == 0
NoCall == [phase |-> "none"]
Callers == {"input", "worker"}

KeysInit ==
    /\ actions = {} /\ visible = Widgets /\ cur_act = NoWidget
    /\ shows = [w \in Widgets |-> 0]
    /\ repeat = "none" /\ enable = FALSE
    /\ call = [t \in Callers |-> NoCall]
    /\ crossed = FALSE

\* listview_keyaction_call, button_keyaction_call: the position the widget moves to.  The
\* answer 1, which hands the key on, is position 0 after a volume key.
Moved(w, action) ==
    CASE action = "down" -> (shows[w] + 1) % (Positions[w] + 1)
      [] action = "up" -> IF shows[w] = 0 THEN Positions[w] ELSE shows[w] - 1
      [] action = "clear" -> 0
      [] action = "confirm" -> shows[w]

Least(S) == CHOOSE w \in S : \A v \in S : w <= v
Most(S) == CHOOSE w \in S : \A v \in S : w >= v

\* The next visible widget above or below.
Following(w, action) ==
    LET beyond == {v \in actions \cap visible : IF action = "up" THEN v < w ELSE v > w}
    IN IF beyond = {} THEN NoWidget ELSE IF action = "up" THEN Most(beyond) ELSE Least(beyond)

\* A call that may move the highlight; a confirmation does not.
Moves(t) == call[t] # NoCall /\ call[t].action # "confirm"

-----------------------------------------------------------------------------
\* keyaction_call_cur_act: what is called is read under the lock, which is then let go.
Begin(t, w, action) ==
    /\ call[t] = NoCall
    /\ call' = [call EXCEPT ![t] = [phase |-> "calling", widget |-> w, action |-> action]]
    /\ crossed' = (crossed \/ (action # "confirm" /\ \E u \in Callers \ {t} : Moves(u)))

Called(t) ==
    /\ call[t].phase = "calling"
    /\ shows' = [shows EXCEPT ![call[t].widget] = Moved(call[t].widget, call[t].action)]
    /\ call' = [call EXCEPT ![t] = [phase |-> "called", widget |-> @.widget, action |-> @.action,
                                    more |-> Moved(@.widget, @.action) = 0]]
    /\ UNCHANGED <<actions, visible, cur_act, repeat, enable, crossed>>

\* With the lock again: the key goes on to the next widget, if cur_act is still listed.
\* Then what the caller does after the call.
CallReturns(t) ==
    LET c == call[t]
        on == c.more /\ c.action \in {"up", "down"} /\ cur_act \in actions
        next == Following(cur_act, c.action)
    IN /\ c.phase = "called"
       /\ call' = [call EXCEPT ![t] = NoCall]
       /\ shows' = IF on /\ next # NoWidget THEN [shows EXCEPT ![next] = Moved(next, c.action)] ELSE shows
       /\ cur_act' = IF c.action = "clear" THEN NoWidget ELSE IF on THEN next ELSE cur_act
       /\ repeat' = IF c.action = "clear" THEN "none"
                   ELSE IF t = "input" /\ c.action # "confirm" THEN c.action ELSE repeat
       /\ UNCHANGED <<actions, visible, enable, crossed>>

-----------------------------------------------------------------------------
\* keyaction_handle_keyevent.  Without an active widget the volume keys begin at the
\* first or the last one listed, on the screen or not.
KeyDown(action) ==
    /\ enable /\ actions # {} /\ repeat = "none"
    /\ LET first == IF cur_act # NoWidget THEN cur_act
                    ELSE IF action = "down" THEN Least(actions)
                    ELSE IF action = "up" THEN Most(actions)
                    ELSE NoWidget
       IN /\ first # NoWidget
          /\ cur_act' = first
          /\ Begin("input", first, action)
    /\ UNCHANGED <<actions, visible, shows, repeat, enable>>

KeyUp ==
    /\ enable /\ actions # {} /\ call["input"] = NoCall
    /\ repeat # "none"
    /\ repeat' = "none"
    /\ UNCHANGED <<actions, visible, cur_act, shows, enable, call, crossed>>

\* A touch: keyaction_clear_active
keyaction_clear_active ==
    /\ enable /\ cur_act # NoWidget
    /\ Begin("input", cur_act, "clear")
    /\ UNCHANGED <<actions, visible, cur_act, shows, repeat, enable>>

\* The worker, when the timer of a held key has run out.
keyaction_repeat_worker ==
    /\ enable /\ repeat # "none" /\ cur_act # NoWidget
    /\ Begin("worker", cur_act, repeat)
    /\ UNCHANGED <<actions, visible, cur_act, shows, repeat, enable>>

\* The main thread.  Removing the active widget clears it, under the lock; workers_remove
\* waits for the worker to leave its callback.
keyaction_add(w) ==
    /\ w \notin actions /\ shows[w] = 0
    /\ actions' = actions \cup {w}
    /\ UNCHANGED <<visible, cur_act, shows, repeat, enable, call, crossed>>

\* The removed widget stays the active one.
keyaction_remove_Active(w) ==
    /\ w \in actions
    /\ actions' = actions \ {w}
    /\ shows' = [shows EXCEPT ![w] = 0]
    /\ crossed' = (crossed \/ \E t \in Callers : (Moves(t) /\ call[t].widget = w))
    /\ UNCHANGED <<visible, cur_act, repeat, enable, call>>

keyaction_remove(w) ==
    /\ w \in actions
    /\ actions' = actions \ {w}
    /\ cur_act' = IF cur_act = w THEN NoWidget ELSE cur_act
    /\ shows' = [shows EXCEPT ![w] = 0]
    /\ crossed' = (crossed \/ \E t \in Callers : (Moves(t) /\ call[t].widget = w))
    /\ UNCHANGED <<visible, repeat, enable, call>>

keyaction_clear ==
    /\ ~enable /\ actions # {} /\ call["worker"] = NoCall
    /\ actions' = {} /\ cur_act' = NoWidget /\ repeat' = "none"
    /\ shows' = [w \in Widgets |-> 0]
    /\ crossed' = (crossed \/ Moves("input"))
    /\ UNCHANGED <<visible, enable, call>>

keyaction_enable(on) ==
    /\ enable # on
    /\ on \/ call["worker"] = NoCall
    /\ enable' = on
    /\ UNCHANGED <<actions, visible, cur_act, shows, repeat, call, crossed>>

\* Tabs are swiped in and out.
Scroll ==
    /\ visible' \in {Widgets \ {w} : w \in Widgets} \cup {Widgets}
    /\ UNCHANGED <<actions, cur_act, shows, repeat, enable, call, crossed>>

KeysNext ==
    \/ \E action \in {"up", "down", "confirm"} : KeyDown(action)
    \/ KeyUp \/ keyaction_clear_active \/ keyaction_repeat_worker
    \/ \E t \in Callers : Called(t) \/ CallReturns(t)
    \/ \E w \in Widgets : keyaction_add(w) \/ keyaction_remove(w)
    \/ keyaction_clear \/ Scroll
    \/ \E on \in BOOLEAN : keyaction_enable(on)

KeysSpec == KeysInit /\ [][KeysNext]_keyVars

-----------------------------------------------------------------------------
\* The active widget is a listed one at any time (keyaction_remove, keyaction_clear).  A thread
\* that comes back from a callback that moves the highlight finds the widget it called still
\* the active one, and while no such callback runs no other widget shows a highlight: a
\* confirmation meanwhile, or a removal of another widget, changes nothing of it.  Where two
\* such callbacks overlap, or the widget of one is removed (crossed), the code keeps neither.
HighlightFollows ==
    /\ cur_act \in actions \cup {NoWidget}
    /\ ~crossed =>
        /\ \A t \in Callers : Moves(t) => cur_act = call[t].widget
        /\ ~(\E t \in Callers : Moves(t)) => \A w \in Widgets : shows[w] # 0 => w = cur_act

\* keyaction_call_cur_act's comment says of "current action not found in actions!" that it
\* should never be reached: a widget that hands the key on is still the active one when the
\* list is searched for it.
CurrentActionFound ==
    \A t \in Callers :
        call[t].phase = "called" /\ call[t].more /\ call[t].action \in {"up", "down"} => cur_act \in actions
===============================================================================
