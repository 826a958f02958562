----------------------------- MODULE Input_proofs -----------------------------
(***************************************************************************)
(* Keys: however many widgets there are and whatever positions they have,  *)
(* the active widget is a listed one and the only one that shows a         *)
(* highlight.  The invariant says what each thread in a callback may count *)
(* on when it has the lock again, as long as no other step crossed its     *)
(* call.                                                                   *)
(* Touches: however many slots and ids there are, what the handlers know   *)
(* is what is held.  What the loops over lists and slots compute, which    *)
(* the model writes as folds, is proved first, by the least number of      *)
(* steps after which it would not hold.                                    *)
(***************************************************************************)
EXTENDS KeyActions, Touch, ListLemmas

Actions == {"up", "down", "clear", "confirm"}
Calling == [phase : {"calling"}, widget : Widgets, action : Actions]
Answered == [phase : {"called"}, widget : Widgets, action : Actions, more : BOOLEAN]
Calls == {NoCall} \cup Calling \cup Answered

KeysType ==
    /\ actions \subseteq Widgets /\ visible \subseteq Widgets
    /\ cur_act \in actions \cup {NoWidget}
    /\ shows \in [Widgets -> Int]
    /\ repeat \in {"none", "up", "down"}
    /\ call \in [Callers -> Calls]
    /\ crossed \in BOOLEAN

\* A thread that moves the highlight is alone in that, and moves it from the active widget.
OneCall ==
    /\ \A t \in Callers : Moves(t) => cur_act = call[t].widget
    /\ \A t, u \in Callers : Moves(t) /\ Moves(u) => t = u

\* Only the active widget is highlighted, and one that hands the key on is not.
OneHighlight ==
    /\ \A w \in Widgets : shows[w] # 0 => w = cur_act
    /\ \A t \in Callers : Moves(t) /\ call[t] \in Answered /\ call[t].more => shows[call[t].widget] = 0
    /\ \A t \in Callers : call[t] \in Answered /\ call[t].action = "clear" => call[t].more

KeysInv == KeysType /\ (~crossed => OneCall /\ OneHighlight)

LEMMA LeastIn ==
    ASSUME NEW S, S \subseteq Nat, S # {}
    PROVE  Least(S) \in S
BY LeastExists DEF Least

\* And one that is bounded has a greatest.
LEMMA MostIn ==
    ASSUME NEW n \in Nat, NEW S, S \subseteq 1..n, S # {}
    PROVE  Most(S) \in S
<1> DEFINE T == {n - w : w \in S}
<1>1. T \subseteq Nat /\ T # {}
  <2>1. \A w \in S : n - w \in Nat OBVIOUS
  <2>2. PICK w \in S : TRUE OBVIOUS
  <2>3. n - w \in T OBVIOUS
  <2> QED BY <2>1, <2>3
<1>2. PICK m \in T : \A y \in T : m <= y
  <2> HIDE DEF T
  <2> QED BY <1>1, LeastExists
<1>3. PICK x \in S : m = n - x BY <1>2
<1>4. \A w \in S : n - w \in T OBVIOUS
<1>5. \A w \in S : n - x <= n - w BY <1>2, <1>3, <1>4
<1>6. \A w \in S : x >= w BY <1>5
<1> QED BY <1>6 DEF Most

-----------------------------------------------------------------------------
LEMMA WidgetsNat == Len(Positions) \in Nat /\ Widgets \subseteq Nat /\ NoWidget \notin Widgets
BY PositionsAssumption DEF Widgets, NoWidget

LEMMA FollowingIn ==
    ASSUME KeysType, NEW w \in Widgets, NEW action
    PROVE  Following(w, action) \in actions \cup {NoWidget}
<1> DEFINE B == {v \in actions \cap visible : IF action = "up" THEN v < w ELSE v > w}
<1>1. B \subseteq actions /\ B \subseteq Nat /\ B \subseteq 1..Len(Positions)
  BY WidgetsNat DEF KeysType, Widgets
<1>2. CASE B = {} BY <1>2 DEF Following
<1>3. CASE B # {}
  <2>1. Least(B) \in B /\ Most(B) \in B
    <3> HIDE DEF B
    <3> QED BY <1>1, <1>3, LeastIn, MostIn, WidgetsNat
  <2>2. Following(w, action) = IF action = "up" THEN Most(B) ELSE Least(B)
    BY <1>3 DEF Following
  <2> HIDE DEF B
  <2> QED BY <2>1, <2>2, <1>1
<1> QED BY <1>2, <1>3

LEMMA MovedInt ==
    ASSUME KeysType, NEW w \in Widgets, NEW action \in Actions
    PROVE  Moved(w, action) \in Int
<1>1. Positions[w] \in Nat \ {0} BY PositionsAssumption DEF Widgets
<1>2. shows[w] \in Int BY DEF KeysType
<1>3. (shows[w] + 1) % (Positions[w] + 1) \in Int BY <1>1, <1>2
<1> QED BY <1>1, <1>2, <1>3 DEF Moved, Actions

-----------------------------------------------------------------------------
LEMMA InitInv == KeysInit => KeysInv
<1> SUFFICES ASSUME KeysInit PROVE KeysInv OBVIOUS
<1>1. KeysType
  <2>1. NoCall \in Calls BY DEF Calls
  <2>2. call \in [Callers -> Calls] BY <2>1 DEF KeysInit
  <2>3. shows \in [Widgets -> Int] BY DEF KeysInit
  <2> QED BY <2>2, <2>3 DEF KeysInit, KeysType
<1>2. OneCall BY DEF KeysInit, OneCall, Moves
<1>3. OneHighlight
  <2>1. \A t \in Callers : call[t] \notin Answered BY DEF KeysInit, Answered, NoCall
  <2> QED BY <2>1 DEF KeysInit, OneHighlight
<1> QED BY <1>1, <1>2, <1>3 DEF KeysInv

\* A thread takes the active widget to call it.
LEMMA BeginInv ==
    ASSUME KeysInv, NEW t \in Callers, NEW w \in actions, NEW action \in Actions, Begin(t, w, action),
           cur_act' = w, cur_act \in {w, NoWidget}, action = "confirm" => cur_act = w, actions' = actions, visible' = visible, shows' = shows, repeat' = repeat
    PROVE  KeysInv'
<1> DEFINE c == [phase |-> "calling", widget |-> w, action |-> action]
<1>1. c \in Calling /\ c # NoCall /\ c \notin Answered
  BY DEF Calling, Answered, NoCall, KeysInv, KeysType
<1>2. call' = [call EXCEPT ![t] = c] /\ crossed' \in BOOLEAN
  BY DEF Begin
<1> HIDE DEF c
<1>3. KeysType'
  BY <1>1, <1>2 DEF KeysInv, KeysType, Calls
<1>4. ASSUME ~crossed' PROVE (OneCall /\ OneHighlight)'
  <2>1. ~crossed /\ (action = "confirm" \/ \A u \in Callers \ {t} : ~Moves(u)) /\ call[t] = NoCall
    BY <1>4 DEF Begin
  <2>2. OneCall /\ OneHighlight BY <2>1 DEF KeysInv
  <2>3. \A u \in Callers \ {t} : call'[u] = call[u] BY <1>2 DEF KeysInv, KeysType
  <2>4. call'[t] = c BY <1>2 DEF KeysInv, KeysType
  <2>5. c.widget = w /\ c.action = action BY DEF c
  <2>6. \A u \in Callers \ {t} : Moves(u)' <=> Moves(u) BY <2>3 DEF Moves
  <2>7. Moves(t)' <=> action # "confirm" BY <1>1, <2>4, <2>5 DEF Moves
  <2>8. OneCall'
    <3>1. CASE action = "confirm"
      <4>1. cur_act' = cur_act BY <3>1
      <4> QED BY <2>2, <2>3, <2>6, <2>7, <3>1, <4>1 DEF OneCall
    <3>2. CASE action # "confirm"
      <4>1. \A u \in Callers : Moves(u)' => u = t BY <2>1, <2>6, <3>2
      <4> QED BY <4>1, <2>4, <2>5 DEF OneCall
    <3> QED BY <3>1, <3>2
  <2>9. \A u \in Callers : call'[u] \in Answered => u # t /\ call'[u] = call[u]
    BY <2>3, <2>4, <1>1
  <2>10. \A v \in Widgets : shows'[v] # 0 => v = cur_act'
    BY <2>2 , WidgetsNat DEF OneHighlight
  <2> QED BY <2>2, <2>6, <2>8, <2>9, <2>10 DEF OneHighlight
<1> QED BY <1>3, <1>4 DEF KeysInv

\* The phase tells what a call is.
LEMMA Shape ==
    ASSUME KeysType, NEW t \in Callers
    PROVE  /\ call[t].phase = "calling" => call[t] \in Calling
           /\ call[t].phase = "called" => call[t] \in Answered
           /\ call[t].phase # "none" => call[t] # NoCall
<1>1. call[t] \in Calls BY DEF KeysType
<1> QED BY <1>1 DEF Calls, Calling, Answered, NoCall

\* The widget is called: another may only be highlighted when the call was crossed.
LEMMA CalledInv == ASSUME KeysInv, NEW t \in Callers, Called(t) PROVE KeysInv'
<1> DEFINE w == call[t].widget
           a == call[t].action
           m == Moved(w, a)
           c == [phase |-> "called", widget |-> w, action |-> a, more |-> m = 0]
<1>0. KeysType BY DEF KeysInv
<1>1. call[t] \in Calling /\ call[t] # NoCall BY <1>0, Shape DEF Called
<1>2. w \in Widgets /\ a \in Actions BY <1>1 DEF Calling
<1>3. m \in Int BY <1>0, <1>2, MovedInt
<1>4. shows' = [shows EXCEPT ![w] = m] /\ call' = [call EXCEPT ![t] = c] /\ UNCHANGED <<actions, visible, cur_act, repeat, crossed>>
  BY DEF Called
<1>5. a = "clear" => m = 0 BY DEF Moved
<1>6. c \in Answered /\ c # NoCall /\ c.widget = w /\ c.action = a /\ (c.more <=> m = 0)
  BY <1>2 DEF Answered, NoCall
<1> HIDE DEF w, a, m, c
<1>7. KeysType'
  BY <1>0, <1>2, <1>3, <1>4, <1>6 DEF KeysType, Calls
<1>8. ASSUME ~crossed' PROVE (OneCall /\ OneHighlight)'
  <2>1. OneCall /\ OneHighlight BY <1>4, <1>8 DEF KeysInv
  <2>2. call'[t] = c /\ \A u \in Callers \ {t} : call'[u] = call[u]
    BY <1>0, <1>4 DEF KeysType
  <2>3. \A u \in Callers : Moves(u)' <=> Moves(u)
    BY <2>2, <1>1, <1>6 DEF Moves, a
  <2>4. \A u \in Callers : call'[u].widget = call[u].widget BY <2>2, <1>6 DEF w
  <2>5. OneCall' BY <2>1, <2>3, <2>4, <1>4 DEF OneCall
  <2>6. shows'[w] = m BY <1>0, <1>2, <1>4 DEF KeysType
  <2>7. CASE a = "confirm"
    <3>1. m = shows[w] BY <2>7 DEF m, Moved
    <3>2. shows' = shows BY <3>1, <1>0, <1>2, <1>4 DEF KeysType
    <3>3. ~Moves(t)' BY <2>2, <2>7, <1>6 DEF Moves
    <3>4. \A u \in Callers : call'[u] \in Answered /\ call'[u].action = "clear" => call'[u].more
      BY <2>1, <2>2, <2>7, <1>6 DEF OneHighlight
    <3>5. \A u \in Callers : Moves(u)' /\ call'[u] \in Answered /\ call'[u].more => shows'[call'[u].widget] = 0
      BY <2>1, <2>2, <2>3, <3>2, <3>3 DEF OneHighlight
    <3> QED BY <2>1, <2>5, <3>2, <3>4, <3>5, <1>4 DEF OneHighlight
  <2>8. CASE a # "confirm"
    <3>1. Moves(t) BY <1>1, <2>8 DEF Moves, a
    <3>2. cur_act = w /\ \A u \in Callers : Moves(u) => u = t BY <2>1, <3>1 DEF OneCall, w
    <3>3. \A v \in Widgets : shows'[v] # 0 => v = cur_act'
      BY <2>1, <3>2, <1>0, <1>4 DEF OneHighlight, KeysType
    <3>4. \A u \in Callers : Moves(u)' /\ call'[u] \in Answered /\ call'[u].more => shows'[call'[u].widget] = 0
      BY <2>2, <2>3, <2>6, <3>2, <1>6
    <3>5. \A u \in Callers : call'[u] \in Answered /\ call'[u].action = "clear" => call'[u].more
      BY <2>1, <2>2, <1>5, <1>6 DEF OneHighlight
    <3> QED BY <2>5, <3>3, <3>4, <3>5 DEF OneHighlight
  <2> QED BY <2>7, <2>8
<1> QED BY <1>7, <1>8 DEF KeysInv

\* The thread goes on: what handed the key on has no highlight any more, so the next one
\* is alone.
LEMMA CallReturnsInv == ASSUME KeysInv, NEW t \in Callers, CallReturns(t) PROVE KeysInv'
<1> DEFINE c == call[t]
           on == c.more /\ c.action \in {"up", "down"} /\ cur_act \in actions
           other == Following(cur_act, c.action)
<1>0. KeysType BY DEF KeysInv
<1>1. c \in Answered /\ c # NoCall BY <1>0, Shape DEF CallReturns
<1>2. c.widget \in Widgets /\ c.action \in Actions /\ c.more \in BOOLEAN BY <1>1 DEF Answered
<1>3. on => other \in actions \cup {NoWidget} BY <1>0, FollowingIn DEF KeysType
<1>4. other \in actions => Moved(other, c.action) \in Int
  BY <1>0, <1>2, MovedInt DEF KeysType
<1>5. /\ call' = [call EXCEPT ![t] = NoCall]
      /\ shows' = IF on /\ other # NoWidget THEN [shows EXCEPT ![other] = Moved(other, c.action)] ELSE shows
      /\ cur_act' = IF c.action = "clear" THEN NoWidget ELSE IF on THEN other ELSE cur_act
      /\ repeat' = IF c.action = "clear" THEN "none"
                   ELSE IF t = "input" /\ c.action # "confirm" THEN c.action ELSE repeat
      /\ UNCHANGED <<actions, visible, crossed>>
  BY DEF CallReturns
<1>6. on => c.action # "clear" /\ c.more OBVIOUS
<1>11. on => c.action # "confirm" OBVIOUS
<1>7. repeat' \in {"none", "up", "down"}
  <2>1. repeat' = IF c.action = "clear" THEN "none"
                   ELSE IF t = "input" /\ c.action # "confirm" THEN c.action ELSE repeat
    BY <1>5
  <2> HIDE DEF c
  <2>2. CASE c.action = "clear" BY <2>1, <2>2
  <2>3. CASE c.action # "clear" /\ t = "input" /\ c.action # "confirm"
    <3>1. repeat' = c.action BY <2>1, <2>3
    <3> QED BY <3>1, <2>3, <1>2 DEF Actions
  <2>4. CASE c.action # "clear" /\ ~ (t = "input" /\ c.action # "confirm")
    <3>1. repeat' = repeat BY <2>1, <2>4
    <3> QED BY <3>1, <1>0 DEF KeysType
  <2> QED BY <2>2, <2>3, <2>4
<1>8. \A v \in Widgets : on /\ other # NoWidget /\ v # other => shows'[v] = shows[v]
  BY <1>0, <1>3, <1>5 DEF KeysType
<1> HIDE DEF other, on
<1>9. KeysType'
  <2>1. cur_act' \in actions' \cup {NoWidget} BY <1>0, <1>3, <1>5 DEF KeysType
  <2>2. shows' \in [Widgets -> Int] BY <1>0, <1>3, <1>4, <1>5 DEF KeysType
  <2>3. call' \in [Callers -> Calls] BY <1>0, <1>5 DEF KeysType, Calls
  <2> QED BY <1>0, <1>5, <1>7, <2>1, <2>2, <2>3 DEF KeysType
<1>10. ASSUME ~crossed' PROVE (OneCall /\ OneHighlight)'
  <2>1. OneCall /\ OneHighlight BY <1>5, <1>10 DEF KeysInv
  <2>2. call'[t] = NoCall /\ \A u \in Callers \ {t} : call'[u] = call[u] BY <1>0, <1>5 DEF KeysType
  <2>3. NoCall \notin Answered BY DEF NoCall, Answered
  <2>4. ~Moves(t)' /\ \A u \in Callers \ {t} : Moves(u)' <=> Moves(u) BY <2>2 DEF Moves
  <2>5. \A u \in Callers : call'[u] \in Answered /\ call'[u].action = "clear" => call'[u].more
    BY <2>1, <2>2, <2>3 DEF OneHighlight
  <2>6. CASE c.action = "confirm"
    <3>1. ~on /\ UNCHANGED <<shows, cur_act>> BY <2>6, <1>5, <1>11
    <3>2. OneCall' BY <2>1, <2>2, <2>4, <3>1 DEF OneCall
    <3>3. \A u \in Callers : Moves(u)' /\ call'[u] \in Answered /\ call'[u].more => shows'[call'[u].widget] = 0
      BY <2>1, <2>2, <2>4, <3>1 DEF OneHighlight
    <3> QED BY <2>1, <2>5, <3>1, <3>2, <3>3 DEF OneHighlight
  <2>7. CASE c.action # "confirm"
    <3>1. Moves(t) BY <2>7, <1>1 DEF Moves
    <3>2. \A u \in Callers : ~Moves(u)' BY <2>1, <2>4, <3>1 DEF OneCall
    <3>3. cur_act = c.widget BY <2>1, <3>1 DEF OneCall
    <3>4. c.more => \A v \in Widgets : shows[v] = 0
      BY <2>1, <3>1, <3>3, <1>1 DEF OneHighlight
    <3>5. \A v \in Widgets : shows'[v] # 0 => v = cur_act'
      <4>1. CASE on /\ other # NoWidget
        BY <4>1, <3>4, <1>5, <1>6, <1>8
      <4>2. CASE on /\ other = NoWidget
        BY <4>2, <3>4, <1>5, <1>6
      <4>3. CASE ~on /\ c.action = "clear"
        <5>1. c.more BY <4>3, <2>1, <1>1 DEF OneHighlight
        <5> QED BY <4>3, <5>1, <3>4, <1>5
      <4>4. CASE ~on /\ c.action # "clear"
        BY <4>4, <2>1, <1>5 DEF OneHighlight
      <4> QED BY <4>1, <4>2, <4>3, <4>4
    <3> QED BY <2>5, <3>2, <3>5 DEF OneCall, OneHighlight
  <2> QED BY <2>6, <2>7
<1> QED BY <1>9, <1>10 DEF KeysInv

-----------------------------------------------------------------------------
\* What the main thread adds, removes and clears.
LEMMA AddInv == ASSUME KeysInv, NEW w \in Widgets, keyaction_add(w) PROVE KeysInv'
<1>1. actions \subseteq actions' /\ actions' \subseteq Widgets /\ UNCHANGED <<visible, cur_act, shows, repeat, call, crossed>>
  BY DEF KeysInv, KeysType, keyaction_add
<1>2. KeysType' BY <1>1 DEF KeysInv, KeysType
<1>3. OneCall /\ OneHighlight => (OneCall /\ OneHighlight)' BY <1>1 DEF OneCall, OneHighlight, Moves
<1> QED BY <1>1, <1>2, <1>3 DEF KeysInv

LEMMA RemoveInv == ASSUME KeysInv, NEW w \in Widgets, keyaction_remove(w) PROVE KeysInv'
<1>1. KeysType' BY DEF KeysInv, KeysType, keyaction_remove
<1>2. ASSUME ~crossed' PROVE (OneCall /\ OneHighlight)'
  <2>1. ~crossed /\ call' = call /\ \A t \in Callers : Moves(t) => call[t].widget # w
    BY <1>2 DEF keyaction_remove
  <2>2. OneCall /\ OneHighlight BY <2>1 DEF KeysInv
  <2>3. \A t \in Callers : Moves(t)' <=> Moves(t) BY <2>1 DEF Moves
  <2>4. OneCall' BY <2>1, <2>2, <2>3 DEF OneCall, keyaction_remove
  <2>5. \A v \in Widgets : shows'[v] = IF v = w THEN 0 ELSE shows[v]
    BY DEF KeysInv, KeysType, keyaction_remove
  <2>6. \A v \in Widgets : shows'[v] # 0 => v = cur_act'
    BY <2>2, <2>5 DEF OneHighlight, keyaction_remove
  <2>7. \A t \in Callers : call[t] \in Answered => call[t].widget \in Widgets BY DEF Answered
  <2> QED BY <2>1, <2>2, <2>3, <2>4, <2>5, <2>6, <2>7 DEF OneHighlight
<1> QED BY <1>1, <1>2 DEF KeysInv

LEMMA ClearInv == ASSUME KeysInv, keyaction_clear PROVE KeysInv'
<1>1. KeysType' BY DEF KeysInv, KeysType, keyaction_clear
<1>2. ASSUME ~crossed' PROVE (OneCall /\ OneHighlight)'
  <2>1. ~crossed /\ call' = call /\ \A t \in Callers : ~Moves(t)
    BY <1>2 DEF keyaction_clear, Callers, Moves
  <2>2. \A v \in Widgets : shows'[v] = 0 BY DEF keyaction_clear
  <2>3. \A t \in Callers : ~Moves(t)' BY <2>1 DEF Moves
  <2>4. OneHighlight BY <2>1 DEF KeysInv
  <2> QED BY <2>1, <2>2, <2>3, <2>4 DEF OneCall, OneHighlight
<1> QED BY <1>1, <1>2 DEF KeysInv

\* Steps that leave the calls, the highlights and the list alone.
LEMMA QuietInv ==
    ASSUME KeysInv, UNCHANGED <<actions, cur_act, shows, call, crossed>>,
           visible' \subseteq Widgets, repeat' \in {"none", "up", "down"}
    PROVE  KeysInv'
<1>1. KeysType' BY DEF KeysInv, KeysType
<1>2. OneCall /\ OneHighlight => (OneCall /\ OneHighlight)' BY DEF OneCall, OneHighlight, Moves
<1> QED BY <1>1, <1>2 DEF KeysInv

LEMMA StepInv == KeysInv /\ [KeysNext]_keyVars => KeysInv'
<1> SUFFICES ASSUME KeysInv, [KeysNext]_keyVars PROVE KeysInv' OBVIOUS
<1> USE DEF Callers
<1>0. KeysType BY DEF KeysInv
<1>1. ASSUME NEW action \in {"up", "down", "confirm"}, KeyDown(action) PROVE KeysInv'
  <2>1. PICK first : /\ first = (IF cur_act # NoWidget THEN cur_act
                                 ELSE IF action = "down" THEN Least(actions)
                                 ELSE IF action = "up" THEN Most(actions)
                                 ELSE NoWidget)
                     /\ first # NoWidget /\ cur_act' = first /\ Begin("input", first, action)
    BY <1>1 DEF KeyDown
  <2>2. actions # {} /\ UNCHANGED <<actions, visible, shows, repeat>> BY <1>1 DEF KeyDown
  <2>3. actions \subseteq Nat /\ actions \subseteq 1..Len(Positions)
    BY <1>0, WidgetsNat DEF KeysType, Widgets
  <2>4. Least(actions) \in actions /\ Most(actions) \in actions
    BY <2>2, <2>3, LeastIn, MostIn, WidgetsNat
  <2>5. first \in actions /\ cur_act \in {first, NoWidget} /\ (action = "confirm" => cur_act = first)
    BY <2>1, <2>4, <1>0 DEF KeysType
  <2>6. action \in Actions BY DEF Actions
  <2> QED BY <2>1, <2>2, <2>5, <2>6, BeginInv
<1>2. CASE keyaction_clear_active
  <2>1. cur_act \in actions /\ Begin("input", cur_act, "clear") /\ UNCHANGED <<actions, visible, cur_act, shows, repeat>>
    BY <1>0, <1>2 DEF keyaction_clear_active, KeysType
  <2> QED BY <2>1, BeginInv DEF Actions
<1>3. CASE keyaction_repeat_worker
  <2>1. cur_act \in actions /\ Begin("worker", cur_act, repeat) /\ UNCHANGED <<actions, visible, cur_act, shows, repeat>>
    BY <1>0, <1>3 DEF keyaction_repeat_worker, KeysType
  <2>2. repeat \in Actions /\ repeat # "confirm" BY <1>0, <1>3 DEF keyaction_repeat_worker, KeysType, Actions
  <2> QED BY <2>1, <2>2, BeginInv
<1>4. CASE KeyUp BY <1>0, <1>4, QuietInv DEF KeyUp, KeysType
<1>5. CASE Scroll
  <2>1. visible' \subseteq Widgets BY <1>5 DEF Scroll
  <2> QED BY <1>0, <1>5, <2>1, QuietInv DEF Scroll, KeysType
<1>6. ASSUME NEW on \in BOOLEAN, keyaction_enable(on) PROVE KeysInv'
  BY <1>0, <1>6, QuietInv DEF keyaction_enable, KeysType
<1>7. CASE UNCHANGED keyVars
  BY <1>0, <1>7, QuietInv DEF keyVars, KeysType
<1> QED
  BY <1>1, <1>2, <1>3, <1>4, <1>5, <1>6, <1>7, CalledInv, CallReturnsInv, AddInv, RemoveInv, ClearInv DEF KeysNext

\* The strengthened invariant holds of the keys taken alone, whatever order the three
\* threads take them in.
THEOREM KeysSafe == KeysSpec => []KeysInv
<1> QED BY InitInv, StepInv, PTL DEF KeysSpec

\* The active widget is a listed one at any time.  As long as no two callbacks that move the
\* highlight overlapped and the widget of none was removed, it is the one they were called for,
\* and while none runs no other widget shows a highlight, whatever is confirmed or removed
\* besides (keyaction_call_cur_act calls without the lock).
THEOREM HighlightAlways == KeysSpec => []HighlightFollows
<1>1. KeysInv => HighlightFollows
  BY DEF KeysInv, KeysType, OneCall, OneHighlight, HighlightFollows
<1> QED BY <1>1, KeysSafe, PTL

-----------------------------------------------------------------------------
-----------------------------------------------------------------------------
Event == [id : Ids \cup {NoId}, changed : SUBSET Flags]

\* A list without an empty place is walked to its end.
LEMMA WithoutHoles ==
    ASSUME NEW S, NoId \notin S, NEW list \in Seq(S), NEW id
    PROVE  /\ Seen(list) = list
           /\ idlist_add(list, id) = IF id \in Range(list) THEN list ELSE Append(list, id)
           /\ idlist_rm(list, id) = RemoveFirst(list, id)
<1>1. NoId \notin Range(list)
  <2>1. \A i \in DOMAIN list : list[i] \in S OBVIOUS
  <2> QED BY <2>1 DEF Range
<1>2. Seen(list) = list BY <1>1 DEF Seen
<1> QED BY <1>1, <1>2 DEF idlist_add, idlist_rm

-----------------------------------------------------------------------------
Adding(n, base, ids, h) ==
    /\ h[0] = base
    /\ \A k \in 1..n : h[k] = idlist_add(h[k - 1], ids[k])
    /\ FoldLeft(idlist_add, base, ids) = h[n]

LEMMA AddSteps ==
    ASSUME NEW n \in Nat, NEW S, NoId \notin S, NEW ids \in [1..n -> S], NEW base \in Seq(S)
    PROVE  \E h : Adding(n, base, ids, h)
<1> DEFINE F == [p \in Seq(S) \X (1..n) |-> idlist_add(p[1], ids[p[2]])]
           P(g) == g = [s \in SUBSET (1..n) |-> IF s = {} THEN base ELSE idlist_add(g[s \ {Max(s)}], ids[Max(s)])]
           iter == CHOOSE g : P(g)
<1>1. F \in [Seq(S) \X (1..n) -> Seq(S)]
  <2> SUFFICES ASSUME NEW v \in Seq(S), NEW k \in 1..n PROVE idlist_add(v, ids[k]) \in Seq(S) OBVIOUS
  <2>1. ids[k] \in S OBVIOUS
  <2> QED BY <2>1, AppendProperties, WithoutHoles
<1>2. \E g : P(g)
  <2>1. PICK g : FoldsUp(n, Seq(S), base, F, g)
    <3> HIDE DEF F
    <3> QED BY <1>1, FoldExists
  <2>0. /\ g \in [SUBSET (1..n) -> Seq(S)]
        /\ \A s \in SUBSET (1..n) : g[s] = IF s = {} THEN base ELSE F[<<g[s \ {Max(s)}], Max(s)>>]
    <3> HIDE DEF F
    <3> QED BY <2>1 DEF FoldsUp
  <2>2. ASSUME NEW s \in SUBSET (1..n), s # {}
        PROVE  F[<<g[s \ {Max(s)}], Max(s)>>] = idlist_add(g[s \ {Max(s)}], ids[Max(s)])
    <3>1. Max(s) \in 1..n BY <2>2, MaxIn
    <3>2. g[s \ {Max(s)}] \in Seq(S) BY <2>0
    <3> QED BY <3>1, <3>2
  <2> HIDE DEF F
  <2>3. g = [s \in SUBSET (1..n) |-> IF s = {} THEN base ELSE idlist_add(g[s \ {Max(s)}], ids[Max(s)])]
    BY <2>0, <2>2
  <2> QED BY <2>3
<1>3. P(iter)
  <2> HIDE DEF P
  <2> QED BY <1>2
<1>4. FoldLeft(idlist_add, base, ids) = iter[1..n]
  <2>1. DOMAIN ids = 1..n OBVIOUS
  <2> QED BY <2>1 DEF FoldLeft, MapThenFoldSet
<1>5. \A s \in SUBSET (1..n) : iter[s] = IF s = {} THEN base ELSE idlist_add(iter[s \ {Max(s)}], ids[Max(s)])
  <2> HIDE DEF iter
  <2> QED BY <1>3
<1> DEFINE h == [k \in 0..n |-> iter[1..k]]
<1>6. h[0] = base
  <2> HIDE DEF iter
  <2>1. 1..0 = {} /\ 1..0 \in SUBSET (1..n) /\ 0 \in 0..n OBVIOUS
  <2> QED BY <2>1, <1>5
<1>7. ASSUME NEW k \in 1..n PROVE h[k] = idlist_add(h[k - 1], ids[k])
  <2> HIDE DEF iter
  <2>1. k \in 0..n /\ k - 1 \in 0..n /\ 1..k \in SUBSET (1..n) /\ 1..k # {} /\ (1..k) \ {k} = 1..(k - 1)
    BY FirstOnes
  <2>2. Max(1..k) = k BY MaxUpTo
  <2>3. iter[1..k] = idlist_add(iter[(1..k) \ {Max(1..k)}], ids[Max(1..k)]) BY <2>1, <1>5
  <2> QED BY <2>1, <2>2, <2>3
<1>8. h[n] = iter[1..n] OBVIOUS
<1> HIDE DEF iter, h
<1> QED BY <1>4, <1>6, <1>7, <1>8 DEF Adding

Removing(n, base, ids, h) ==
    /\ h[0] = base
    /\ \A k \in 1..n : h[k] = idlist_rm(h[k - 1], ids[k])
    /\ FoldLeft(idlist_rm, base, ids) = h[n]

LEMMA RemoveSteps ==
    ASSUME NEW n \in Nat, NEW S, NoId \notin S, NEW ids \in [1..n -> S], NEW base \in Seq(S)
    PROVE  \E h : Removing(n, base, ids, h)
<1> DEFINE F == [p \in Seq(S) \X (1..n) |-> idlist_rm(p[1], ids[p[2]])]
           P(g) == g = [s \in SUBSET (1..n) |-> IF s = {} THEN base ELSE idlist_rm(g[s \ {Max(s)}], ids[Max(s)])]
           iter == CHOOSE g : P(g)
<1>1. F \in [Seq(S) \X (1..n) -> Seq(S)]
  <2> SUFFICES ASSUME NEW v \in Seq(S), NEW k \in 1..n PROVE idlist_rm(v, ids[k]) \in Seq(S) OBVIOUS
  <2>1. ids[k] \in S OBVIOUS
  <2> QED BY <2>1, RemovesOne, WithoutHoles
<1>2. \E g : P(g)
  <2>1. PICK g : FoldsUp(n, Seq(S), base, F, g)
    <3> HIDE DEF F
    <3> QED BY <1>1, FoldExists
  <2>0. /\ g \in [SUBSET (1..n) -> Seq(S)]
        /\ \A s \in SUBSET (1..n) : g[s] = IF s = {} THEN base ELSE F[<<g[s \ {Max(s)}], Max(s)>>]
    <3> HIDE DEF F
    <3> QED BY <2>1 DEF FoldsUp
  <2>2. ASSUME NEW s \in SUBSET (1..n), s # {}
        PROVE  F[<<g[s \ {Max(s)}], Max(s)>>] = idlist_rm(g[s \ {Max(s)}], ids[Max(s)])
    <3>1. Max(s) \in 1..n BY <2>2, MaxIn
    <3>2. g[s \ {Max(s)}] \in Seq(S) BY <2>0
    <3> QED BY <3>1, <3>2
  <2> HIDE DEF F
  <2>3. g = [s \in SUBSET (1..n) |-> IF s = {} THEN base ELSE idlist_rm(g[s \ {Max(s)}], ids[Max(s)])]
    BY <2>0, <2>2
  <2> QED BY <2>3
<1>3. P(iter)
  <2> HIDE DEF P
  <2> QED BY <1>2
<1>4. FoldLeft(idlist_rm, base, ids) = iter[1..n]
  <2>1. DOMAIN ids = 1..n OBVIOUS
  <2> QED BY <2>1 DEF FoldLeft, MapThenFoldSet
<1>5. \A s \in SUBSET (1..n) : iter[s] = IF s = {} THEN base ELSE idlist_rm(iter[s \ {Max(s)}], ids[Max(s)])
  <2> HIDE DEF iter
  <2> QED BY <1>3
<1> DEFINE h == [k \in 0..n |-> iter[1..k]]
<1>6. h[0] = base
  <2> HIDE DEF iter
  <2>1. 1..0 = {} /\ 1..0 \in SUBSET (1..n) /\ 0 \in 0..n OBVIOUS
  <2> QED BY <2>1, <1>5
<1>7. ASSUME NEW k \in 1..n PROVE h[k] = idlist_rm(h[k - 1], ids[k])
  <2> HIDE DEF iter
  <2>1. k \in 0..n /\ k - 1 \in 0..n /\ 1..k \in SUBSET (1..n) /\ 1..k # {} /\ (1..k) \ {k} = 1..(k - 1)
    BY FirstOnes
  <2>2. Max(1..k) = k BY MaxUpTo
  <2>3. iter[1..k] = idlist_rm(iter[(1..k) \ {Max(1..k)}], ids[Max(1..k)]) BY <2>1, <1>5
  <2> QED BY <2>1, <2>2, <2>3
<1>8. h[n] = iter[1..n] OBVIOUS
<1> HIDE DEF iter, h
<1> QED BY <1>4, <1>6, <1>7, <1>8 DEF Removing

-----------------------------------------------------------------------------
\* Of a list that holds one of each, idlist_add makes that list.
LEMMA Collects ==
    ASSUME NEW S, NoId \notin S, NEW ids \in Seq(S), OneOfEach(ids)
    PROVE  FoldLeft(idlist_add, <<>>, ids) = ids
<1> DEFINE n == Len(ids)
<1>1. n \in Nat /\ ids \in [1..n -> S] /\ DOMAIN ids = 1..n OBVIOUS
<1>2. <<>> \in Seq(S) OBVIOUS
<1>0. PICK h : Adding(n, <<>>, ids, h)
  <2> HIDE DEF n
  <2> QED BY <1>1, <1>2, AddSteps
<1>3. /\ h[0] = <<>> /\ (\A k \in 1..n : h[k] = idlist_add(h[k - 1], ids[k]))
      /\ FoldLeft(idlist_add, <<>>, ids) = h[n]
  BY <1>0 DEF Adding
<1> HIDE DEF n
<1> DEFINE First(k) == [i \in 1..k |-> ids[i]]
           T == {k \in 0..n : h[k] = First(k)}
<1>4. 0 \in T BY <1>1, <1>3
<1>5. ASSUME NEW k \in 0..(n - 1), k \in T PROVE k + 1 \in T
  <2>1. k + 1 \in 1..n /\ k + 1 \in 0..n /\ k + 1 - 1 = k /\ k \in Nat /\ \A i \in 1..k : i \in 1..n BY <1>1
  <2>2. h[k + 1] = idlist_add(First(k), ids[k + 1]) BY <2>1, <1>3, <1>5
  <2>3. First(k) \in Seq(S) /\ Len(First(k)) = k /\ DOMAIN First(k) = 1..k
    <3>1. First(k) \in [1..k -> S] BY <2>1, <1>1
    <3> HIDE DEF First
    <3> QED BY <3>1, <2>1
  <2>4. ids[k + 1] \notin Range(First(k))
    <3> SUFFICES ASSUME NEW i \in 1..k, ids[i] = ids[k + 1] PROVE FALSE BY <2>3 DEF Range
    <3>1. i \in 1..n /\ i # k + 1 BY <2>1
    <3> QED BY <3>1, <2>1, <1>1 DEF OneOfEach
  <2>5. h[k + 1] = Append(First(k), ids[k + 1])
    <3> HIDE DEF First
    <3> QED BY <2>2, <2>3, <2>4, WithoutHoles
  <2>6. Append(First(k), ids[k + 1]) = First(k + 1)
    <3>1. ids[k + 1] \in S BY <2>1, <1>1
    <3> QED BY <2>1, <2>3, <3>1
  <2> QED BY <2>1, <2>5, <2>6
<1>6. n \in T
  <2> HIDE DEF T
  <2>1. \A k \in 0..n : k \in T BY <1>1, <1>4, <1>5, UpTo
  <2> QED BY <2>1, <1>1
<1>7. First(n) = ids BY <1>1
<1> QED BY <1>3, <1>6, <1>7

\* idlist_rm, for each of ids in turn, leaves the rest.
LEMMA LeavesTheRest ==
    ASSUME NEW S, NoId \notin S, NEW ids \in Seq(S), NEW list \in Seq(S), OneOfEach(list)
    PROVE  LET rest == FoldLeft(idlist_rm, list, ids)
           IN  rest \in Seq(S) /\ OneOfEach(rest) /\ Range(rest) = Range(list) \ Range(ids)
<1> DEFINE n == Len(ids)
<1>1. n \in Nat /\ ids \in [1..n -> S] /\ DOMAIN ids = 1..n OBVIOUS
<1>0. PICK h : Removing(n, list, ids, h)
  <2> HIDE DEF n
  <2> QED BY <1>1, RemoveSteps
<1>2. /\ h[0] = list /\ (\A k \in 1..n : h[k] = idlist_rm(h[k - 1], ids[k]))
      /\ FoldLeft(idlist_rm, list, ids) = h[n]
  BY <1>0 DEF Removing
<1> HIDE DEF n
<1> DEFINE First(k) == {ids[i] : i \in 1..k}
           Rest(l, k) == l \in Seq(S) /\ OneOfEach(l) /\ Range(l) = Range(list) \ First(k)
           T == {k \in 0..n : Rest(h[k], k)}
<1>3. 0 \in T
  <2>1. First(0) = {} OBVIOUS
  <2>2. 0 \in 0..n BY <1>1
  <2> HIDE DEF First
  <2> QED BY <2>1, <2>2, <1>2
<1>4. ASSUME NEW k \in 0..(n - 1), k \in T PROVE k + 1 \in T
  <2>1. k + 1 \in 1..n /\ k + 1 \in 0..n /\ k + 1 - 1 = k /\ k \in Nat BY <1>1
  <2>2. h[k + 1] = idlist_rm(h[k], ids[k + 1]) BY <2>1, <1>2
  <2>3. First(k + 1) = First(k) \cup {ids[k + 1]}
    <3>1. 1..(k + 1) = (1..k) \cup {k + 1} BY <2>1
    <3> QED BY <3>1
  <2>4. Rest(h[k], k) BY <1>4
  <2> HIDE DEF First
  <2>5. h[k + 1] \in Seq(S) /\ OneOfEach(h[k + 1]) /\ Range(h[k + 1]) = Range(h[k]) \ {ids[k + 1]}
    BY <2>2, <2>4, RemovesOne, WithoutHoles
  <2> QED BY <2>1, <2>3, <2>4, <2>5
<1>5. n \in T
  <2> HIDE DEF T
  <2>1. \A k \in 0..n : k \in T BY <1>1, <1>3, <1>4, UpTo
  <2> QED BY <2>1, <1>1
<1>6. First(n) = Range(ids) BY <1>1 DEF Range
<1> HIDE DEF First
<1> QED BY <1>2, <1>5, <1>6

\* What is still to be told: the flags of a slot are cleared when it is.
Added(ev) == {ev[s].id : s \in {r \in DOMAIN ev : "added" \in ev[r].changed}}
Removed(ev) == {ev[s].id : s \in {r \in DOMAIN ev : "removed" \in ev[r].changed}}

-----------------------------------------------------------------------------
TouchType ==
    /\ driver \in {"A", "B"} /\ handlers \in BOOLEAN /\ unheard \in BOOLEAN
    /\ next \in 0..MAX_FINGERS
    /\ contacts \in [Slots -> Ids \cup {NoId}]
    /\ mt_events \in [Slots -> Event]
    /\ active_touches \in Seq(Ids)

\* No finger has two slots.
OneSlotEach == \A s, r \in Slots : s # r /\ contacts[s] # NoId => contacts[s] # contacts[r]

\* What the driver's side keeps of the last frame: type A its ids, type B each slot's.
LastFrame ==
    /\ curr_touches = <<>> /\ Len(active_touches) <= MAX_FINGERS
    /\ driver = "A" => OneOfEach(active_touches) /\ Range(active_touches) = Held
    /\ driver = "B" => \A s \in Slots : contacts[s] # NoId => mt_events[s].id = contacts[s]

\* No flag is left in a slot that was committed, and what the others are still to be told of
\* makes what is held of what the handlers know.
AllHeard ==
    ~unheard =>
        /\ \A s \in Slots : next = 0 \/ s < next => mt_events[s].changed = {}
        /\ Added(mt_events) \cap Removed(mt_events) = {}
        /\ Held = (down \cup Added(mt_events)) \ Removed(mt_events)

TouchInv == lost \in BOOLEAN /\ (~lost => TouchType /\ OneSlotEach /\ LastFrame /\ AllHeard)

Holding(c) == {c[s] : s \in Slots} \ {NoId}

LEMMA SlotsNat == Slots = 1..MAX_FINGERS /\ MAX_FINGERS \in Nat /\ NoId \notin Ids /\ IsFiniteSet(Ids)
BY TouchAssumption DEF Slots, NoId

LEMMA TouchInitInv == TouchInit => TouchInv
<1> SUFFICES ASSUME TouchInit PROVE TouchInv OBVIOUS
<1>1. NoEvent \in Event BY DEF NoEvent, Event
<1>2. TouchType
  <2>1. <<>> \in Seq(Ids) OBVIOUS
  <2>2. mt_events \in [Slots -> Event] BY <1>1 DEF TouchInit
  <2>3. contacts \in [Slots -> Ids \cup {NoId}] BY DEF TouchInit
  <2>4. next \in 0..MAX_FINGERS BY SlotsNat DEF TouchInit
  <2> QED BY <2>1, <2>2, <2>3, <2>4 DEF TouchInit, TouchType
<1>3. Held = {} /\ \A s \in Slots : contacts[s] = NoId BY DEF TouchInit, Held
<1>4. Range(active_touches) = {} /\ OneOfEach(active_touches) /\ curr_touches = <<>>
  BY DEF TouchInit, Range, OneOfEach
<1>8. Len(active_touches) <= MAX_FINGERS BY SlotsNat DEF TouchInit
<1>5. \A s \in Slots : mt_events[s].changed = {} BY DEF TouchInit, NoEvent
<1>6. down = {} /\ lost = FALSE BY DEF TouchInit
<1>7. Added(mt_events) = {} /\ Removed(mt_events) = {} BY <1>2, <1>5 DEF Added, Removed, TouchType
<1> QED BY <1>2, <1>3, <1>4, <1>5, <1>6, <1>7, <1>8 DEF TouchInv, OneSlotEach, LastFrame, AllHeard

\* As many slots hold no more contacts than they are.
LEMMA AtMostSlots ==
    ASSUME NEW c \in [Slots -> Ids \cup {NoId}]
    PROVE  Cardinality(Holding(c)) <= MAX_FINGERS
<1> DEFINE f == [s \in {r \in Slots : c[r] # NoId} |-> c[s]]
           S == {r \in Slots : c[r] # NoId}
<1>1. IsFiniteSet(Slots) /\ Cardinality(Slots) = MAX_FINGERS BY SlotsNat, FS_Interval, TouchAssumption
<1>2. IsFiniteSet(S) /\ Cardinality(S) <= MAX_FINGERS /\ Cardinality(S) \in Nat
  <2>1. S \subseteq Slots OBVIOUS
  <2> HIDE DEF S
  <2> QED BY <1>1, <2>1, FS_Subset, FS_CardinalityType
<1>3. f \in Surjection(S, Holding(c)) BY DEF Surjection, Holding
<1> HIDE DEF f, S
<1>4. IsFiniteSet(Holding(c)) /\ Cardinality(Holding(c)) <= Cardinality(S) BY <1>2, <1>3, FS_Surjection
<1>5. Cardinality(Holding(c)) \in Nat BY <1>4, FS_CardinalityType
<1> QED BY <1>2, <1>4, <1>5, SlotsNat

LEMMA FingersAre ==
    ASSUME TouchType, NEW c \in Fingers
    PROVE  /\ c \in [Slots -> Ids \cup {NoId}]
           /\ \A s, r \in Slots : s # r /\ c[s] # NoId => c[s] # c[r]
           /\ driver = "B" => /\ \A s \in Slots : contacts[s] = NoId \/ c[s] \in {contacts[s], NoId}
                              /\ \A s \in Slots : c[s] \in Held => c[s] = contacts[s]
           /\ Holding(c) \subseteq Ids /\ Held \subseteq Ids
           /\ IsFiniteSet(Holding(c)) /\ IsFiniteSet(Held \ Holding(c))
<1>1. /\ c \in [Slots -> Ids \cup {NoId}]
      /\ \A s, r \in Slots : s # r /\ c[s] # NoId => c[s] # c[r]
      /\ driver = "B" => /\ \A s \in Slots : contacts[s] = NoId \/ c[s] \in {contacts[s], NoId}
                         /\ \A s \in Slots : c[s] \in Held => c[s] = contacts[s]
  BY DEF Fingers
<1>2. Holding(c) \subseteq Ids BY <1>1 DEF Holding
<1>3. Held \subseteq Ids BY DEF Held, TouchType
<1>5. IsFiniteSet(Holding(c)) BY <1>2, SlotsNat, FS_Subset
<1>6. IsFiniteSet(Held \ Holding(c)) BY <1>3, SlotsNat, FS_Subset
<1> QED BY <1>1, <1>2, <1>3, <1>5, <1>6

\* Between two frames nothing is left to be told.
LEMMA Idle ==
    ASSUME TouchType, AllHeard, next = 0, ~unheard
    PROVE  down = Held /\ \A s \in Slots : mt_events[s].changed = {}
<1>1. \A s \in Slots : mt_events[s].changed = {} BY DEF AllHeard
<1>2. Added(mt_events) = {} /\ Removed(mt_events) = {} BY <1>1 DEF Added, Removed, TouchType
<1> QED BY <1>1, <1>2 DEF AllHeard

-----------------------------------------------------------------------------
\* Type A: what is new in a frame is added, and what is missing is removed.
LEMMA CompareA ==
    ASSUME TouchInv, ~lost, next = 0, driver = "A", NEW c \in Fingers, ~Overflow(c), NEW ev,
           ev = handle_syn_event_A(handle_abs_event_A(c), c)
    PROVE  /\ ev \in [Slots -> Event]
           /\ ~unheard => Added(ev) = Holding(c) \ Held /\ Removed(ev) = Held \ Holding(c)
<1> DEFINE r == Reported(c)
           gone == gone_now(c)
<1>1. /\ r \in Seq(Holding(c)) /\ OneOfEach(r) /\ Range(r) = Holding(c)
      /\ Len(r) = Cardinality(Holding(c))
  <2>1. r = SetToSeq(Holding(c)) BY DEF Reported, Holding
  <2> QED BY <2>1, FingersAre, Listed DEF TouchInv
<1>2. r \in Seq(Ids)
  <2> HIDE DEF r
  <2>1. Holding(c) \subseteq Ids BY FingersAre DEF TouchInv
  <2> QED BY <1>1, <2>1
<1>3. /\ active_touches \in Seq(Ids) /\ OneOfEach(active_touches) /\ Range(active_touches) = Held
      /\ mt_events \in [Slots -> Event]
  BY DEF TouchInv, TouchType, LastFrame
<1>4. gone \in Seq(Ids) /\ OneOfEach(gone) /\ Range(gone) = Held \ Holding(c)
  <2>1. gone = FoldLeft(idlist_rm, active_touches, r) BY DEF gone_now
  <2> HIDE DEF r, gone
  <2> QED BY <2>1, <1>1, <1>2, <1>3, LeavesTheRest, SlotsNat
<1>11. Seen(gone) = gone /\ Seen(active_touches) = active_touches
  <2> HIDE DEF r, gone
  <2> QED BY <1>3, <1>4, SlotsNat, WithoutHoles
<1>12. Len(r) + Len(gone) <= MAX_FINGERS
  <2>1. ~(Len(r) + Len(gone) > MAX_FINGERS) BY DEF Overflow
  <2> HIDE DEF r, gone
  <2> QED BY <2>1, <1>2, <1>4, SlotsNat
<1> HIDE DEF gone, r
<1> DEFINE n == Len(r)
           m == Len(gone)
<1>5. n \in Nat /\ m \in Nat /\ n + m <= MAX_FINGERS
  BY <1>2, <1>4, <1>12
<1>6. DOMAIN r = 1..n /\ DOMAIN gone = 1..m BY <1>2, <1>4
<1>7. ev = [s \in Slots |->
              IF s <= n
              THEN IF r[s] \in Held THEN [id |-> r[s], changed |-> mt_events[s].changed \cup {"pos"}]
                   ELSE [id |-> r[s], changed |-> mt_events[s].changed \cup {"pos"} \cup {"added"}]
              ELSE IF s <= n + m THEN [id |-> gone[s - n], changed |-> {"removed"}]
              ELSE mt_events[s]]
  <2> DEFINE e == handle_abs_event_A(c)
  <2>1. ev = [s \in Slots |->
                IF s <= n
                THEN IF r[s] \in Held THEN e[s] ELSE [e[s] EXCEPT !.changed = @ \cup {"added"}]
                ELSE IF s <= n + m THEN [id |-> gone[s - n], changed |-> {"removed"}]
                ELSE e[s]]
    BY <1>3, <1>11 DEF handle_syn_event_A, gone, r
  <2>2. \A s \in Slots : e[s] = IF s <= n THEN [id |-> r[s], changed |-> mt_events[s].changed \cup {"pos"}]
                                ELSE mt_events[s]
    BY DEF handle_abs_event_A, r
  <2> HIDE DEF e, n, m
  <2>3. \A s \in Slots : s <= n => [e[s] EXCEPT !.changed = @ \cup {"added"}] =
            [id |-> r[s], changed |-> mt_events[s].changed \cup {"pos"} \cup {"added"}]
    <3>1. \A x, f : [[id |-> x, changed |-> f] EXCEPT !.changed = @ \cup {"added"}] =
              [id |-> x, changed |-> f \cup {"added"}]
      OBVIOUS
    <3> SUFFICES ASSUME NEW s \in Slots, s <= n
                 PROVE  [e[s] EXCEPT !.changed = @ \cup {"added"}] =
                          [id |-> r[s], changed |-> mt_events[s].changed \cup {"pos"} \cup {"added"}]
      OBVIOUS
    <3>2. e[s] = [id |-> r[s], changed |-> mt_events[s].changed \cup {"pos"}] BY <2>2
    <3> QED BY <3>1, <3>2
  <2> QED BY <2>1, <2>2, <2>3
<1> HIDE DEF n, m
<1>8. ASSUME NEW s \in Slots
      PROVE  /\ s <= n => r[s] \in Holding(c) /\ r[s] \in Ids
             /\ n < s /\ s <= n + m => gone[s - n] \in Held \ Holding(c) /\ gone[s - n] \in Ids
  <2>1. s \in Nat /\ s >= 1 BY SlotsNat
  <2>2. CASE s <= n
    <3>1. s \in 1..n BY <2>1, <2>2, <1>5
    <3>2. r[s] \in Range(r) BY <3>1, <1>6 DEF Range
    <3> QED BY <3>2, <2>2, <1>5, <2>1, <1>1, <1>2, <1>6, <3>1, FingersAre DEF TouchInv
  <2>3. CASE n < s /\ s <= n + m
    <3>1. s - n \in 1..m BY <2>1, <2>3, <1>5
    <3>2. gone[s - n] \in Range(gone) BY <3>1, <1>6 DEF Range
    <3>3. gone[s - n] \in Ids BY <3>1, <1>4 DEF m
    <3> QED BY <3>2, <3>3, <2>3, <1>5, <2>1, <1>4
  <2> QED BY <2>1, <2>2, <2>3, <1>5
<1>9. ev \in [Slots -> Event]
  <2> SUFFICES ASSUME NEW s \in Slots PROVE ev[s] \in Event BY <1>7
  <2>1. s \in Nat /\ mt_events[s] \in Event BY SlotsNat, <1>3
  <2>2. CASE s <= n BY <2>2, <2>1, <1>7, <1>8 DEF Event, Flags
  <2>3. CASE n < s /\ s <= n + m BY <2>3, <2>1, <1>5, <1>7, <1>8 DEF Event, Flags
  <2>4. CASE n + m < s BY <2>4, <2>1, <1>5, <1>7
  <2> QED BY <2>1, <2>2, <2>3, <2>4, <1>5
<1>10. ASSUME ~unheard PROVE Added(ev) = Holding(c) \ Held /\ Removed(ev) = Held \ Holding(c)
  <2>1. \A s \in Slots : mt_events[s].changed = {} BY <1>10, Idle DEF TouchInv
  <2>2. DOMAIN ev = Slots BY <1>7
  <2>3. ASSUME NEW s \in Slots
        PROVE  /\ "added" \in ev[s].changed <=> s <= n /\ r[s] \notin Held
               /\ "removed" \in ev[s].changed <=> n < s /\ s <= n + m
               /\ s <= n => ev[s].id = r[s]
               /\ n < s /\ s <= n + m => ev[s].id = gone[s - n]
    <3>1. s \in Nat BY SlotsNat
    <3>2. CASE s <= n BY <3>2, <3>1, <1>5, <1>7, <2>1
    <3>3. CASE n < s /\ s <= n + m BY <3>3, <3>1, <1>5, <1>7, <2>1
    <3>4. CASE n + m < s BY <3>4, <3>1, <1>5, <1>7, <2>1
    <3> QED BY <3>1, <3>2, <3>3, <3>4, <1>5
  <2>4. ASSUME NEW x \in Added(ev) PROVE x \in Holding(c) \ Held
    <3>1. PICK s \in Slots : "added" \in ev[s].changed /\ x = ev[s].id BY <2>2 DEF Added
    <3> QED BY <3>1, <2>3, <1>8
  <2>5. ASSUME NEW x \in Holding(c) \ Held PROVE x \in Added(ev)
    <3>1. PICK s \in 1..n : r[s] = x BY <1>1, <1>6 DEF Range
    <3>2. s \in Slots /\ s <= n BY <1>5, SlotsNat
    <3> QED BY <3>1, <3>2, <2>2, <2>3 DEF Added
  <2>6. ASSUME NEW x \in Removed(ev) PROVE x \in Held \ Holding(c)
    <3>1. PICK s \in Slots : "removed" \in ev[s].changed /\ x = ev[s].id BY <2>2 DEF Removed
    <3> QED BY <3>1, <2>3, <1>8
  <2>7. ASSUME NEW x \in Held \ Holding(c) PROVE x \in Removed(ev)
    <3>1. PICK i \in 1..m : gone[i] = x BY <1>4, <1>6 DEF Range
    <3>2. i + n \in Slots /\ n < i + n /\ i + n <= n + m /\ i + n - n = i BY <1>5, SlotsNat
    <3>3. PICK k : k = i + n OBVIOUS
    <3>4. k \in Slots /\ n < k /\ k <= n + m /\ k - n = i BY <3>2, <3>3, <1>5, SlotsNat
    <3>5. "removed" \in ev[k].changed /\ ev[k].id = gone[k - n] BY <3>4, <2>3
    <3> QED BY <3>1, <3>4, <3>5, <2>2 DEF Removed
  <2> QED BY <2>4, <2>5, <2>6, <2>7
<1> QED BY <1>9, <1>10

\* Type B: so it is with the slots that were taken and left.
LEMMA CompareB ==
    ASSUME TouchInv, ~lost, next = 0, driver = "B", NEW c \in Fingers, NEW ev, ev = handle_abs_event_B(c)
    PROVE  /\ ev \in [Slots -> Event]
           /\ \A s \in Slots : c[s] # NoId => ev[s].id = c[s]
           /\ ~unheard => Added(ev) = Holding(c) \ Held /\ Removed(ev) = Held \ Holding(c)
<1>1. /\ c \in [Slots -> Ids \cup {NoId}]
      /\ \A s \in Slots : contacts[s] = NoId \/ c[s] \in {contacts[s], NoId}
      /\ \A s \in Slots : c[s] \in Held => c[s] = contacts[s]
  BY FingersAre DEF TouchInv
<1>2. /\ contacts \in [Slots -> Ids \cup {NoId}] /\ mt_events \in [Slots -> Event]
      /\ \A s \in Slots : contacts[s] # NoId => mt_events[s].id = contacts[s]
      /\ \A s, r \in Slots : s # r /\ contacts[s] # NoId => contacts[s] # contacts[r]
  BY DEF TouchInv, TouchType, LastFrame, OneSlotEach
<1>3. \A s \in Slots : mt_events[s].id \in Ids \cup {NoId} /\ mt_events[s].changed \in SUBSET Flags
  BY <1>2 DEF Event
<1>4. ASSUME NEW s \in Slots
      PROVE  ev[s] = [id |-> IF c[s] # NoId /\ contacts[s] = NoId THEN c[s] ELSE mt_events[s].id,
                      changed |-> mt_events[s].changed \cup
                          (IF c[s] # NoId /\ contacts[s] = NoId THEN {"added", "pos"}
                           ELSE IF c[s] = NoId /\ contacts[s] # NoId THEN {"removed"}
                           ELSE IF c[s] # NoId THEN {"pos"} ELSE {})]
  BY <1>2 DEF handle_abs_event_B, Event
<1>9. ASSUME NEW s \in Slots
      PROVE  /\ ev[s].id = IF c[s] # NoId /\ contacts[s] = NoId THEN c[s] ELSE mt_events[s].id
             /\ ev[s].changed = mt_events[s].changed \cup
                    (IF c[s] # NoId /\ contacts[s] = NoId THEN {"added", "pos"}
                     ELSE IF c[s] = NoId /\ contacts[s] # NoId THEN {"removed"}
                     ELSE IF c[s] # NoId THEN {"pos"} ELSE {})
             /\ ev[s] = [id |-> ev[s].id, changed |-> ev[s].changed]
  <2> DEFINE x == IF c[s] # NoId /\ contacts[s] = NoId THEN c[s] ELSE mt_events[s].id
             f == mt_events[s].changed \cup
                    (IF c[s] # NoId /\ contacts[s] = NoId THEN {"added", "pos"}
                     ELSE IF c[s] = NoId /\ contacts[s] # NoId THEN {"removed"}
                     ELSE IF c[s] # NoId THEN {"pos"} ELSE {})
  <2>1. ev[s] = [id |-> x, changed |-> f] BY <1>4
  <2> HIDE DEF x, f
  <2>2. ev[s].id = x /\ ev[s].changed = f BY <2>1
  <2> QED BY <2>1, <2>2 DEF x, f
<1>5. DOMAIN ev = Slots /\ ev = [s \in Slots |-> ev[s]] BY DEF handle_abs_event_B
<1>6. ev \in [Slots -> Event]
  <2> SUFFICES ASSUME NEW s \in Slots PROVE ev[s] \in Event BY <1>5
  <2>1. ev[s].id \in Ids \cup {NoId} BY <1>1, <1>3, <1>9
  <2>2. ev[s].changed \in SUBSET Flags
    <3>1. mt_events[s].changed \in SUBSET Flags BY <1>3
    <3> QED BY <3>1, <1>9 DEF Flags
  <2>3. ev[s] = [id |-> ev[s].id, changed |-> ev[s].changed] BY <1>9
  <2> QED BY <2>1, <2>2, <2>3 DEF Event
<1>7. \A s \in Slots : c[s] # NoId => ev[s].id = c[s] BY <1>1, <1>2, <1>9
<1>8. ASSUME ~unheard PROVE Added(ev) = Holding(c) \ Held /\ Removed(ev) = Held \ Holding(c)
  <2>1. \A s \in Slots : mt_events[s].changed = {} BY <1>8, Idle DEF TouchInv
  <2>2. \A s \in Slots : /\ "added" \in ev[s].changed <=> c[s] # NoId /\ contacts[s] = NoId
                         /\ "removed" \in ev[s].changed <=> c[s] = NoId /\ contacts[s] # NoId
    <3> SUFFICES ASSUME NEW s \in Slots
                 PROVE  /\ "added" \in ev[s].changed <=> c[s] # NoId /\ contacts[s] = NoId
                        /\ "removed" \in ev[s].changed <=> c[s] = NoId /\ contacts[s] # NoId
      OBVIOUS
    <3>1. ev[s].changed = IF c[s] # NoId /\ contacts[s] = NoId THEN {"added", "pos"}
                          ELSE IF c[s] = NoId /\ contacts[s] # NoId THEN {"removed"}
                          ELSE IF c[s] # NoId THEN {"pos"} ELSE {}
      BY <2>1, <1>9
    <3>2. CASE c[s] # NoId /\ contacts[s] = NoId BY <3>1, <3>2
    <3>3. CASE c[s] = NoId /\ contacts[s] # NoId BY <3>1, <3>3
    <3>4. CASE c[s] # NoId /\ contacts[s] # NoId BY <3>1, <3>4
    <3>5. CASE c[s] = NoId /\ contacts[s] = NoId BY <3>1, <3>5
    <3> QED BY <3>2, <3>3, <3>4, <3>5
  <2>3. \A x : x \in Held <=> x # NoId /\ \E s \in Slots : contacts[s] = x BY DEF Held
  <2>4. \A x : x \in Holding(c) <=> x # NoId /\ \E s \in Slots : c[s] = x BY DEF Holding
  <2>5. \A x : x \in Added(ev) <=> \E s \in Slots : c[s] # NoId /\ contacts[s] = NoId /\ x = c[s]
    <3>1. \A s \in Slots : c[s] # NoId => ev[s].id = c[s] BY <1>7
    <3> QED BY <3>1, <2>2, <1>5 DEF Added
  <2>6. \A x : x \in Removed(ev) <=> \E s \in Slots : c[s] = NoId /\ contacts[s] # NoId /\ x = contacts[s]
    <3>1. \A s \in Slots : c[s] = NoId /\ contacts[s] # NoId => ev[s].id = contacts[s] BY <1>2, <1>9
    <3> QED BY <3>1, <2>2, <1>5 DEF Removed
  <2>7. Added(ev) = Holding(c) \ Held
    <3>1. ASSUME NEW x \in Added(ev) PROVE x \in Holding(c) \ Held
      <4>1. PICK s \in Slots : c[s] # NoId /\ contacts[s] = NoId /\ x = c[s] BY <2>5
      <4> QED BY <4>1, <2>4, <1>1
    <3>2. ASSUME NEW x \in Holding(c) \ Held PROVE x \in Added(ev)
      <4>1. PICK s \in Slots : c[s] = x /\ x # NoId BY <2>4
      <4>2. contacts[s] = NoId BY <4>1, <2>3, <1>1
      <4> QED BY <4>1, <4>2, <2>5
    <3> QED BY <3>1, <3>2
  <2>8. Removed(ev) = Held \ Holding(c)
    <3>1. ASSUME NEW x \in Removed(ev) PROVE x \in Held \ Holding(c)
      <4>1. PICK s \in Slots : c[s] = NoId /\ contacts[s] # NoId /\ x = contacts[s] BY <2>6
      <4>2. x \in Held BY <4>1, <2>3
      <4>3. ASSUME NEW r \in Slots, c[r] = x PROVE FALSE
        <5>1. c[r] = contacts[r] BY <4>2, <4>3, <1>1
        <5> QED BY <5>1, <4>1, <4>3, <1>2
      <4> QED BY <4>2, <4>3, <2>4
    <3>2. ASSUME NEW x \in Held \ Holding(c) PROVE x \in Removed(ev)
      <4>1. PICK s \in Slots : contacts[s] = x /\ x # NoId BY <2>3
      <4>2. c[s] = NoId BY <4>1, <2>4, <1>1
      <4> QED BY <4>1, <4>2, <2>6
    <3> QED BY <3>1, <3>2
  <2> QED BY <2>7, <2>8
<1> QED BY <1>6, <1>7, <1>8

-----------------------------------------------------------------------------
\* A frame leaves to be told what makes it.
LEMMA Commits ==
    ASSUME TouchInv, ~lost, next = 0, NEW c \in Fingers, NEW ev \in [Slots -> Event], Committed(ev),
           contacts' = c, down' = down,
           ~unheard => Added(ev) = Holding(c) \ Held /\ Removed(ev) = Held \ Holding(c)
    PROVE  mt_events' \in [Slots -> Event] /\ unheard' \in BOOLEAN /\ next' \in 0..MAX_FINGERS /\ AllHeard'
<1>1. Held' = Holding(c) BY DEF Held, Holding
<1>2. mt_events' = ev /\ next' \in {0, 1} /\ 1 \in 0..MAX_FINGERS /\ 0 \in 0..MAX_FINGERS
  BY SlotsNat, TouchAssumption DEF Committed
<1>3. unheard' \in BOOLEAN BY DEF Committed, TouchInv, TouchType
<1>4. ASSUME ~unheard' PROVE AllHeard'
  <2>1. ~unheard /\ next' = 1 BY <1>4 DEF Committed
  <2>2. down = Held BY <2>1, Idle DEF TouchInv
  <2>3. \A s \in Slots : ~(next' = 0 \/ s < next') BY <2>1, SlotsNat
  <2>4. Added(mt_events)' = Holding(c) \ Held /\ Removed(mt_events)' = Held \ Holding(c)
    BY <2>1, <1>2 DEF Added, Removed
  <2> QED BY <2>2, <2>3, <2>4, <1>1 DEF AllHeard
<1>5. AllHeard' BY <1>4 DEF AllHeard
<1> QED BY <1>2, <1>3, <1>5

LEMMA FrameKeeps ==
    ASSUME TouchInv, Frame
    PROVE  TouchInv'
<1>1. PICK c \in Fingers :
        \/ /\ driver = "A" /\ Len(active_now(c)) <= MAX_FINGERS
           /\ contacts' = c
           /\ Committed(handle_syn_event_A(handle_abs_event_A(c), c))
           /\ active_touches' = active_now(c)
           /\ curr_touches' = left_over(c)
           /\ lost' = (lost \/ Overflow(c))
        \/ /\ driver = "A" /\ Len(active_now(c)) > MAX_FINGERS
           /\ active_touches' = active_now(c)
           /\ UNCHANGED <<contacts, mt_events, curr_touches, next, unheard, lost>>
        \/ /\ driver = "B"
           /\ contacts' = c
           /\ Committed(handle_abs_event_B(c))
           /\ UNCHANGED <<active_touches, curr_touches, lost>>
  BY DEF Frame
<1>0. lost' \in BOOLEAN /\ (~lost' => ~lost)
  <2>1. CASE lost' = (lost \/ Overflow(c)) BY <2>1
  <2>2. CASE lost' = lost BY <2>2 DEF TouchInv
  <2> QED BY <1>1, <2>1, <2>2
<1> SUFFICES ASSUME ~lost' PROVE TouchInv' BY <1>0 DEF TouchInv
<1>7. ~lost /\ next = 0 /\ UNCHANGED <<driver, handlers, down>>
  <2>1. ~lost BY <1>0
  <2> QED BY <2>1 DEF Frame
<1>8. TouchType /\ OneSlotEach /\ LastFrame /\ AllHeard BY <1>7 DEF TouchInv
<1>2. /\ c \in [Slots -> Ids \cup {NoId}] /\ Holding(c) \subseteq Ids /\ IsFiniteSet(Holding(c))
      /\ \A s, r \in Slots : s # r /\ c[s] # NoId => c[s] # c[r]
  BY <1>8, FingersAre
<1>10. curr_touches = <<>> BY <1>8 DEF LastFrame
<1>9. /\ active_now(c) = Reported(c) /\ active_now(c) \in Seq(Ids)
      /\ OneOfEach(active_now(c)) /\ Range(active_now(c)) = Holding(c)
      /\ Len(active_now(c)) = Cardinality(Holding(c))
  <2>4. Reported(c) = SetToSeq(Holding(c)) BY DEF Reported, Holding
  <2>5. /\ Reported(c) \in Seq(Holding(c)) /\ OneOfEach(Reported(c)) /\ Range(Reported(c)) = Holding(c)
        /\ Len(Reported(c)) = Cardinality(Holding(c))
    BY <2>4, <1>2, Listed
  <2>6. Reported(c) \in Seq(Ids) BY <2>5, <1>2
  <2>7. active_now(c) = FoldLeft(idlist_add, <<>>, Reported(c)) BY <1>10 DEF active_now
  <2>8. active_now(c) = Reported(c) BY <2>5, <2>6, <2>7, SlotsNat, Collects
  <2> QED BY <2>5, <2>6, <2>8
<1>3. contacts' = c => OneSlotEach' BY <1>2 DEF OneSlotEach
<1>4. contacts' = c => Held' = Holding(c) BY DEF Held, Holding
<1>5. CASE driver = "A"
  <2> DEFINE ev == handle_syn_event_A(handle_abs_event_A(c), c)
  <2>0. Len(active_now(c)) <= MAX_FINGERS
    BY AtMostSlots, <1>2, <1>9
  <2>1. /\ contacts' = c /\ Committed(ev) /\ active_touches' = active_now(c) /\ curr_touches' = left_over(c)
        /\ ~Overflow(c)
    <3>1. ~(Len(active_now(c)) > MAX_FINGERS)
      <4>1. Len(active_now(c)) \in Nat BY <1>9
      <4> QED BY <4>1, <2>0, SlotsNat
    <3>2. /\ contacts' = c /\ Committed(ev) /\ active_touches' = active_now(c) /\ curr_touches' = left_over(c)
          /\ lost' = (lost \/ Overflow(c))
      BY <1>1, <1>5, <3>1
    <3>3. ~Overflow(c) BY <3>2
    <3> QED BY <3>2, <3>3
  <2>2. /\ ev \in [Slots -> Event]
        /\ ~unheard => Added(ev) = Holding(c) \ Held /\ Removed(ev) = Held \ Holding(c)
    BY <1>5, <1>7, <2>1, CompareA
  <2> HIDE DEF ev
  <2>3. mt_events' \in [Slots -> Event] /\ unheard' \in BOOLEAN /\ next' \in 0..MAX_FINGERS /\ AllHeard'
    BY <2>1, <2>2, <1>7, Commits
  <2>4. curr_touches' = <<>> BY <2>1 DEF left_over
  <2>8. LastFrame' BY <2>0, <2>1, <2>4, <1>9, <1>7, <1>4, <1>5 DEF LastFrame, OneOfEach
  <2>9. TouchType' BY <2>1, <2>3, <1>7, <1>8, <1>9, <1>2 DEF TouchType
  <2> QED BY <1>0, <1>3, <2>1, <2>3, <2>8, <2>9 DEF TouchInv
<1>6. CASE driver = "B"
  <2> DEFINE ev == handle_abs_event_B(c)
  <2>1. /\ contacts' = c /\ Committed(ev) /\ active_touches' = active_touches
        /\ curr_touches' = curr_touches
    BY <1>1, <1>6
  <2>2. /\ ev \in [Slots -> Event]
        /\ \A s \in Slots : c[s] # NoId => ev[s].id = c[s]
        /\ ~unheard => Added(ev) = Holding(c) \ Held /\ Removed(ev) = Held \ Holding(c)
    BY <1>6, <1>7, CompareB
  <2> HIDE DEF ev
  <2>3. mt_events' \in [Slots -> Event] /\ unheard' \in BOOLEAN /\ next' \in 0..MAX_FINGERS /\ AllHeard'
    BY <2>1, <2>2, <1>7, Commits
  <2>5. mt_events' = ev BY <2>1 DEF Committed
  <2>4. LastFrame' BY <1>8, <2>1, <2>2, <2>5, <1>10, <1>7, <1>6 DEF LastFrame
  <2>6. TouchType' BY <2>1, <2>3, <1>7, <1>8, <1>2 DEF TouchType
  <2> QED BY <1>0, <1>3, <2>1, <2>3, <2>4, <2>6 DEF TouchInv
<1> QED BY <1>5, <1>6, <1>8 DEF TouchType

\* What a slot's handlers are told of it is no longer to be told; no contact is added and
\* removed in one frame, so the order of the slots does not matter.
LEMMA CommitKeeps ==
    ASSUME TouchInv, touch_commit_events
    PROVE  TouchInv'
<1>0. lost' = lost BY DEF touch_commit_events
<1> SUFFICES ASSUME ~lost PROVE TouchInv' BY <1>0 DEF TouchInv
<1>1. TouchType /\ OneSlotEach /\ LastFrame /\ AllHeard BY DEF TouchInv
<1>2. /\ next \in Slots /\ next \in Nat /\ MAX_FINGERS \in Nat
      /\ next' = IF next = MAX_FINGERS THEN 0 ELSE next + 1
      /\ mt_events' = [mt_events EXCEPT ![next].changed = {}]
      /\ down' = IF handlers THEN Told(down, mt_events[next]) ELSE down
      /\ unheard' = (unheard \/ (~handlers /\ mt_events[next].changed # {}))
      /\ UNCHANGED <<driver, contacts, active_touches, curr_touches, handlers>>
  BY <1>1, SlotsNat DEF touch_commit_events, TouchType
<1>3. Held' = Held BY <1>2 DEF Held
<1>4. \A s \in Slots : mt_events[s] \in Event BY <1>1 DEF TouchType
<1>5. /\ mt_events' \in [Slots -> Event]
      /\ \A s \in Slots : mt_events'[s].id = mt_events[s].id
      /\ \A s \in Slots : mt_events'[s].changed = IF s = next THEN {} ELSE mt_events[s].changed
      /\ DOMAIN mt_events = Slots
  BY <1>1, <1>2, <1>4 DEF TouchType, Event
<1>6. TouchType' BY <1>1, <1>2, <1>5 DEF TouchType
<1>7. OneSlotEach' /\ LastFrame' BY <1>1, <1>2, <1>3, <1>5 DEF OneSlotEach, LastFrame, OneOfEach
<1>8. ASSUME ~unheard' PROVE AllHeard'
  <2> DEFINE e == mt_events[next]
  <2>1. ~unheard /\ (handlers \/ e.changed = {}) BY <1>2, <1>8
  <2>2. down' = Told(down, e)
    <3>1. e.changed = {} => Told(down, e) = down BY DEF Told
    <3> QED BY <3>1, <2>1, <1>2
  <2>3. /\ Added(mt_events) \cap Removed(mt_events) = {}
        /\ Held = (down \cup Added(mt_events)) \ Removed(mt_events)
    BY <2>1, <1>1 DEF AllHeard
  <2>4. \A s \in Slots : next' = 0 \/ s < next' => mt_events'[s].changed = {}
    <3> SUFFICES ASSUME NEW s \in Slots, next' = 0 \/ s < next' PROVE mt_events'[s].changed = {}
      OBVIOUS
    <3>1. s = next \/ s < next BY <1>2, SlotsNat
    <3> QED BY <3>1, <2>1, <1>1, <1>5 DEF AllHeard
  <2>5. \A x : /\ x \in Added(mt_events) <=> \E s \in Slots : "added" \in mt_events[s].changed /\ x = mt_events[s].id
               /\ x \in Removed(mt_events) <=> \E s \in Slots : "removed" \in mt_events[s].changed /\ x = mt_events[s].id
    BY <1>5 DEF Added, Removed
  <2>6. \A x : /\ x \in Added(mt_events)' <=>
                    \E s \in Slots : s # next /\ "added" \in mt_events[s].changed /\ x = mt_events[s].id
               /\ x \in Removed(mt_events)' <=>
                    \E s \in Slots : s # next /\ "removed" \in mt_events[s].changed /\ x = mt_events[s].id
    <3>1. DOMAIN mt_events' = Slots BY <1>5
    <3> QED BY <3>1, <1>5 DEF Added, Removed
  <2>7. Added(mt_events) = Added(mt_events)' \cup (IF "added" \in e.changed THEN {e.id} ELSE {})
    <3>1. ASSUME NEW x \in Added(mt_events) PROVE x \in Added(mt_events)' \/ ("added" \in e.changed /\ x = e.id)
      <4>1. PICK s \in Slots : "added" \in mt_events[s].changed /\ x = mt_events[s].id BY <2>5, <3>1
      <4> QED BY <4>1, <2>6
    <3>2. Added(mt_events)' \subseteq Added(mt_events) BY <2>5, <2>6
    <3>3. "added" \in e.changed => e.id \in Added(mt_events)
      <4>1. next \in Slots BY <1>2
      <4> QED BY <4>1, <2>5
    <3> QED BY <3>1, <3>2, <3>3
  <2>8. Removed(mt_events) = Removed(mt_events)' \cup (IF "removed" \in e.changed THEN {e.id} ELSE {})
    <3>1. ASSUME NEW x \in Removed(mt_events) PROVE x \in Removed(mt_events)' \/ ("removed" \in e.changed /\ x = e.id)
      <4>1. PICK s \in Slots : "removed" \in mt_events[s].changed /\ x = mt_events[s].id BY <2>5, <3>1
      <4> QED BY <4>1, <2>6
    <3>2. Removed(mt_events)' \subseteq Removed(mt_events) BY <2>5, <2>6
    <3>3. "removed" \in e.changed => e.id \in Removed(mt_events)
      <4>1. next \in Slots BY <1>2
      <4> QED BY <4>1, <2>5
    <3> QED BY <3>1, <3>2, <3>3
  <2>9. "added" \in e.changed => e.id \in Added(mt_events) BY <2>7
  <2>10. "removed" \in e.changed => e.id \in Removed(mt_events) BY <2>8
  <2> DEFINE A == Added(mt_events)'
             R == Removed(mt_events)'
  <2> HIDE DEF e, A, R
  <2>11. Added(mt_events)' = A /\ Removed(mt_events)' = R BY DEF A, R
  <2>12. A \cap R = {} BY <2>3, <2>7, <2>8, <2>11
  <2>13. Held = (Told(down, e) \cup A) \ R
    BY <2>3, <2>7, <2>8, <2>9, <2>10, <2>11 DEF Told
  <2> QED BY <2>2, <2>4, <2>11, <2>12, <2>13, <1>3 DEF AllHeard
<1>9. AllHeard' BY <1>8 DEF AllHeard
<1> QED BY <1>0, <1>6, <1>7, <1>9 DEF TouchInv

LEMMA HandlersChangeKeeps ==
    ASSUME TouchInv, HandlersChange \/ UNCHANGED touchVars
    PROVE  TouchInv'
<1>1. /\ driver' = driver /\ contacts' = contacts /\ mt_events' = mt_events /\ down' = down
      /\ active_touches' = active_touches /\ curr_touches' = curr_touches /\ next' = next
      /\ unheard' = unheard /\ lost' = lost /\ (~lost => handlers' \in BOOLEAN)
  BY DEF HandlersChange, touchVars, TouchInv, TouchType
<1> SUFFICES ASSUME ~lost PROVE TouchInv' BY <1>1 DEF TouchInv
<1>2. Held' = Held BY <1>1 DEF Held
<1>3. TouchType' BY <1>1 DEF TouchInv, TouchType
<1>4. OneSlotEach' BY <1>1, <1>2 DEF TouchInv, OneSlotEach
<1>6. AllHeard' BY <1>1, <1>2 DEF TouchInv, AllHeard, Added, Removed
<1>5. LastFrame' BY <1>1, <1>2 DEF TouchInv, LastFrame, OneOfEach
<1> QED BY <1>1, <1>3, <1>4, <1>5, <1>6 DEF TouchInv

\* The strengthened invariant holds of touches, with either kind of driver and whether or not
\* anybody listens: what the driver's side keeps of the last frame is what was held then, and
\* what the handlers know and are still to be told makes what is held now.
THEOREM TouchSafe == TouchSpec => []TouchInv
<1>1. TouchInv /\ [TouchNext]_touchVars => TouchInv'
  BY FrameKeeps, CommitKeeps, HandlersChangeKeeps DEF TouchNext
<1> QED BY <1>1, TouchInitInv, PTL DEF TouchSpec

\* For any number of slots and any ids: unless something was committed while there was no
\* handler, or type A was given more contacts and lifted ones in a frame than there are slots,
\* the handlers know of exactly the contacts there are once a frame is committed
\* (handle_syn_event of type A compares two frames, type B is told of each slot).
THEOREM HandlersAlwaysAgree == TouchSpec => []TouchesAgree
<1>1. TouchInv => TouchesAgree BY Idle DEF TouchInv, TouchesAgree
<1> QED BY <1>1, TouchSafe, PTL

\* For any number of slots and any ids: until lifted contacts got no slots, the assertion of
\* idlist_add holds, since the list that a frame is put in was emptied in the last.
THEOREM AlwaysPlaceForEach == TouchSpec => []PlaceForEach
<1>1. TouchInv => PlaceForEach BY DEF TouchInv, LastFrame, PlaceForEach
<1> QED BY <1>1, TouchSafe, PTL
===============================================================================
