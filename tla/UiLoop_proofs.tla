---------------------------- MODULE UiLoop_proofs ----------------------------
(***************************************************************************)
(* Proofs about UiLoop, for every set of cards, any auto-boot ROM and any  *)
(* countdown: the card's handler is registered as flagged, and what the    *)
(* loop returns is what was answered last, and the threads wait for one    *)
(* another in no circle but those known.  A thread's place and the places  *)
(* it returns to make its stack; what is at the bottom of main's says how  *)
(* far multirom_ui() has come, and the places in between who has which     *)
(* mutex.                                                                  *)
(***************************************************************************)
EXTENDS UiLoop, SequenceTheorems, TLAPS

ShowOps == {"show", "show again", "show set"}
HideOps == {"hide", "hide lock", "hide handler", "hide unlock", "hidden"}
Ticks == IF AutoBoot = "none" THEN {} ELSE {"tick", "ticked", "boot now"}

\* A thread's own work, the places of it that calls return to, the calls, and the places in
\* a call that another one returns to.
MainBases == {"begin", "started", "check", "boot at once", "open", "wait for key", "reboot", "start", "enable",
              "auto boot", "loop", "method", "exit?", "pong?", "disable", "push", "pop", "pop done", "colours?",
              "leave", "stop input", "last card", "anim_stop", "anims end", "destroy", "join refresh", "usb flag",
              "theme again", "coloured", "workers_stop", "done", "scroll", "filled", "dark"}
Bases(t) ==
    CASE t = "main" -> MainBases
      [] t = "input" -> {"none", "starting", "idle", "touched"}
      [] t = "worker" -> {"none", "round"}
      [] t = "refresh" -> {"none", "idle", "tell"}
Returns(t) ==
    CASE t = "main" -> {"loop", "exit?", "scroll", "filled", "anim_stop", "open", "boot at once", "reboot", "last card"}
      [] t = "input" -> {"idle", "touched"}
      [] t = "worker" -> {"round"}
      [] t = "refresh" -> {}
Calls(t, base) ==
    CASE t = "main" -> ShowOps \cup HideOps \cup {"join input"} \cup (IF base = "loop" THEN Ticks ELSE {})
      [] t = "input" -> ShowOps \cup HideOps \cup {"card", "button", "use method", "widgets"} \cup (Ticks \cap {"boot now"})
      [] t = "worker" -> ShowOps \cup HideOps \cup Ticks
      [] t = "refresh" -> {}
Paused == {"show again", "ticked", "boot now"}

\* The auto-boot card needs a ROM, the one that asks for a method a selected one.
Chosen == selected_rom \in ROMs
KindsFor(chosen) == {k \in Kinds : (k = "auto" => AutoBoot # "none") /\ (k = "ask" => chosen)}
Plain == MainBases \cup {"none", "starting", "idle", "touched", "round", "tell", "join input", "card", "button", "widgets"}
         \cup HideOps \cup Ticks
Places(chosen) ==
    [op : Plain \cup IF chosen THEN {"use method"} ELSE {}] \cup [op : ShowOps, kind : KindsFor(chosen)]

Under(p, s) == IF s = <<>> THEN p.op ELSE s[Len(s)].op

Stacked(P, t, p, s) ==
    /\ p \in P /\ s \in Seq(P)
    /\ s = <<>> => p.op \in Bases(t)
    /\ s # <<>> => /\ Under(p, s) \in Returns(t)
                   /\ p.op \in Calls(t, Under(p, s))
                   /\ \A i \in 1..Len(s) - 1 : s[i].op \in Calls(t, Under(p, s)) \cap Paused

StackInv ==
    /\ at = [t \in Threads |-> at[t]] /\ back = [t \in Threads |-> back[t]]
    /\ \A t \in Threads : Stacked(Places(Chosen), t, at[t], back[t])

Base(t) == Under(at[t], back[t])
Step == Base("main")

-----------------------------------------------------------------------------
\* Stacks.

LEMMA Distinct ==
    ASSUME NEW t \in Threads, NEW b
    PROVE  Bases(t) \cap Calls(t, b) = {} /\ Returns(t) \subseteq Bases(t)
<1> USE DEF Bases, Returns, Calls, ShowOps, HideOps, Ticks, MainBases
<1>1. CASE t = "main"
  <2>1. Bases(t) = MainBases BY <1>1
  <2>2. ShowOps \cap MainBases = {} OBVIOUS
  <2>3. HideOps \cap MainBases = {} OBVIOUS
  <2>4. Ticks \cap MainBases = {} /\ "join input" \notin MainBases OBVIOUS
  <2>5. Calls(t, b) \subseteq ShowOps \cup HideOps \cup {"join input"} \cup Ticks BY <1>1
  <2>6. Returns(t) \subseteq MainBases BY <1>1
  <2> HIDE DEF Bases, Returns, Calls, ShowOps, HideOps, Ticks, MainBases
  <2> QED BY <2>1, <2>2, <2>3, <2>4, <2>5, <2>6
<1>2. CASE t = "input" BY <1>2
<1>3. CASE t = "worker" BY <1>3
<1>4. CASE t = "refresh" BY <1>4
<1> QED BY <1>1, <1>2, <1>3, <1>4 DEF Threads

LEMMA Depth ==
    ASSUME NEW P, NEW t \in Threads, NEW p, NEW s, Stacked(P, t, p, s)
    PROVE  s = <<>> <=> p.op \in Bases(t)
BY Distinct DEF Stacked

LEMMA Wider ==
    ASSUME NEW P, NEW Q, P \subseteq Q, NEW t, NEW p, NEW s, Stacked(P, t, p, s)
    PROVE  Stacked(Q, t, p, s)
<1>1. s \in Seq(Q) BY DEF Stacked
<1> QED BY <1>1 DEF Stacked

\* Within a call, or between two places of a thread's own.
LEMMA Moved ==
    ASSUME NEW P, NEW t \in Threads, NEW p, NEW s, Stacked(P, t, p, s), NEW q \in P,
           s = <<>> => q.op \in Bases(t),
           s # <<>> => q.op \in Calls(t, Under(p, s))
    PROVE  Stacked(P, t, q, s) /\ (s # <<>> => Under(q, s) = Under(p, s)) /\ (s = <<>> => Under(q, s) = q.op)
BY DEF Stacked, Under

LEMMA Entered ==
    ASSUME NEW P, NEW t \in Threads, NEW p, NEW s, Stacked(P, t, p, s), NEW q \in P, NEW r \in P,
           s = <<>> => r.op \in Returns(t) /\ q.op \in Calls(t, r.op),
           s # <<>> => r.op \in Calls(t, Under(p, s)) \cap Paused /\ q.op \in Calls(t, Under(p, s))
    PROVE  Stacked(P, t, q, <<r>> \o s) /\ Under(q, <<r>> \o s) = IF s = <<>> THEN r.op ELSE Under(p, s)
<1> DEFINE u == <<r>> \o s
<1>1. s \in Seq(P) /\ Len(s) \in Nat BY DEF Stacked
<1>2. /\ u \in Seq(P) /\ Len(u) = Len(s) + 1 /\ u # <<>>
      /\ u[1] = r /\ \A i \in 1..Len(s) : u[i + 1] = s[i]
  BY <1>1
<1> HIDE DEF u
<1>3. CASE s = <<>>
  <2>1. Len(u) = 1 BY <1>2, <1>3
  <2>2. Under(q, u) = r.op BY <1>2, <2>1 DEF Under
  <2> QED BY <1>2, <1>3, <2>1, <2>2 DEF Stacked, u
<1>4. CASE s # <<>>
  <2>1. Len(s) > 0 /\ Len(s) \in 1..Len(s) BY <1>1, <1>4
  <2>2. u[Len(u)] = s[Len(s)] BY <1>2, <2>1
  <2>3. Under(q, u) = Under(p, s) BY <1>2, <1>4, <2>2 DEF Under
  <2>4. ASSUME NEW i \in 1..Len(u) - 1 PROVE u[i].op \in Calls(t, Under(p, s)) \cap Paused
    <3>1. CASE i = 1 BY <1>2, <1>4, <3>1
    <3>2. CASE i # 1
      <4>1. i - 1 \in 1..Len(s) - 1 /\ i - 1 \in 1..Len(s) /\ (i - 1) + 1 = i BY <1>1, <1>2, <2>4, <3>2
      <4>2. u[i] = s[i - 1] BY <1>2, <4>1
      <4> QED BY <1>4, <4>1, <4>2 DEF Stacked
    <3> QED BY <3>1, <3>2
  <2> QED BY <1>2, <1>4, <2>3, <2>4 DEF Stacked, u
<1> QED BY <1>3, <1>4

LEMMA Returned ==
    ASSUME NEW P, NEW t \in Threads, NEW p, NEW s, Stacked(P, t, p, s), s # <<>>
    PROVE  /\ Stacked(P, t, Head(s), Tail(s)) /\ Under(Head(s), Tail(s)) = Under(p, s)
           /\ Head(s) \in P /\ (Head(s).op \in Returns(t) \/ Head(s).op \in Calls(t, Under(p, s)) \cap Paused)
<1>1. s \in Seq(P) /\ Len(s) \in Nat /\ Len(s) > 0 BY DEF Stacked
<1>2. /\ Head(s) = s[1] /\ Head(s) \in P
      /\ Tail(s) \in Seq(P) /\ Len(Tail(s)) = Len(s) - 1
      /\ \A i \in 1..Len(s) - 1 : Tail(s)[i] = s[i + 1]
  BY <1>1
<1>3. CASE Len(s) = 1
  <2>1. Tail(s) = <<>>
    <3>1. Tail(s) \in Seq(P) /\ Len(Tail(s)) = 0 BY <1>2, <1>3
    <3> QED BY <3>1, EmptySeq, Zenon
  <2>2. Under(Head(s), Tail(s)) = Under(p, s) BY <1>2, <1>3, <2>1 DEF Under
  <2>3. Under(p, s) = Head(s).op BY <1>2, <1>3 DEF Under
  <2> QED BY <1>2, <2>1, <2>2, <2>3, Distinct DEF Stacked
<1>4. CASE Len(s) # 1
  <2>1. Tail(s) # <<>> /\ Len(s) - 1 \in 1..Len(s) - 1 BY <1>1, <1>2, <1>4
  <2>2. Tail(s)[Len(Tail(s))] = s[Len(s)] BY <1>1, <1>2, <2>1
  <2>3. Under(Head(s), Tail(s)) = Under(p, s) BY <2>1, <2>2 DEF Under
  <2>4. Head(s).op \in Calls(t, Under(p, s)) \cap Paused BY <1>1, <1>2, <1>4 DEF Stacked
  <2>5. ASSUME NEW i \in 1..Len(Tail(s)) - 1 PROVE Tail(s)[i].op \in Calls(t, Under(p, s)) \cap Paused
    <3>1. i \in 1..Len(s) - 1 /\ i + 1 \in 1..Len(s) - 1 BY <1>1, <1>2, <2>5
    <3> QED BY <1>2, <3>1 DEF Stacked
  <2> QED BY <1>2, <2>1, <2>3, <2>4, <2>5 DEF Stacked
<1> QED BY <1>3, <1>4

-----------------------------------------------------------------------------
\* The stacks in a step of one thread.

OthersStay(t) == \A u \in Threads \ {t} : at'[u] = at[u] /\ back'[u] = back[u]
StillChosen == Chosen => Chosen'

LEMMA PlacesGrow == ASSUME NEW a \in BOOLEAN, NEW b \in BOOLEAN, a => b PROVE Places(a) \subseteq Places(b)
BY DEF Places, KindsFor

LEMMA OneKeeps ==
    ASSUME StackInv, NEW t \in Threads, StillChosen, OthersStay(t),
           at' = [u \in Threads |-> at'[u]], back' = [u \in Threads |-> back'[u]],
           Stacked(Places(Chosen'), t, at'[t], back'[t])
    PROVE  StackInv'
<1>1. Places(Chosen) \subseteq Places(Chosen')
  <2>1. Chosen \in BOOLEAN /\ Chosen' \in BOOLEAN BY DEF Chosen
  <2> QED BY <2>1, PlacesGrow DEF StillChosen
<1>2. ASSUME NEW u \in Threads, u # t PROVE Stacked(Places(Chosen'), u, at'[u], back'[u])
  <2>1. at'[u] = at[u] /\ back'[u] = back[u] BY <1>2 DEF OthersStay
  <2>2. Stacked(Places(Chosen), u, at[u], back[u]) BY DEF StackInv
  <2> QED BY <1>1, <2>1, <2>2, Wider
<1>3. \A u \in Threads : Stacked(Places(Chosen'), u, at'[u], back'[u]) BY <1>2
<1> QED BY <1>3 DEF StackInv

LEMMA WasStacked ==
    ASSUME StackInv, NEW t \in Threads, StillChosen
    PROVE  /\ Stacked(Places(Chosen'), t, at[t], back[t]) /\ Places(Chosen) \subseteq Places(Chosen')
           /\ back[t] = <<>> <=> at[t].op \in Bases(t)
           /\ at = [u \in Threads |-> at[u]] /\ back = [u \in Threads |-> back[u]]
<1>1. Places(Chosen) \subseteq Places(Chosen')
  <2>1. Chosen \in BOOLEAN /\ Chosen' \in BOOLEAN BY DEF Chosen
  <2> QED BY <2>1, PlacesGrow DEF StillChosen
<1>2. Stacked(Places(Chosen), t, at[t], back[t]) BY DEF StackInv
<1>3. back[t] = <<>> <=> at[t].op \in Bases(t) BY <1>2, Depth
<1>4. Stacked(Places(Chosen'), t, at[t], back[t]) BY <1>1, <1>2, Wider
<1> QED BY <1>1, <1>3, <1>4 DEF StackInv

LEMMA GoKeeps ==
    ASSUME StackInv, NEW t \in Threads, StillChosen, NEW q \in Places(Chosen'),
           at' = [at EXCEPT ![t] = q], back' = back,
           back[t] = <<>> => q.op \in Bases(t),
           back[t] # <<>> => q.op \in Calls(t, Base(t))
    PROVE  /\ StackInv' /\ OthersStay(t) /\ at'[t] = q /\ back'[t] = back[t]
           /\ Under(at'[t], back'[t]) = IF back[t] = <<>> THEN q.op ELSE Base(t)
<1>1. OthersStay(t) /\ at'[t] = q /\ back'[t] = back[t] /\ at' = [u \in Threads |-> at'[u]] /\ back' = [u \in Threads |-> back'[u]]
  BY WasStacked DEF OthersStay
<1>2. Stacked(Places(Chosen'), t, at[t], back[t]) BY WasStacked
<1>3. Stacked(Places(Chosen'), t, q, back[t]) /\ Under(q, back[t]) = IF back[t] = <<>> THEN q.op ELSE Base(t)
  <2>1. back[t] # <<>> => q.op \in Calls(t, Under(at[t], back[t])) BY DEF Base
  <2> QED BY <1>2, <2>1, Moved DEF Base
<1> QED BY <1>1, <1>3, OneKeeps

LEMMA CallKeeps ==
    ASSUME StackInv, NEW t \in Threads, StillChosen, NEW q \in Places(Chosen'), NEW r \in Places(Chosen'),
           at' = [at EXCEPT ![t] = q], back' = [back EXCEPT ![t] = <<r>> \o @],
           back[t] = <<>> => r.op \in Returns(t) /\ q.op \in Calls(t, r.op),
           back[t] # <<>> => r.op \in Calls(t, Base(t)) \cap Paused /\ q.op \in Calls(t, Base(t))
    PROVE  /\ StackInv' /\ OthersStay(t) /\ at'[t] = q /\ back'[t] # <<>>
           /\ Under(at'[t], back'[t]) = IF back[t] = <<>> THEN r.op ELSE Base(t)
<1>1. OthersStay(t) /\ at'[t] = q /\ back'[t] = <<r>> \o back[t]
      /\ at' = [u \in Threads |-> at'[u]] /\ back' = [u \in Threads |-> back'[u]]
  BY WasStacked DEF OthersStay
<1>2. Stacked(Places(Chosen'), t, at[t], back[t]) BY WasStacked
<1>3. Stacked(Places(Chosen'), t, q, <<r>> \o back[t])
      /\ Under(q, <<r>> \o back[t]) = IF back[t] = <<>> THEN r.op ELSE Base(t)
  <2>1. back[t] # <<>> => r.op \in Calls(t, Under(at[t], back[t])) \cap Paused /\ q.op \in Calls(t, Under(at[t], back[t]))
    BY DEF Base
  <2> QED BY <1>2, <2>1, Entered DEF Base
<1>4. <<r>> \o back[t] # <<>> BY <1>2 DEF Stacked
<1> QED BY <1>1, <1>3, <1>4, OneKeeps

LEMMA ReturnKeeps ==
    ASSUME StackInv, NEW t \in Threads, StillChosen, Return(t), at[t].op \notin Bases(t)
    PROVE  /\ StackInv' /\ OthersStay(t) /\ Under(at'[t], back'[t]) = Base(t)
           /\ at'[t].op \in Returns(t) \/ at'[t].op \in Calls(t, Base(t)) \cap Paused
<1>1. back[t] # <<>> BY WasStacked
<1>2. OthersStay(t) /\ at'[t] = Head(back[t]) /\ back'[t] = Tail(back[t])
      /\ at' = [u \in Threads |-> at'[u]] /\ back' = [u \in Threads |-> back'[u]]
  BY WasStacked DEF OthersStay, Return
<1>3. Stacked(Places(Chosen'), t, at[t], back[t]) BY WasStacked
<1>4. /\ Stacked(Places(Chosen'), t, Head(back[t]), Tail(back[t])) /\ Under(Head(back[t]), Tail(back[t])) = Base(t)
      /\ Head(back[t]).op \in Returns(t) \/ Head(back[t]).op \in Calls(t, Base(t)) \cap Paused
  BY <1>1, <1>3, Returned DEF Base
<1> QED BY <1>2, <1>4, OneKeeps

-----------------------------------------------------------------------------
\* The invariant.

HoldsCard == {"show set", "hide handler", "hide unlock"}

\* What the threads of the handler still have to do makes up for what is listed.
HandlerInv ==
    /\ registered \in BOOLEAN /\ listed \in Nat /\ pending \in [add : Nat, rm : Nat]
    /\ pushed \in Nat \cup {-1} /\ overtaken \in BOOLEAN
    /\ ~overtaken =>
         /\ pushed # -1 => listed = 0
         /\ listed + pending.add + (IF pushed = -1 THEN 0 ELSE pushed) = pending.rm + IF registered THEN 1 ELSE 0

\* Who has ncard.mutex.
CardInv ==
    /\ lock = [l \in Locks |-> lock[l]]
    /\ \A t \in Threads : at[t].op \in HoldsCard => lock["card"] = t
    /\ \A t \in Threads : at[t].op = "hide handler" => registered
    /\ HandlerInv

PushedInv == pushed # -1 <=> Step = "pop"

Early == {"begin", "started", "check", "boot at once", "open", "wait for key", "reboot", "start", "enable", "auto boot"}
Held == {"method", "exit?", "scroll", "filled", "pong?", "disable", "push", "pop", "pop done", "colours?"}
Before == Early \cup Held \cup {"loop", "leave", "theme again", "coloured"}
After == {"stop input", "last card", "anim_stop", "anims end", "workers_stop", "done", "dark"}
Down == {"destroy", "join refresh", "usb flag"}
Ending == (Step \in Down /\ left # NoAnswer) \/ Step \in {"workers_stop", "done", "dark"}
NoInput == {"begin", "open", "start", "boot at once", "reboot", "last card", "anim_stop", "anims end"}

\* Which threads are there, as far as main knows.
ThreadsInv ==
    /\ ~At("worker", "none") => lock["workers"] = "worker"
    /\ Step \in NoInput \/ Ending => At("input", "none") \/ At("main", "join input")
    /\ Step \in Early \/ Ending => At("worker", "none") /\ ~ticking
    /\ ticking \in BOOLEAN /\ (ticking => AutoBoot # "none")

Matches == exit_ui_code = left.code /\ (left.code = "boot" => selected_rom = left.rom /\ (method \/ check_keys))

\* What the answer is worth: only the loop, while it has exit_code_mutex, and then nobody
\* without being late, comes between the choice of the method and the end.
AnswerInv ==
    /\ auto_boot_rom \in ROMs \cup {"none"} /\ (AutoBoot # "none" => auto_boot_rom \in ROMs)
    /\ exit_ui_code \in {"none", "boot", "reboot"} /\ selected_rom \in ROMs \cup {"none"}
    /\ method \in BOOLEAN /\ late \in BOOLEAN
    /\ exit_ui_code = "boot" => Chosen
    /\ Step \in {"started", "check", "boot at once"} => check_keys /\ AutoBoot # "none"
    /\ Step \in Held => lock["exit"] = "main"
    /\ Step = "method" => exit_ui_code = "boot"
    /\ Step = "exit?" => (exit_ui_code = "boot" => method)
    /\ Step = "leave" => exit_ui_code # "none" /\ (~late /\ exit_ui_code = "boot" => method)
    /\ Step \in Before => left = NoAnswer
    /\ Step \in After => left # NoAnswer
    /\ Step = "dark" => left.code = "boot" /\ left.rom = "none"
    /\ left # NoAnswer /\ Step # "dark" => left.code \in {"boot", "reboot"} /\ (left.code = "boot" => left.rom \in ROMs)
    /\ left # NoAnswer /\ Step # "dark" /\ ~late => Matches

ShownInv == card.kind \in KindsFor(Chosen) \cup {"none"}

UiInv == StackInv /\ CardInv /\ PushedInv /\ ThreadsInv /\ AnswerInv /\ ShownInv

LEMMA MainAtBase == ASSUME StackInv PROVE /\ back["main"] = <<>> <=> at["main"].op \in MainBases
                                          /\ back["main"] = <<>> => Step = at["main"].op
                                          /\ back["main"] # <<>> => Step \in Returns("main") /\ at["main"].op \in Calls("main", Step)
<1>1. "main" \in Threads /\ Bases("main") = MainBases BY DEF Threads, Bases
<1>2. Stacked(Places(Chosen), "main", at["main"], back["main"]) BY <1>1 DEF StackInv
<1>3. back["main"] = <<>> <=> at["main"].op \in MainBases BY <1>1, <1>2, Depth
<1>4. back["main"] = <<>> => Step = at["main"].op BY DEF Step, Base, Under
<1>5. back["main"] # <<>> => Step \in Returns("main") /\ at["main"].op \in Calls("main", Step)
  BY <1>2 DEF Stacked, Step, Base
<1> QED BY <1>3, <1>4, <1>5

LEMMA InCall ==
    ASSUME StackInv, NEW t \in Threads, at[t].op \notin Bases(t)
    PROVE  /\ back[t] # <<>> /\ at[t].op \in Calls(t, Base(t)) /\ Base(t) \in Returns(t)
           /\ at[t] \in Places(Chosen)
<1>1. Stacked(Places(Chosen), t, at[t], back[t]) BY DEF StackInv
<1> QED BY <1>1, Depth DEF Stacked, Base

\* What a step that concerns none of it leaves alone.
SameThreads ==
    /\ Step' = Step
    /\ At("worker", "none")' <=> At("worker", "none")
    /\ At("input", "none") => At("input", "none")'
    /\ At("main", "join input") => At("main", "join input")'

LEMMA ThreadsKept ==
    ASSUME ThreadsInv, SameThreads, UNCHANGED <<ticking, left>>, lock'["workers"] = lock["workers"]
    PROVE  ThreadsInv'
BY DEF ThreadsInv, SameThreads, Ending

LEMMA AnswerKept ==
    ASSUME AnswerInv, Step' = Step, lock'["exit"] = lock["exit"],
           UNCHANGED <<check_keys, exit_ui_code, selected_rom, method, auto_boot_rom, left, late>>
    PROVE  AnswerInv'
<1>1. /\ Matches' = Matches /\ Chosen' = Chosen
      /\ (left # NoAnswer)' = (left # NoAnswer)
  BY DEF Matches, Chosen, NoAnswer
<1>2. /\ auto_boot_rom' \in ROMs \cup {"none"} /\ (AutoBoot # "none" => auto_boot_rom' \in ROMs)
      /\ exit_ui_code' \in {"none", "boot", "reboot"} /\ selected_rom' \in ROMs \cup {"none"}
      /\ Step' \in Held => lock'["exit"] = "main"
      /\ Step' = "method" => exit_ui_code' = "boot"
      /\ Step' \in Before => left' = NoAnswer
      /\ Step' \in After => left' # NoAnswer
      /\ Step' = "dark" => left'.code = "boot" /\ left'.rom = "none"
      /\ left' # NoAnswer /\ Step' # "dark" =>
           left'.code \in {"boot", "reboot"} /\ (left'.code = "boot" => left'.rom \in ROMs)
  BY <1>1 DEF AnswerInv
<1>3. /\ method' \in BOOLEAN /\ late' \in BOOLEAN
      /\ exit_ui_code' = "boot" => Chosen'
      /\ Step' \in {"started", "check", "boot at once"} => check_keys' /\ AutoBoot # "none"
      /\ Step' = "exit?" => (exit_ui_code' = "boot" => method')
      /\ Step' = "leave" => exit_ui_code' # "none" /\ (~late' /\ exit_ui_code' = "boot" => method')
      /\ left' # NoAnswer /\ Step' # "dark" /\ ~late' => Matches'
  BY <1>1, Zenon DEF AnswerInv
<1> QED BY <1>1, <1>2, <1>3, Zenon DEF AnswerInv, NoAnswer

LEMMA CardKept ==
    ASSUME CardInv, lock' = [l \in Locks |-> lock'[l]], lock'["card"] = lock["card"],
           UNCHANGED <<registered, listed, pending, pushed, overtaken>>,
           \A t \in Threads : at'[t].op \in HoldsCard => at'[t].op = at[t].op
    PROVE  CardInv'
<1>1. \A t \in Threads : at'[t].op \in HoldsCard => lock'["card"] = t BY DEF CardInv
<1>2. \A t \in Threads : at'[t].op = "hide handler" => registered' BY DEF CardInv, HoldsCard
<1> QED BY <1>1, <1>2 DEF CardInv, HandlerInv

LEMMA PushedKept == PushedInv /\ pushed' = pushed /\ Step' = Step => PushedInv'
BY DEF PushedInv

LEMMA ShownKept == ShownInv /\ card' = card /\ StillChosen => ShownInv'
BY DEF ShownInv, KindsFor, StillChosen, Chosen

\* A step of another thread, and one of main within a call.
LEMMA OthersSame ==
    ASSUME StackInv, NEW t \in Threads, OthersStay(t), t # "main"
    PROVE  /\ Step' = Step
           /\ At("main", "join input") => At("main", "join input")'
           /\ t # "worker" => (At("worker", "none")' <=> At("worker", "none"))
           /\ t # "input" => (At("input", "none")' <=> At("input", "none"))
<1>1. {"main", "input", "worker"} \subseteq Threads BY DEF Threads
<1>2. at'["main"] = at["main"] /\ back'["main"] = back["main"] BY <1>1 DEF OthersStay
<1>3. t # "worker" => at'["worker"] = at["worker"] BY <1>1 DEF OthersStay
<1>4. t # "input" => at'["input"] = at["input"] BY <1>1 DEF OthersStay
<1> QED BY <1>2, <1>3, <1>4 DEF Step, Base, At

\* In a call, and going on in one or returning.
InnerStep(t) ==
    /\ OthersStay(t) /\ at[t].op \notin Bases(t)
    /\ Under(at'[t], back'[t]) = Base(t)
    /\ at'[t].op \in Returns(t) \/ at'[t].op \in Calls(t, Base(t))

LEMMA InnerSame ==
    ASSUME StackInv, NEW t \in Threads, InnerStep(t), at[t].op # "join input"
    PROVE  SameThreads
<1>1. \A u \in Threads : \A b : "none" \notin Returns(u) /\ "none" \notin Calls(u, b)
  BY DEF Threads, Returns, Calls, ShowOps, HideOps, Ticks
<1>2. CASE t = "main"
  <2>1. OthersStay("main") /\ {"main", "input", "worker"} \subseteq Threads BY <1>2 DEF InnerStep, Threads
  <2>2. at'["input"] = at["input"] /\ at'["worker"] = at["worker"] BY <2>1 DEF OthersStay
  <2>3. Step' = Step BY <1>2 DEF InnerStep, Step, Base
  <2> QED BY <1>2, <2>2, <2>3 DEF SameThreads, At
<1>3. CASE t # "main"
  <2>1. OthersStay(t) BY DEF InnerStep
  <2>2. at'[t].op # "none" BY <1>1 DEF InnerStep
  <2>3. t \in {"input", "worker"} => at[t].op # "none" BY DEF InnerStep, Bases
  <2> QED BY <1>3, <2>1, <2>2, <2>3, OthersSame DEF SameThreads, At
<1> QED BY <1>2, <1>3

-----------------------------------------------------------------------------
\* ncard_show and ncard_hide.

CallOps == ShowOps \cup HideOps \cup {"tick", "ticked", "boot now", "card", "button", "use method", "widgets", "join input"}

LEMMA NotBase == ASSUME NEW t \in Threads PROVE Bases(t) \cap CallOps = {}
<1> USE DEF Bases, CallOps, ShowOps, HideOps, MainBases
<1>1. CASE t = "main" BY <1>1
<1>2. CASE t = "input" BY <1>2
<1>3. CASE t = "worker" BY <1>3
<1>4. CASE t = "refresh" BY <1>4
<1> QED BY <1>1, <1>2, <1>3, <1>4 DEF Threads

\* A thread in any call may be in one of the card's.
LEMMA CardOps ==
    ASSUME NEW t \in Threads, NEW b, NEW o \in Calls(t, b)
    PROVE  ShowOps \cup HideOps \subseteq Calls(t, b)
<1>1. CASE t = "main" BY <1>1 DEF Calls
<1>2. CASE t = "input" BY <1>2 DEF Calls
<1>3. CASE t = "worker" BY <1>3 DEF Calls
<1>4. CASE t = "refresh" BY <1>4 DEF Calls
<1> QED BY <1>1, <1>2, <1>3, <1>4 DEF Threads

LEMMA PlaceOf ==
    ASSUME NEW c \in BOOLEAN
    PROVE  /\ \A o \in Plain : Place(o) \in Places(c) /\ Place(o).op = o
           /\ \A o \in HideOps \cup {"card", "button", "widgets", "join input"} : o \in Plain
           /\ \A k \in KindsFor(c) : Show(k) \in Places(c) /\ Show(k).op = "show"
           /\ c => Place("use method") \in Places(c) /\ Place("use method").op = "use method"
BY DEF Place, Show, Places, Plain, ShowOps

\* The card a place names goes along with it.
LEMMA ShowOn ==
    ASSUME NEW c \in BOOLEAN, NEW p \in Places(c), p.op \in ShowOps, NEW o \in ShowOps
    PROVE  [p EXCEPT !.op = o] \in Places(c) /\ [p EXCEPT !.op = o].op = o /\ p.kind \in KindsFor(c)
<1>1. p.op \notin Plain \cup {"use method"} BY DEF Plain, ShowOps, HideOps, Ticks, MainBases
<1>2. p \in [op : ShowOps, kind : KindsFor(c)] BY <1>1 DEF Places
<1> QED BY <1>2 DEF Places

LEMMA InnerKeeps ==
    ASSUME UiInv, NEW t \in Threads, StackInv', InnerStep(t), at[t].op # "join input",
           UNCHANGED <<check_keys, exit_ui_code, selected_rom, method, auto_boot_rom, left, late, ticking, pushed>>,
           lock'["exit"] = lock["exit"], lock'["workers"] = lock["workers"]
    PROVE  StackInv' /\ ThreadsInv' /\ AnswerInv' /\ PushedInv'
<1>1. SameThreads BY InnerSame DEF UiInv
<1>2. ThreadsInv' BY <1>1, ThreadsKept DEF UiInv
<1>3. AnswerInv' BY <1>1, AnswerKept DEF UiInv, SameThreads
<1>4. PushedInv' BY <1>1, PushedKept DEF UiInv, SameThreads
<1> QED BY <1>2, <1>3, <1>4

LEMMA GoInner ==
    ASSUME StackInv, NEW t \in Threads, at[t].op \in CallOps, StillChosen, NEW q \in Places(Chosen'),
           at' = [at EXCEPT ![t] = q], back' = back, q.op \in Calls(t, Base(t))
    PROVE  StackInv' /\ InnerStep(t) /\ OthersStay(t) /\ at'[t] = q
<1>1. at[t].op \notin Bases(t) /\ back[t] # <<>> BY NotBase, InCall
<1> QED BY <1>1, GoKeeps DEF InnerStep

LEMMA CallInner ==
    ASSUME StackInv, NEW t \in Threads, at[t].op \in CallOps, StillChosen, NEW q \in Places(Chosen'), NEW r \in Places(Chosen'),
           at' = [at EXCEPT ![t] = q], back' = [back EXCEPT ![t] = <<r>> \o @],
           q.op \in Calls(t, Base(t)), r.op \in Calls(t, Base(t)) \cap Paused
    PROVE  StackInv' /\ InnerStep(t) /\ OthersStay(t) /\ at'[t] = q
<1>1. at[t].op \notin Bases(t) /\ back[t] # <<>> BY NotBase, InCall
<1> QED BY <1>1, CallKeeps DEF InnerStep

LEMMA ReturnInner ==
    ASSUME StackInv, NEW t \in Threads, at[t].op \in CallOps, StillChosen, Return(t)
    PROVE  StackInv' /\ InnerStep(t) /\ OthersStay(t) /\ at'[t].op \notin HoldsCard
<1>1. at[t].op \notin Bases(t) BY NotBase
<1>2. \A u \in Threads : Returns(u) \cap HoldsCard = {}
  BY DEF Threads, Returns, HoldsCard
<1>3. at'[t].op \in Returns(t) \/ at'[t].op \in Calls(t, Base(t)) \cap Paused BY <1>1, ReturnKeeps
<1> QED BY <1>1, <1>2, <1>3, ReturnKeeps DEF InnerStep, Paused, HoldsCard

\* Nobody else is where the card's mutex is held.
LEMMA OthersHold ==
    ASSUME CardInv, NEW t \in Threads, OthersStay(t), lock["card"] \in {NoOne, t}
    PROVE  \A u \in Threads \ {t} : at'[u].op \notin HoldsCard
<1>1. NoOne \notin Threads BY DEF NoOne, Threads
<1> QED BY <1>1 DEF CardInv, OthersStay

LEMMA LocksAre ==
    ASSUME CardInv, NEW l \in Locks
    PROVE  /\ \A t : lock' = [lock EXCEPT ![l] = t] =>
                 /\ lock' = [m \in Locks |-> lock'[m]] /\ lock'[l] = t
                 /\ \A m \in Locks \ {l} : lock'[m] = lock[m]
BY DEF CardInv

\* What a handler's threads still have to do, and what is listed or put aside, make up for
\* the flag x.
Even(l, p, a, r, x) == l + a + (IF p = -1 THEN 0 ELSE p) = r + x
Flag(b) == IF b THEN 1 ELSE 0

LEMMA EvenSet ==
    ASSUME NEW l \in Nat, NEW p \in Nat \cup {-1}, NEW a \in Nat, NEW r \in Nat, NEW x \in {0, 1}, Even(l, p, a, r, x)
    PROVE  \A a2, r2 \in Nat, z \in {0, 1} : a2 - r2 = a - r + z - x => Even(l, p, a2, r2, z)
BY DEF Even

LEMMA Evens ==
    ASSUME NEW l \in Nat, NEW p \in Nat \cup {-1}, NEW a \in Nat, NEW r \in Nat, NEW x \in {0, 1}, Even(l, p, a, r, x)
    PROVE  /\ p = -1 => Even(l + 1, p, a - 1, r, x) /\ Even(l - 1, p, a, r - 1, x) /\ Even(l - 1, p, a, r, x - 1)
           /\ Even(l, p, a, r + 1, x - 1)
           /\ p = -1 => Even(0, l, a, r, x)
           /\ p # -1 /\ l = 0 => Even(p, -1, a, r, x)
<1>1. CASE p = -1 BY <1>1 DEF Even
<1>2. CASE p # -1 BY <1>2 DEF Even
<1> QED BY <1>1, <1>2

LEMMA HandlerWas ==
    ASSUME HandlerInv
    PROVE  /\ registered \in BOOLEAN /\ listed \in Nat /\ pending \in [add : Nat, rm : Nat]
           /\ pending.add \in Nat /\ pending.rm \in Nat
           /\ pushed \in Nat \cup {-1} /\ overtaken \in BOOLEAN
           /\ ~overtaken => (pushed # -1 => listed = 0) /\ Even(listed, pushed, pending.add, pending.rm, Flag(registered))
BY DEF HandlerInv, Even, Flag

LEMMA HandlerNow ==
    ASSUME registered' \in BOOLEAN, listed' \in Nat, pending' \in [add : Nat, rm : Nat],
           pushed' \in Nat \cup {-1}, overtaken' \in BOOLEAN,
           ~overtaken' => (pushed' # -1 => listed' = 0) /\ Even(listed', pushed', pending'.add, pending'.rm, Flag(registered'))
    PROVE  HandlerInv'
BY DEF HandlerInv, Even, Flag

LEMMA FlagIs == ASSUME NEW b \in BOOLEAN PROVE Flag(b) \in {0, 1} /\ (b => Flag(b) = 1) /\ (~b => Flag(b) = 0)
BY DEF Flag

\* A handler that is taken out of the list in time.
GoneWell ==
    /\ listed' \in Nat /\ overtaken' \in BOOLEAN
    /\ ~overtaken' => ~overtaken /\ pushed = -1 /\ listed' = listed - 1

LEMMA HandlerGone == ASSUME HandlerInv, HandlerGoes PROVE GoneWell
<1>1. listed \in Nat /\ overtaken \in BOOLEAN BY HandlerWas
<1>2. overtaken' = (overtaken \/ listed = 0 \/ pushed # -1) BY DEF HandlerGoes
<1>3. ~overtaken' => ~overtaken /\ pushed = -1 /\ listed # 0 BY <1>2, Zenon
<1>4. overtaken' \in BOOLEAN BY <1>2
<1>5. listed' = IF listed > 0 THEN listed - 1 ELSE 0 BY DEF HandlerGoes
<1>6. listed' \in Nat /\ (listed # 0 => listed' = listed - 1) BY <1>1, <1>5
<1> QED BY <1>3, <1>4, <1>6 DEF GoneWell

HandlerChanges(b) ==
    pending' = IF b /\ ~registered THEN [pending EXCEPT !.add = @ + 1]
               ELSE IF ~b /\ registered THEN [pending EXCEPT !.rm = @ + 1] ELSE pending

LEMMA HandlerSet ==
    ASSUME HandlerInv, NEW b \in BOOLEAN, registered' = b, UNCHANGED <<listed, pushed, overtaken>>, HandlerChanges(b)
    PROVE  HandlerInv'
<1>1. PICK x \in {0, 1} : x = Flag(registered) BY FlagIs, HandlerWas
<1>2. PICK y \in {0, 1} : y = Flag(b) BY FlagIs
<1>3. x \in Int /\ y \in Int OBVIOUS
<1>4. pending' \in [add : Nat, rm : Nat] /\ pending'.add - pending'.rm = pending.add - pending.rm + y - x
  <2>1. CASE b /\ ~registered
    <3>1. x = 0 /\ y = 1 BY <1>1, <1>2, <2>1 DEF Flag
    <3>2. pending' = [pending EXCEPT !.add = @ + 1] BY <2>1 DEF HandlerChanges
    <3> QED BY <3>1, <3>2, HandlerWas
  <2>2. CASE ~b /\ registered
    <3>1. x = 1 /\ y = 0 BY <1>1, <1>2, <2>2 DEF Flag
    <3>2. pending' = [pending EXCEPT !.rm = @ + 1] BY <2>2 DEF HandlerChanges
    <3> QED BY <3>1, <3>2, HandlerWas
  <2>3. CASE b = registered
    <3>1. x = y BY <1>1, <1>2, <2>3
    <3>2. pending' = pending BY <2>3 DEF HandlerChanges
    <3> QED BY <1>3, <3>1, <3>2, HandlerWas
  <2> QED BY <2>1, <2>2, <2>3, HandlerWas
<1>5. ASSUME ~overtaken'
      PROVE  (pushed' # -1 => listed' = 0) /\ Even(listed', pushed', pending'.add, pending'.rm, y)
  <2>1. (pushed # -1 => listed = 0) /\ Even(listed, pushed, pending.add, pending.rm, x) BY <1>1, <1>5, HandlerWas
  <2>2. PICK l \in Nat, p \in Nat \cup {-1}, a \in Nat, r \in Nat :
            l = listed /\ p = pushed /\ a = pending.add /\ r = pending.rm
    BY HandlerWas
  <2>3. PICK a2 \in Nat, r2 \in Nat : a2 = pending'.add /\ r2 = pending'.rm BY <1>4
  <2>4. Even(l, p, a, r, x) BY <2>1, <2>2
  <2>5. a2 - r2 = a - r + y - x BY <1>4, <2>2, <2>3
  <2>6. Even(l, p, a2, r2, y) BY <2>4, <2>5, EvenSet
  <2> QED BY <2>1, <2>2, <2>3, <2>6
<1>6. registered' \in BOOLEAN /\ listed' \in Nat /\ pushed' \in Nat \cup {-1} /\ overtaken' \in BOOLEAN BY HandlerWas
<1>7. y = Flag(registered') BY <1>2
<1> QED BY <1>4, <1>5, <1>6, <1>7, HandlerNow

LEMMA CardCallKeeps ==
    ASSUME UiInv, NEW t \in Threads, CardCall(t), UNCHANGED uiVars
    PROVE  UiInv'
<1> USE DEF UiInv
<1>0. /\ StillChosen /\ Chosen' = Chosen /\ Chosen \in BOOLEAN
      /\ UNCHANGED <<check_keys, exit_ui_code, selected_rom, method, auto_boot_rom, left, late, ticking>>
      /\ {"card", "exit", "workers"} \subseteq Locks
      /\ \A t1 \in Threads : NoOne # t1
      /\ lock = [l \in Locks |-> lock[l]]
  <2>1. UNCHANGED <<check_keys, exit_ui_code, selected_rom, method, auto_boot_rom, left, late, ticking>> BY DEF uiVars
  <2>2. Chosen' = Chosen /\ Chosen \in BOOLEAN BY <2>1 DEF Chosen
  <2>3. StillChosen BY <2>2 DEF StillChosen
  <2>4. {"card", "exit", "workers"} \subseteq Locks /\ \A t1 \in Threads : NoOne # t1 BY DEF Locks, NoOne, Threads
  <2>5. lock = [l \in Locks |-> lock[l]] BY DEF CardInv
  <2> QED BY <2>1, <2>2, <2>3, <2>4, <2>5
<1>1. ASSUME at[t].op \in ShowOps \cup HideOps
      PROVE  at[t].op \in CallOps /\ at[t].op # "join input" /\ ShowOps \cup HideOps \subseteq Calls(t, Base(t)) /\ at[t] \in Places(Chosen)
  BY <1>1, NotBase, InCall, CardOps DEF CallOps, ShowOps, HideOps
<1>2. ASSUME StackInv', InnerStep(t), at[t].op # "join input", CardInv', ShownInv', pushed' = pushed,
             lock'["exit"] = lock["exit"], lock'["workers"] = lock["workers"]
      PROVE  UiInv'
  BY <1>0, <1>2, InnerKeeps
<1>3. CASE ShowLocked(t)
  <2>1. at[t].op = "show" /\ at[t].op \in ShowOps BY <1>3 DEF ShowLocked, At, ShowOps
  <2>2. PICK q : q = [at[t] EXCEPT !.op = "show set"] OBVIOUS
  <2>3. q \in Places(Chosen') /\ q.op = "show set" BY <1>0, <1>1, <2>1, <2>2, ShowOn DEF ShowOps
  <2>4. at' = [at EXCEPT ![t] = q] /\ back' = back BY <1>3, <2>2 DEF ShowLocked
  <2>5. StackInv' /\ InnerStep(t) /\ OthersStay(t) /\ at'[t] = q
    BY <1>0, <1>1, <2>1, <2>3, <2>4, GoInner DEF ShowOps
  <2>6. lock["card"] = NoOne /\ lock' = [lock EXCEPT !["card"] = t] /\ HandlersAlone /\ card' = card
    BY <1>3 DEF ShowLocked, Take, Free
  <2>7. lock' = [m \in Locks |-> lock'[m]] /\ lock'["card"] = t /\ lock'["exit"] = lock["exit"] /\ lock'["workers"] = lock["workers"]
    BY <1>0, <2>6, LocksAre
  <2>8. \A u \in Threads : at'[u].op \in HoldsCard => u = t BY <2>5, <2>6, OthersHold
  <2>9. CardInv'
    <3>1. \A u \in Threads : at'[u].op # "hide handler" BY <2>3, <2>5, <2>8 DEF HoldsCard
    <3> QED BY <2>6, <2>7, <2>8, <3>1 DEF CardInv, HandlerInv, HandlersAlone
  <2>10. ShownInv' BY <1>0, <2>6, ShownKept
  <2> QED BY <1>1, <1>2, <2>1, <2>5, <2>6, <2>7, <2>9, <2>10 DEF HandlersAlone
<1>4. CASE ShowHides(t)
  <2>1. at[t].op = "show" /\ at[t].op \in ShowOps BY <1>4 DEF ShowHides, At, ShowOps
  <2>2. PICK r : r = [at[t] EXCEPT !.op = "show again"] OBVIOUS
  <2>3. r \in Places(Chosen') /\ r.op = "show again" BY <1>0, <1>1, <2>1, <2>2, ShowOn DEF ShowOps
  <2>4. PICK q : q = Place("hide") OBVIOUS
  <2>5. q \in Places(Chosen') /\ q.op = "hide" BY <1>0, <2>4, PlaceOf DEF HideOps
  <2>6. at' = [at EXCEPT ![t] = q] /\ back' = [back EXCEPT ![t] = <<r>> \o @] /\ lock' = lock /\ card' = card /\ HandlersAlone
    BY <1>4, <2>2, <2>4 DEF ShowHides, Call
  <2>7. StackInv' /\ InnerStep(t) /\ OthersStay(t) /\ at'[t] = q
    BY <1>0, <1>1, <2>1, <2>3, <2>5, <2>6, CallInner DEF ShowOps, HideOps, Paused
  <2>8. CardInv'
    <3>1. \A u \in Threads : at'[u].op \in HoldsCard => at'[u].op = at[u].op
      BY <2>5, <2>7 DEF OthersStay, HoldsCard
    <3> QED BY <1>0, <2>6, <3>1, CardKept DEF HandlersAlone
  <2>9. ShownInv' BY <1>0, <2>6, ShownKept
  <2> QED BY <1>1, <1>2, <2>1, <2>6, <2>7, <2>8, <2>9 DEF HandlersAlone
<1>5. CASE ShowAgain(t)
  <2>1. at[t].op = "show again" /\ at[t].op \in ShowOps BY <1>5 DEF ShowAgain, At, ShowOps
  <2>2. PICK q : q = [at[t] EXCEPT !.op = "show set"] OBVIOUS
  <2>3. q \in Places(Chosen') /\ q.op = "show set" BY <1>0, <1>1, <2>1, <2>2, ShowOn DEF ShowOps
  <2>4. at' = [at EXCEPT ![t] = q] /\ back' = back BY <1>5, <2>2 DEF ShowAgain
  <2>5. StackInv' /\ InnerStep(t) /\ OthersStay(t) /\ at'[t] = q
    BY <1>0, <1>1, <2>1, <2>3, <2>4, GoInner DEF ShowOps
  <2>6. lock["card"] = NoOne /\ lock' = [lock EXCEPT !["card"] = t] /\ HandlersAlone /\ card' = card
    BY <1>5 DEF ShowAgain, Take, Free
  <2>7. lock' = [m \in Locks |-> lock'[m]] /\ lock'["card"] = t /\ lock'["exit"] = lock["exit"] /\ lock'["workers"] = lock["workers"]
    BY <1>0, <2>6, LocksAre
  <2>8. \A u \in Threads : at'[u].op \in HoldsCard => u = t BY <2>5, <2>6, OthersHold
  <2>9. CardInv'
    <3>1. \A u \in Threads : at'[u].op # "hide handler" BY <2>3, <2>5, <2>8 DEF HoldsCard
    <3> QED BY <2>6, <2>7, <2>8, <3>1 DEF CardInv, HandlerInv, HandlersAlone
  <2>10. ShownInv' BY <1>0, <2>6, ShownKept
  <2> QED BY <1>1, <1>2, <2>1, <2>5, <2>6, <2>7, <2>9, <2>10 DEF HandlersAlone
<1>6. CASE ShowSet(t)
  <2>1. at[t].op = "show set" /\ at[t].op \in ShowOps BY <1>6 DEF ShowSet, At, ShowOps
  <2>2. lock["card"] = t /\ lock' = [lock EXCEPT !["card"] = NoOne] /\ Return(t) /\ UNCHANGED <<listed, pushed, overtaken>>
    BY <1>6, <2>1 DEF ShowSet, Drop, CardInv, HoldsCard
  <2>3. StackInv' /\ InnerStep(t) /\ OthersStay(t) /\ at'[t].op \notin HoldsCard
    BY <1>0, <1>1, <2>1, <2>2, ReturnInner
  <2>4. lock' = [m \in Locks |-> lock'[m]] /\ lock'["exit"] = lock["exit"] /\ lock'["workers"] = lock["workers"]
    BY <1>0, <2>2, LocksAre
  <2>5. \A u \in Threads : at'[u].op \notin HoldsCard BY <2>2, <2>3, OthersHold
  <2>6. PICK k : k = at[t].kind OBVIOUS
  <2>7. k \in KindsFor(Chosen) BY <1>0, <1>1, <2>1, <2>6, ShowOn DEF ShowOps
  <2>8. card' = Card(k) /\ registered' = Card(k).btns /\ HandlerChanges(Card(k).btns)
    BY <1>6, <2>6 DEF ShowSet, HandlerChanges
  <2>9. Card(k).btns \in BOOLEAN /\ Card(k).kind = k BY DEF Card
  <2>10. CardInv'
    <3>1. HandlerInv BY DEF CardInv
    <3>5. HandlerInv' BY <2>2, <2>8, <2>9, <3>1, HandlerSet
    <3> QED BY <2>4, <2>5, <3>5 DEF CardInv, HoldsCard
  <2>11. ShownInv' BY <1>0, <2>7, <2>8, <2>9 DEF ShownInv
  <2> QED BY <1>1, <1>2, <2>1, <2>2, <2>3, <2>4, <2>10, <2>11
<1>7. CASE HideLooked(t)
  <2>1. at[t].op = "hide" /\ at[t].op \in HideOps BY <1>7 DEF HideLooked, At, HideOps
  <2>2. lock' = lock /\ card' = card /\ HandlersAlone BY <1>7 DEF HideLooked
  <2>3. StackInv' /\ InnerStep(t) /\ OthersStay(t) /\ at'[t].op \notin HoldsCard
    <3>1. CASE card.shown
      <4>1. PICK q : q = Place("hide lock") OBVIOUS
      <4>2. q \in Places(Chosen') /\ q.op = "hide lock" BY <1>0, <4>1, PlaceOf DEF HideOps
      <4>3. at' = [at EXCEPT ![t] = q] /\ back' = back BY <1>7, <3>1, <4>1 DEF HideLooked, Go
      <4> QED BY <1>0, <1>1, <2>1, <4>2, <4>3, GoInner DEF HideOps, HoldsCard
    <3>2. CASE ~card.shown
      <4>1. Return(t) BY <1>7, <3>2 DEF HideLooked
      <4> QED BY <1>0, <1>1, <2>1, <4>1, ReturnInner
    <3> QED BY <3>1, <3>2
  <2>4. CardInv'
    <3>1. \A u \in Threads : at'[u].op \in HoldsCard => at'[u].op = at[u].op BY <2>3 DEF OthersStay
    <3> QED BY <1>0, <2>2, <3>1, CardKept DEF HandlersAlone
  <2>5. ShownInv' BY <1>0, <2>2, ShownKept
  <2> QED BY <1>1, <1>2, <2>1, <2>2, <2>3, <2>4, <2>5 DEF HandlersAlone
<1>8. CASE HideLocked(t)
  <2>1. at[t].op = "hide lock" /\ at[t].op \in HideOps BY <1>8 DEF HideLocked, At, HideOps
  <2>2. PICK o : o = IF registered THEN "hide handler" ELSE "hide unlock" OBVIOUS
  <2>3. PICK q : q = Place(o) OBVIOUS
  <2>4. q \in Places(Chosen') /\ q.op = o /\ o \in HideOps BY <1>0, <2>2, <2>3, PlaceOf DEF HideOps
  <2>5. at' = [at EXCEPT ![t] = q] /\ back' = back BY <1>8, <2>2, <2>3 DEF HideLocked, Go
  <2>6. StackInv' /\ InnerStep(t) /\ OthersStay(t) /\ at'[t] = q
    BY <1>0, <1>1, <2>1, <2>4, <2>5, GoInner
  <2>7. lock["card"] = NoOne /\ lock' = [lock EXCEPT !["card"] = t] /\ HandlersAlone /\ card' = [card EXCEPT !.shown = FALSE]
    BY <1>8 DEF HideLocked, Take, Free
  <2>8. lock' = [m \in Locks |-> lock'[m]] /\ lock'["card"] = t /\ lock'["exit"] = lock["exit"] /\ lock'["workers"] = lock["workers"]
    BY <1>0, <2>7, LocksAre
  <2>9. \A u \in Threads : at'[u].op \in HoldsCard => u = t BY <2>6, <2>7, OthersHold
  <2>10. CardInv'
    <3>1. \A u \in Threads : at'[u].op = "hide handler" => registered'
      BY <2>2, <2>4, <2>6, <2>7, <2>9 DEF HoldsCard, HandlersAlone
    <3> QED BY <2>7, <2>8, <2>9, <3>1 DEF CardInv, HandlerInv, HandlersAlone
  <2>11. ShownInv'
    <3>1. card'.kind = card.kind BY <2>7
    <3> QED BY <1>0, <3>1 DEF ShownInv
  <2> QED BY <1>1, <1>2, <2>1, <2>6, <2>7, <2>8, <2>10, <2>11 DEF HandlersAlone
<1>9. CASE HideHandler(t)
  <2>1. at[t].op = "hide handler" /\ at[t].op \in HideOps BY <1>9 DEF HideHandler, At, HideOps
  <2>2. PICK q : q = Place("hide unlock") OBVIOUS
  <2>3. q \in Places(Chosen') /\ q.op = "hide unlock" BY <1>0, <2>2, PlaceOf DEF HideOps
  <2>4. /\ at' = [at EXCEPT ![t] = q] /\ back' = back /\ lock' = lock /\ card' = card /\ pushed' = pushed
        /\ HandlerRemoved(t) /\ registered' = FALSE
    BY <1>9, <2>2 DEF HideHandler, Go
  <2>5. StackInv' /\ InnerStep(t) /\ OthersStay(t) /\ at'[t] = q
    BY <1>0, <1>1, <2>1, <2>3, <2>4, GoInner DEF HideOps
  <2>6. lock["card"] = t /\ registered BY <2>1 DEF CardInv, HoldsCard
  <2>7. \A u \in Threads : at'[u].op \in HoldsCard => u = t BY <2>5, <2>6, OthersHold
  <2>8. \A u \in Threads : at'[u].op # "hide handler" BY <2>3, <2>5, <2>7 DEF HoldsCard
  <2>9. CardInv'
    <3>1. HandlerInv BY DEF CardInv
    <3>2. Flag(registered) = 1 /\ Flag(registered') = 0 /\ 1 - 1 = 0 BY <2>4, <2>6 DEF Flag
    <3>3. listed' \in Nat /\ pending' \in [add : Nat, rm : Nat] /\ overtaken' \in BOOLEAN
          /\ (~overtaken' => (pushed' # -1 => listed' = 0) /\ Even(listed', pushed', pending'.add, pending'.rm, 0))
      <4>1. CASE t = "input"
        <5>1. pending' = [pending EXCEPT !.rm = @ + 1] /\ listed' = listed /\ overtaken' = overtaken
          BY <2>4, <4>1 DEF HandlerRemoved
        <5>2. pending' \in [add : Nat, rm : Nat] /\ pending'.rm = pending.rm + 1 /\ pending'.add = pending.add
          BY <3>1, <5>1, HandlerWas
        <5>3. ~overtaken => Even(listed, pushed, pending.add, pending.rm + 1, 0)
          BY <3>1, <3>2, HandlerWas, Evens
        <5> QED BY <2>4, <3>1, <5>1, <5>2, <5>3, HandlerWas
      <4>2. CASE t # "input"
        <5>1. HandlerGoes /\ pending' = pending BY <2>4, <4>2 DEF HandlerRemoved
        <5>2. GoneWell BY <3>1, <5>1, HandlerGone
        <5>3. ~overtaken' => Even(listed - 1, pushed, pending.add, pending.rm, 0)
          BY <3>1, <3>2, <5>2, HandlerWas, Evens DEF GoneWell
        <5> QED BY <2>4, <3>1, <5>1, <5>2, <5>3, HandlerWas DEF GoneWell
      <4> QED BY <4>1, <4>2
    <3>4. HandlerInv' BY <2>4, <3>1, <3>2, <3>3, HandlerWas, HandlerNow
    <3> QED BY <2>4, <2>6, <2>7, <2>8, <3>4 DEF CardInv
  <2>10. ShownInv' BY <1>0, <2>4, ShownKept
  <2> QED BY <1>1, <1>2, <2>1, <2>4, <2>5, <2>9, <2>10
<1>10. CASE HideUnlocked(t)
  <2>1. at[t].op = "hide unlock" /\ at[t].op \in HideOps BY <1>10 DEF HideUnlocked, At, HideOps
  <2>2. lock["card"] = t /\ lock' = [lock EXCEPT !["card"] = NoOne] /\ card' = card /\ HandlersAlone
    BY <1>10, <2>1 DEF HideUnlocked, Drop, CardInv, HoldsCard
  <2>3. StackInv' /\ InnerStep(t) /\ OthersStay(t) /\ at'[t].op \notin HoldsCard
    <3>1. CASE card.on_hidden
      <4>1. PICK q : q = Place("hidden") OBVIOUS
      <4>2. q \in Places(Chosen') /\ q.op = "hidden" BY <1>0, <4>1, PlaceOf DEF HideOps
      <4>3. at' = [at EXCEPT ![t] = q] /\ back' = back BY <1>10, <3>1, <4>1 DEF HideUnlocked, Go
      <4> QED BY <1>0, <1>1, <2>1, <4>2, <4>3, GoInner DEF HideOps, HoldsCard
    <3>2. CASE ~card.on_hidden
      <4>1. Return(t) BY <1>10, <3>2 DEF HideUnlocked
      <4> QED BY <1>0, <1>1, <2>1, <4>1, ReturnInner
    <3> QED BY <3>1, <3>2
  <2>4. lock' = [m \in Locks |-> lock'[m]] /\ lock'["exit"] = lock["exit"] /\ lock'["workers"] = lock["workers"]
    BY <1>0, <2>2, LocksAre
  <2>5. \A u \in Threads : at'[u].op \notin HoldsCard BY <2>2, <2>3, OthersHold
  <2>6. CardInv' BY <2>2, <2>4, <2>5 DEF CardInv, HandlerInv, HandlersAlone, HoldsCard
  <2>7. ShownInv' BY <1>0, <2>2, ShownKept
  <2> QED BY <1>1, <1>2, <2>1, <2>2, <2>3, <2>4, <2>6, <2>7 DEF HandlersAlone
<1>11. CASE AutoHidden(t)
  <2>1. at[t].op = "hidden" /\ at[t].op \in HideOps BY <1>11 DEF AutoHidden, At, HideOps
  <2>2. lock' = lock /\ card' = card /\ HandlersAlone /\ Return(t) BY <1>11 DEF AutoHidden
  <2>3. StackInv' /\ InnerStep(t) /\ OthersStay(t) /\ at'[t].op \notin HoldsCard
    BY <1>0, <1>1, <2>1, <2>2, ReturnInner
  <2>4. CardInv'
    <3>1. \A u \in Threads : at'[u].op \in HoldsCard => at'[u].op = at[u].op BY <2>3 DEF OthersStay
    <3> QED BY <1>0, <2>2, <3>1, CardKept DEF HandlersAlone
  <2>5. ShownInv' BY <1>0, <2>2, ShownKept
  <2> QED BY <1>1, <1>2, <2>1, <2>2, <2>3, <2>4, <2>5 DEF HandlersAlone
<1> QED BY <1>3, <1>4, <1>5, <1>6, <1>7, <1>8, <1>9, <1>10, <1>11 DEF CardCall

-----------------------------------------------------------------------------
\* The threads of the handlers, and a step that changes nothing.

LEMMA NoneMoves ==
    ASSUME UiInv, UNCHANGED <<at, back, lock, card, registered, pushed, uiVars>>, HandlerInv'
    PROVE  UiInv'
<1> USE DEF UiInv
<1>1. /\ UNCHANGED <<check_keys, exit_ui_code, selected_rom, method, auto_boot_rom, left, late, ticking>>
      /\ UNCHANGED <<at, back, lock, card, registered, pushed>>
  BY DEF uiVars
<1>2. Step' = Step BY <1>1 DEF Step, Base
<1>3. Chosen' = Chosen BY <1>1 DEF Chosen
<1>4. StackInv' BY <1>1, <1>3 DEF StackInv
<1>5. CardInv'
  <2>1. lock' = [l \in Locks |-> lock'[l]] BY <1>1 DEF CardInv
  <2>2. \A t \in Threads : at'[t].op \in HoldsCard => lock'["card"] = t BY <1>1 DEF CardInv
  <2>3. \A t \in Threads : at'[t].op = "hide handler" => registered'
    <3> SUFFICES ASSUME NEW t \in Threads, at'[t].op = "hide handler" PROVE registered' OBVIOUS
    <3>1. at[t].op = "hide handler" BY <1>1
    <3>2. registered = TRUE BY <3>1 DEF CardInv
    <3>3. registered' = TRUE BY <1>1, <3>2
    <3> QED BY <3>3
  <2> QED BY <2>1, <2>2, <2>3 DEF CardInv
<1>6. SameThreads BY <1>1, <1>2 DEF SameThreads, At
<1>7. ThreadsInv' BY <1>1, <1>6, ThreadsKept
<1>8. AnswerInv' BY <1>1, <1>2, AnswerKept
<1>9. PushedInv' BY <1>1, <1>2, PushedKept
<1>10. ShownInv' BY <1>1, <1>3, ShownKept DEF StillChosen
<1> QED BY <1>4, <1>5, <1>7, <1>8, <1>9, <1>10

HandlerAdded == /\ pending.add > 0 /\ pending' = [pending EXCEPT !.add = @ - 1]
                /\ listed' = listed + 1 /\ overtaken' = (overtaken \/ pushed # -1)
HandlerTaken == pending.rm > 0 /\ pending' = [pending EXCEPT !.rm = @ - 1] /\ HandlerGoes

LEMMA HandlerAddedKeeps == ASSUME HandlerInv, HandlerAdded, UNCHANGED <<registered, pushed>> PROVE HandlerInv'
<1>1. PICK x \in {0, 1} : x = Flag(registered) BY FlagIs, HandlerWas
<1>2. PICK l \in Nat, p \in Nat \cup {-1}, a \in Nat, r \in Nat :
          l = listed /\ p = pushed /\ a = pending.add /\ r = pending.rm
  BY HandlerWas
<1>3. /\ pending' \in [add : Nat, rm : Nat] /\ pending'.add = a - 1 /\ pending'.rm = r /\ listed' = l + 1
      /\ listed' \in Nat
  BY <1>2, HandlerWas DEF HandlerAdded
<1>4. overtaken' = (overtaken \/ pushed # -1) BY DEF HandlerAdded
<1>5. (~overtaken' => ~overtaken /\ p = -1) /\ overtaken' \in BOOLEAN BY <1>2, <1>4, Zenon
<1>6. ~overtaken => Even(l, p, a, r, x) BY <1>1, <1>2, HandlerWas
<1>7. ~overtaken' => Even(l + 1, p, a - 1, r, x) BY <1>5, <1>6, Evens, Zenon
<1>8. ~overtaken' => (pushed' # -1 => listed' = 0) /\ Even(listed', pushed', pending'.add, pending'.rm, Flag(registered'))
  BY <1>1, <1>2, <1>3, <1>5, <1>7
<1> QED BY <1>3, <1>5, <1>8, HandlerWas, HandlerNow

LEMMA HandlerTakenKeeps == ASSUME HandlerInv, HandlerTaken, UNCHANGED <<registered, pushed>> PROVE HandlerInv'
<1>1. PICK x \in {0, 1} : x = Flag(registered) BY FlagIs, HandlerWas
<1>2. PICK l \in Nat, p \in Nat \cup {-1}, a \in Nat, r \in Nat :
          l = listed /\ p = pushed /\ a = pending.add /\ r = pending.rm
  BY HandlerWas
<1>3. /\ pending' \in [add : Nat, rm : Nat] /\ pending'.add = a /\ pending'.rm = r - 1 /\ HandlerGoes
  BY <1>2, HandlerWas DEF HandlerTaken
<1>4. GoneWell BY <1>3, HandlerGone
<1>5. (~overtaken' => ~overtaken /\ p = -1 /\ listed' = l - 1) /\ overtaken' \in BOOLEAN /\ listed' \in Nat
  BY <1>2, <1>4 DEF GoneWell
<1>6. ~overtaken => Even(l, p, a, r, x) BY <1>1, <1>2, HandlerWas
<1>7. ~overtaken' => Even(l - 1, p, a, r - 1, x) BY <1>5, <1>6, Evens, Zenon
<1>8. ~overtaken' => (pushed' # -1 => listed' = 0) /\ Even(listed', pushed', pending'.add, pending'.rm, Flag(registered'))
  BY <1>1, <1>2, <1>3, <1>5, <1>7
<1> QED BY <1>3, <1>5, <1>8, HandlerWas, HandlerNow

LEMMA HandlerThreadKeeps == ASSUME UiInv, HandlerThread, UNCHANGED uiVars PROVE UiInv'
<1>1. UNCHANGED <<at, back, lock, card, registered, pushed>> /\ (HandlerAdded \/ HandlerTaken)
  BY DEF HandlerThread, HandlerAdded, HandlerTaken
<1>2. HandlerInv BY DEF UiInv, CardInv
<1>3. HandlerInv' BY <1>1, <1>2, HandlerAddedKeeps, HandlerTakenKeeps
<1> QED BY <1>1, <1>3, NoneMoves

-----------------------------------------------------------------------------
\* Steps of the other threads that concern neither the card nor the answer.

LEMMA BasesPlain == ASSUME NEW t \in Threads PROVE Bases(t) \subseteq Plain /\ Bases(t) \cap HoldsCard = {}
<1> USE DEF Bases, Plain, HoldsCard, MainBases
<1>1. CASE t = "main" BY <1>1
<1>2. CASE t = "input" BY <1>2
<1>3. CASE t = "worker" BY <1>3
<1>4. CASE t = "refresh" BY <1>4
<1> QED BY <1>1, <1>2, <1>3, <1>4 DEF Threads

LEMMA GoBase ==
    ASSUME StackInv, NEW t \in Threads, at[t].op \in Bases(t), NEW o \in Bases(t), Place1(t, o), StillChosen
    PROVE  StackInv' /\ OthersStay(t) /\ at'[t].op = o /\ Under(at'[t], back'[t]) = o /\ o \notin HoldsCard
<1>1. PICK q : q = Place(o) OBVIOUS
<1>2. Chosen' \in BOOLEAN /\ o \in Plain /\ o \notin HoldsCard BY BasesPlain DEF Chosen
<1>3. q \in Places(Chosen') /\ q.op = o BY <1>1, <1>2, PlaceOf
<1>4. back[t] = <<>> BY WasStacked
<1>5. at' = [at EXCEPT ![t] = q] /\ back' = back BY <1>1 DEF Place1, Go
<1> QED BY <1>2, <1>3, <1>4, <1>5, GoKeeps

LEMMA GoCall ==
    ASSUME StackInv, NEW t \in Threads, at[t].op \in CallOps, StillChosen,
           NEW o \in Calls(t, Base(t)), o \in Plain, Place1(t, o)
    PROVE  StackInv' /\ InnerStep(t) /\ OthersStay(t) /\ at'[t].op = o
<1>1. PICK q : q = Place(o) OBVIOUS
<1>2. Chosen' \in BOOLEAN BY DEF Chosen
<1>3. q \in Places(Chosen') /\ q.op = o BY <1>1, <1>2, PlaceOf
<1>4. at' = [at EXCEPT ![t] = q] /\ back' = back BY <1>1 DEF Place1, Go
<1> QED BY <1>3, <1>4, GoInner

LEMMA CallBase ==
    ASSUME StackInv, NEW t \in Threads, at[t].op \in Bases(t), StillChosen,
           NEW q \in Places(Chosen'), NEW r \in Places(Chosen'), Call(t, q, r), r.op \in Returns(t), q.op \in Calls(t, r.op)
    PROVE  StackInv' /\ OthersStay(t) /\ at'[t] = q /\ Under(at'[t], back'[t]) = r.op
<1>1. back[t] = <<>> BY WasStacked
<1> QED BY <1>1, CallKeeps DEF Call

LocksKept ==
    /\ lock' = [l \in Locks |-> lock'[l]]
    /\ lock'["card"] = lock["card"] /\ lock'["exit"] = lock["exit"] /\ lock'["workers"] = lock["workers"]

LEMMA LocksAlone == CardInv /\ lock' = lock => LocksKept
BY DEF LocksKept, CardInv

LEMMA LockOther ==
    ASSUME CardInv, NEW l \in {"touch", "auto", "start"}, NEW x, lock' = [lock EXCEPT ![l] = x]
    PROVE  LocksKept
<1>1. l \in Locks /\ {"card", "exit", "workers"} \subseteq Locks \ {l} BY DEF Locks
<1> QED BY <1>1, LocksAre DEF LocksKept

AnswersStay == UNCHANGED <<check_keys, exit_ui_code, selected_rom, method, auto_boot_rom, left, late>>

\* A step in a call.
LEMMA InnerAll ==
    ASSUME UiInv, NEW t \in Threads, StackInv', InnerStep(t), at[t].op # "join input", at'[t].op \notin HoldsCard,
           AnswersStay, ticking' = ticking, CardAlone, LocksKept
    PROVE  UiInv'
<1> USE DEF UiInv, LocksKept, AnswersStay, CardAlone
<1>1. ThreadsInv' /\ AnswerInv' /\ PushedInv' BY InnerKeeps
<1>2. \A u \in Threads : at'[u].op \in HoldsCard => at'[u].op = at[u].op BY DEF InnerStep, OthersStay
<1>3. CardInv' BY <1>2, CardKept
<1>4. ShownInv' BY ShownKept DEF StillChosen, Chosen
<1> QED BY <1>1, <1>3, <1>4

\* One of a thread's own.
LEMMA OtherAll ==
    ASSUME UiInv, NEW t \in {"input", "refresh"}, StackInv', OthersStay(t), at'[t].op \notin HoldsCard,
           t = "input" => ~At("input", "none"), AnswersStay, ticking' = ticking, CardAlone, LocksKept
    PROVE  UiInv'
<1> USE DEF UiInv, LocksKept, AnswersStay, CardAlone
<1>1. t \in Threads /\ t # "main" /\ t # "worker" BY DEF Threads
<1>2. SameThreads BY <1>1, OthersSame DEF SameThreads
<1>3. ThreadsInv' BY <1>2, ThreadsKept
<1>4. AnswerInv' BY <1>2, AnswerKept DEF SameThreads
<1>5. PushedInv' BY <1>2, PushedKept DEF SameThreads
<1>6. \A u \in Threads : at'[u].op \in HoldsCard => at'[u].op = at[u].op BY <1>1 DEF OthersStay
<1>7. CardInv' BY <1>6, CardKept
<1>8. ShownInv' BY ShownKept DEF StillChosen, Chosen
<1> QED BY <1>3, <1>4, <1>5, <1>7, <1>8

-----------------------------------------------------------------------------
\* The input thread.

LEMMA ChosenAlone == AnswersStay => StillChosen
BY DEF AnswersStay, StillChosen, Chosen

LEMMA AnswersAlone == check_keys' = check_keys /\ Answers => AnswersStay
BY DEF Answers, AnswersStay

LEMMA InputCalls ==
    ASSUME NEW b
    PROVE  /\ {"card", "button", "use method", "widgets", "hide", "show", "hidden"} \subseteq Calls("input", b)
           /\ AutoBoot # "none" => "boot now" \in Calls("input", b)
           /\ "input" \in Threads /\ Bases("input") = {"none", "starting", "idle", "touched"}
           /\ Returns("input") = {"idle", "touched"}
           /\ {"card", "button", "use method", "widgets", "hide", "show", "hidden"} \cap HoldsCard = {}
BY DEF Calls, Threads, Bases, Returns, ShowOps, HideOps, Ticks, HoldsCard

LEMMA InputStartsKeeps == ASSUME UiInv, InputStarts \/ InputEnds \/ TouchEnds, check_keys' = check_keys PROVE UiInv'
<1> USE DEF UiInv
<1>1. AnswersStay /\ StillChosen /\ CardAlone /\ ticking' = ticking
  BY AnswersAlone, ChosenAlone DEF InputStarts, InputEnds, TouchEnds, Threading
<1>2. PICK o \in Bases("input") : Place1("input", o)
  BY InputCalls DEF InputStarts, InputEnds, TouchEnds
<1>3. at["input"].op \in Bases("input") /\ at["input"].op # "none"
  BY InputCalls DEF InputStarts, InputEnds, TouchEnds, At
<1>4. LocksKept
  <2>1. lock' = lock \/ lock' = [lock EXCEPT !["touch"] = NoOne] BY DEF InputStarts, InputEnds, TouchEnds, Drop
  <2> QED BY <2>1, LocksAlone, LockOther
<1>5. StackInv' /\ OthersStay("input") /\ at'["input"].op = o /\ o \notin HoldsCard
  BY <1>1, <1>2, <1>3, InputCalls, GoBase
<1> QED BY <1>1, <1>3, <1>4, <1>5, OtherAll DEF At

LEMMA TouchBeginsKeeps == ASSUME UiInv, TouchBegins \/ Key, check_keys' = check_keys PROVE UiInv'
<1> USE DEF UiInv
<1>1. AnswersStay /\ StillChosen /\ CardAlone /\ ticking' = ticking /\ Chosen' \in BOOLEAN
  BY AnswersAlone, ChosenAlone DEF TouchBegins, Key, Threading, Chosen
<1>2. PICK o \in {"card", "widgets", "hide"}, n \in {"touched", "idle"} : Call("input", Place(o), Place(n))
  BY DEF TouchBegins, Key
<1>3. at["input"].op \in Bases("input") /\ at["input"].op # "none" BY InputCalls DEF TouchBegins, Key, At
<1>4. LocksKept
  <2>1. lock' = lock \/ lock' = [lock EXCEPT !["touch"] = "input"] BY DEF TouchBegins, Key, Take
  <2> QED BY <2>1, LocksAlone, LockOther
<1>5. PICK q, r : q = Place(o) /\ r = Place(n) OBVIOUS
<1>6. o \in Plain /\ n \in Plain BY DEF Plain, HideOps
<1>7. q \in Places(Chosen') /\ r \in Places(Chosen') /\ q.op = o /\ r.op = n BY <1>1, <1>5, <1>6, PlaceOf
<1>8. Call("input", q, r) BY <1>2, <1>5
<1>9. r.op \in Returns("input") /\ q.op \in Calls("input", r.op) BY <1>7, InputCalls
<1>10. StackInv' /\ OthersStay("input") /\ at'["input"] = q
  BY <1>1, <1>3, <1>7, <1>8, <1>9, InputCalls, CallBase
<1>11. at'["input"].op \notin HoldsCard BY <1>7, <1>10 DEF HoldsCard
<1> QED BY <1>1, <1>3, <1>4, <1>10, <1>11, OtherAll DEF At

\* A step in a call that leaves the answers alone: elsewhere in it, or back.
LEMMA CallGoes ==
    ASSUME UiInv, NEW t \in Threads, at[t].op \in CallOps, at[t].op # "join input", AnswersStay, ticking' = ticking, CardAlone,
           LocksKept, NEW o \in Calls(t, Base(t)), o \in Plain, o \notin HoldsCard, Place1(t, o)
    PROVE  UiInv'
<1>1. StillChosen BY ChosenAlone
<1>2. StackInv' /\ InnerStep(t) /\ OthersStay(t) /\ at'[t].op = o BY <1>1, GoCall DEF UiInv
<1> QED BY <1>2, InnerAll

LEMMA CallReturns ==
    ASSUME UiInv, NEW t \in Threads, at[t].op \in CallOps, at[t].op # "join input", AnswersStay, ticking' = ticking, CardAlone,
           LocksKept, Return(t)
    PROVE  UiInv'
<1>1. StillChosen BY ChosenAlone
<1>2. StackInv' /\ InnerStep(t) /\ OthersStay(t) /\ at'[t].op \notin HoldsCard BY <1>1, ReturnInner DEF UiInv
<1> QED BY <1>2, InnerAll

LEMMA CardTouchedKeeps == ASSUME UiInv, ncard_touch_handler, check_keys' = check_keys PROVE UiInv'
<1> USE DEF UiInv
<1>1. AnswersStay /\ CardAlone /\ ticking' = ticking /\ LocksKept
  BY AnswersAlone, LocksAlone DEF ncard_touch_handler, Threading
<1>2. at["input"].op \in CallOps /\ at["input"].op # "join input" BY DEF ncard_touch_handler, At, CallOps
<1>3. (\E o \in {"button", "hide", "widgets"} : Place1("input", o)) \/ Return("input") BY DEF ncard_touch_handler
<1>4. CASE Return("input") BY <1>1, <1>2, <1>4, InputCalls, CallReturns
<1>5. ASSUME NEW o \in {"button", "hide", "widgets"}, Place1("input", o) PROVE UiInv'
  <2>1. o \in Plain /\ o \notin HoldsCard BY DEF Plain, HideOps, HoldsCard
  <2>2. o \in Calls("input", Base("input")) BY InputCalls
  <2> QED BY <1>1, <1>2, <1>5, <2>1, <2>2, InputCalls, CallGoes
<1> QED BY <1>3, <1>4, <1>5

LEMMA CardButtonKeeps == ASSUME UiInv, CardButton, check_keys' = check_keys PROVE UiInv'
<1> USE DEF UiInv
<1>1. AnswersStay /\ CardAlone /\ ticking' = ticking /\ LocksKept /\ Chosen' = Chosen /\ Chosen \in BOOLEAN /\ StillChosen
  <2>1. AnswersStay /\ CardAlone /\ ticking' = ticking /\ LocksKept
    BY AnswersAlone, LocksAlone DEF CardButton, Threading
  <2> QED BY <2>1, ChosenAlone DEF AnswersStay, Chosen
<1>2. at["input"].op \in CallOps /\ at["input"].op # "join input" BY DEF CardButton, At, CallOps
<1>3. CASE Place1("input", "hide")
  <2>1. "hide" \in Plain /\ "hide" \notin HoldsCard BY DEF Plain, HideOps, HoldsCard
  <2> QED BY <1>1, <1>2, <1>3, <2>1, InputCalls, CallGoes
<1>4. CASE card.kind = "auto" /\ at' = [at EXCEPT !["input"] = Place("hidden")]
           /\ back' = [back EXCEPT !["input"] = <<Place("boot now")>> \o @]
  <2>1. AutoBoot # "none" BY <1>4 DEF ShownInv, KindsFor
  <2>2. PICK q, r : q = Place("hidden") /\ r = Place("boot now") OBVIOUS
  <2>3. "hidden" \in Plain /\ "boot now" \in Plain BY <2>1 DEF Plain, HideOps, Ticks
  <2>4. q \in Places(Chosen') /\ r \in Places(Chosen') /\ q.op = "hidden" /\ r.op = "boot now"
    BY <1>1, <2>2, <2>3, PlaceOf
  <2>5. q.op \in Calls("input", Base("input")) /\ r.op \in Calls("input", Base("input")) \cap Paused
    BY <2>1, <2>4, InputCalls DEF Paused
  <2>6. at' = [at EXCEPT !["input"] = q] /\ back' = [back EXCEPT !["input"] = <<r>> \o @] BY <1>4, <2>2
  <2>7. StackInv' /\ InnerStep("input") /\ at'["input"] = q
    BY <1>1, <1>2, <2>4, <2>5, <2>6, InputCalls, CallInner
  <2>8. at'["input"].op \notin HoldsCard BY <2>4, <2>7 DEF HoldsCard
  <2> QED BY <1>1, <1>2, <2>7, <2>8, InputCalls, InnerAll
<1>5. CASE card.kind = "ask" /\ Place1("input", "use method")
  <2>1. Chosen BY <1>5 DEF ShownInv, KindsFor
  <2>2. PICK q : q = Place("use method") OBVIOUS
  <2>3. q \in Places(Chosen') /\ q.op = "use method" BY <1>1, <2>1, <2>2, PlaceOf
  <2>4. at' = [at EXCEPT !["input"] = q] /\ back' = back BY <1>5, <2>2 DEF Place1, Go
  <2>5. StackInv' /\ InnerStep("input") /\ at'["input"] = q
    <3>1. q.op \in Calls("input", Base("input")) /\ "input" \in Threads BY <2>3, InputCalls
    <3> QED BY <1>1, <1>2, <2>3, <2>4, <3>1, GoInner
  <2>6. at'["input"].op \notin HoldsCard BY <2>3, <2>5 DEF HoldsCard
  <2> QED BY <1>1, <1>2, <2>5, <2>6, InputCalls, InnerAll
<1> QED BY <1>3, <1>4, <1>5 DEF CardButton

LEMMA WidgetAsksKeeps == ASSUME UiInv, WidgetAsks, check_keys' = check_keys PROVE UiInv'
<1>1. AnswersStay /\ CardAlone /\ ticking' = ticking /\ LocksKept
  BY AnswersAlone, LocksAlone DEF WidgetAsks, Threading, UiInv
<1>2. at["input"].op \in CallOps /\ at["input"].op # "join input" BY DEF WidgetAsks, At, CallOps
<1> QED BY <1>1, <1>2, InputCalls, CallReturns DEF WidgetAsks

LEMMA WidgetShowsKeeps == ASSUME UiInv, WidgetShows, check_keys' = check_keys PROVE UiInv'
<1> USE DEF UiInv
<1>1. AnswersStay /\ CardAlone /\ ticking' = ticking /\ LocksKept /\ Chosen' = Chosen /\ Chosen \in BOOLEAN /\ StillChosen
  <2>1. AnswersStay /\ CardAlone /\ ticking' = ticking /\ LocksKept
    BY AnswersAlone, LocksAlone DEF WidgetShows, Threading
  <2> QED BY <2>1, ChosenAlone DEF AnswersStay, Chosen
<1>2. at["input"].op \in CallOps /\ at["input"].op # "join input" BY DEF WidgetShows, At, CallOps
<1>3. CASE Place1("input", "hide")
  <2>1. "hide" \in Plain /\ "hide" \notin HoldsCard BY DEF Plain, HideOps, HoldsCard
  <2> QED BY <1>1, <1>2, <1>3, <2>1, InputCalls, CallGoes
<1>4. CASE Return("input") BY <1>1, <1>2, <1>4, InputCalls, CallReturns
<1>5. ASSUME NEW kind \in Cards, at' = [at EXCEPT !["input"] = Show(kind)] /\ UNCHANGED back PROVE UiInv'
  <2>1. kind \in KindsFor(Chosen') BY UiAssumption DEF KindsFor, Kinds
  <2>2. PICK q : q = Show(kind) OBVIOUS
  <2>3. q \in Places(Chosen') /\ q.op = "show" BY <1>1, <2>1, <2>2, PlaceOf
  <2>4. at' = [at EXCEPT !["input"] = q] /\ back' = back BY <1>5, <2>2
  <2>5. StackInv' /\ InnerStep("input") /\ at'["input"] = q
    <3>1. q.op \in Calls("input", Base("input")) /\ "input" \in Threads BY <2>3, InputCalls
    <3> QED BY <1>1, <1>2, <2>3, <2>4, <3>1, GoInner
  <2>6. at'["input"].op \notin HoldsCard BY <2>3, <2>5 DEF HoldsCard
  <2> QED BY <1>1, <1>2, <2>5, <2>6, InputCalls, InnerAll
<1> QED BY <1>3, <1>4, <1>5 DEF WidgetShows

-----------------------------------------------------------------------------
\* An answer.

LEMMA NotEnding ==
    ASSUME UiInv, NEW t \in Threads, at[t].op \in {"boot now", "use method", "widgets", "tick", "ticked"}
    PROVE  ~Ending /\ (t # "input" => Step \notin Early)
<1> USE DEF UiInv
<1>1. at[t].op \notin Bases(t) BY NotBase DEF CallOps
<1>2. at[t].op \in Calls(t, Base(t)) /\ at[t].op # "none" BY <1>1, InCall
<1>3. CASE t = "main"
  <2>1. Step = "loop" BY <1>2, <1>3 DEF Calls, Step, ShowOps, HideOps
  <2> QED BY <2>1 DEF Ending, Down, Early
<1>4. CASE t = "input"
  <2>1. ~At("input", "none") BY <1>2, <1>4 DEF At
  <2>2. At("main", "join input") => Step \in Returns("main")
    <3>1. "main" \in Threads BY DEF Threads
    <3> QED BY <3>1, NotBase, InCall DEF At, CallOps, Step
  <2>3. ~Ending BY <2>1, <2>2 DEF ThreadsInv, Ending, Returns, Down
  <2> QED BY <1>4, <2>3
<1>5. CASE t = "worker"
  <2>1. ~At("worker", "none") BY <1>2, <1>5 DEF At
  <2> QED BY <2>1 DEF ThreadsInv
<1>6. CASE t = "refresh" BY <1>2, <1>6 DEF Calls
<1> QED BY <1>3, <1>4, <1>5, <1>6 DEF Threads

\* The answer code, with rom, in a call of thread t.
Answering(t, code, rom) ==
    /\ lock["exit"] = NoOne /\ lock' = lock /\ CardAlone /\ ticking' = ticking
    /\ exit_ui_code' = code /\ selected_rom' = rom /\ late' = (late \/ Leaving)
    /\ Return(t)
    /\ UNCHANGED <<check_keys, auto_boot_rom, left>>

LEMMA FinalEnds == ASSUME StackInv, Final PROVE Ending
<1>1. CASE At("main", "done") \/ At("main", "workers_stop")
  <2>1. at["main"].op \in MainBases BY <1>1 DEF At, MainBases
  <2> QED BY <1>1, <2>1, MainAtBase DEF Ending, At
<1>2. CASE At("main", "destroy") /\ left # NoAnswer
  <2>1. at["main"].op \in MainBases BY <1>2 DEF At, MainBases
  <2> QED BY <1>2, <2>1, MainAtBase DEF Ending, At, Down
<1> QED BY <1>1, <1>2 DEF Final

LEMMA AnsweringKeeps ==
    ASSUME UiInv, NEW t \in Threads, at[t].op \in {"boot now", "use method", "widgets"},
           NEW code \in {"boot", "reboot"}, NEW rom \in ROMs \cup {"none"}, Chosen \/ code = "boot" => rom \in ROMs,
           Answering(t, code, rom), method' \in {method, TRUE}
    PROVE  UiInv'
<1> USE DEF UiInv
<1>1. at[t].op \in CallOps /\ at[t].op # "join input" BY DEF CallOps
<1>2. StillChosen BY DEF StillChosen, Chosen, Answering
<1>3. StackInv' /\ InnerStep(t) /\ OthersStay(t) /\ at'[t].op \notin HoldsCard
  BY <1>1, <1>2, ReturnInner DEF Answering
<1>4. SameThreads /\ Step' = Step BY <1>1, <1>3, InnerSame DEF SameThreads
<1>5. ThreadsInv' BY <1>4, ThreadsKept DEF Answering
<1>6. PushedInv' BY <1>4, PushedKept DEF Answering, CardAlone
<1>7. CardInv'
  <2>1. \A u \in Threads : at'[u].op \in HoldsCard => at'[u].op = at[u].op BY <1>3 DEF OthersStay
  <2>2. LocksKept BY LocksAlone DEF Answering
  <2> QED BY <2>1, <2>2, CardKept DEF Answering, CardAlone, LocksKept
<1>8. ShownInv' BY <1>2, ShownKept DEF Answering, CardAlone
<1>9. AnswerInv'
  <2>1. Step \notin Held
    <3>1. NoOne # "main" BY DEF NoOne
    <3> QED BY <3>1 DEF AnswerInv, Answering
  <2>2. ~Final BY FinalEnds, NotEnding
  <2>3. Step = "leave" \/ left # NoAnswer => late'
    <3>1. late' = (late \/ Leaving) BY DEF Answering
    <3>2. Step = "leave" => At("main", "leave")
      <4>1. "leave" \notin Returns("main") BY DEF Returns
      <4> QED BY <4>1, MainAtBase DEF At
    <3>3. Step = "leave" \/ left # NoAnswer => Leaving BY <2>2, <3>2 DEF Leaving
    <3> QED BY <3>1, <3>3
  <2>4. late' \in BOOLEAN /\ method' \in BOOLEAN
    <3>1. late' = (late \/ Leaving) BY DEF Answering
    <3> QED BY <3>1 DEF AnswerInv
  <2>5. /\ exit_ui_code' \in {"boot", "reboot"} /\ selected_rom' \in ROMs \cup {"none"}
        /\ exit_ui_code' = "boot" => Chosen'
    BY DEF Answering, Chosen
  <2>6. UNCHANGED <<check_keys, auto_boot_rom, left>> BY DEF Answering
  <2>7. "method" \in Held /\ "exit?" \in Held BY DEF Held
  <2> QED BY <1>4, <2>1, <2>3, <2>4, <2>5, <2>6, <2>7 DEF AnswerInv, Before, After
<1> QED BY <1>3, <1>5, <1>6, <1>7, <1>8, <1>9

LEMMA InputAnswers == ASSUME UiInv, Widget \/ UseMethod, check_keys' = check_keys PROVE UiInv'
<1> USE DEF UiInv
<1>0. "input" \in Threads BY DEF Threads
<1>1. CASE UseMethod
  <2>1. at["input"].op = "use method" BY <1>1 DEF UseMethod, At
  <2>2. at["input"] \in Places(Chosen) BY <1>0, <2>1, NotBase, InCall DEF CallOps
  <2>3. Chosen BY <2>1, <2>2 DEF Places, Plain, ShowOps, HideOps, Ticks, MainBases
  <2>4. Answering("input", "boot", selected_rom) BY <1>1 DEF UseMethod, Answering, Free, Threading
  <2>5. method' \in {method, TRUE} BY <1>1 DEF UseMethod
  <2> QED BY <1>0, <2>1, <2>3, <2>4, <2>5, AnsweringKeeps DEF Chosen
<1>2. CASE Widget
  <2>1. at["input"].op = "widgets" BY <1>2 DEF Widget, At
  <2>2. CASE Answer("input", "reboot", selected_rom)
    <3>1. Answering("input", "reboot", selected_rom) /\ method' = method BY <2>2 DEF Answer, Answering, Free, Threading
    <3>2. selected_rom \in ROMs \cup {"none"} /\ (Chosen => selected_rom \in ROMs) BY DEF AnswerInv, Chosen
    <3> QED BY <1>0, <2>1, <3>1, <3>2, AnsweringKeeps
  <2>3. ASSUME NEW rom \in ROMs, Answer("input", "boot", rom) PROVE UiInv'
    <3>1. Answering("input", "boot", rom) /\ method' = method BY <2>3 DEF Answer, Answering, Free, Threading
    <3> QED BY <1>0, <2>1, <3>1, AnsweringKeeps
  <2> QED BY <1>2, <2>2, <2>3 DEF Widget
<1> QED BY <1>1, <1>2

-----------------------------------------------------------------------------
\* The countdown, by the worker or main, and the refresh thread.

LEMMA TickCalls ==
    ASSUME NEW t \in Threads, NEW b, Calls(t, b) \cap {"tick", "ticked"} # {}
    PROVE  /\ AutoBoot # "none" /\ {"tick", "ticked", "boot now"} \subseteq Calls(t, b) \cap Plain
           /\ "show" \in Calls(t, b) /\ t \in {"main", "worker"}
<1> USE DEF Calls, ShowOps, HideOps, Ticks, Plain
<1>1. CASE t = "main" BY <1>1
<1>2. CASE t = "input" BY <1>2
<1>3. CASE t = "worker" BY <1>3
<1>4. CASE t = "refresh" BY <1>4
<1> QED BY <1>1, <1>2, <1>3, <1>4 DEF Threads

LEMMA Ticking ==
    ASSUME StackInv, NEW t \in Threads, at[t].op \in {"tick", "ticked"}
    PROVE  /\ at[t].op \in CallOps /\ at[t].op # "join input"
           /\ AutoBoot # "none" /\ {"tick", "ticked", "boot now"} \subseteq Calls(t, Base(t)) \cap Plain
           /\ "show" \in Calls(t, Base(t)) /\ t \in {"main", "worker"}
<1>1. at[t].op \in CallOps /\ at[t].op # "join input" BY DEF CallOps
<1>2. at[t].op \in Calls(t, Base(t)) BY <1>1, NotBase, InCall
<1> QED BY <1>1, <1>2, TickCalls

LEMMA TickOverKeeps ==
    ASSUME UiInv, NEW t \in Threads, TickOver(t) \/ Ticked(t), check_keys' = check_keys
    PROVE  UiInv'
<1> USE DEF UiInv
<1>1. AnswersStay /\ CardAlone /\ ticking' = ticking BY AnswersAlone DEF TickOver, Ticked, Threading
<1>2. LocksKept
  <2>1. lock' = lock \/ lock' = [lock EXCEPT !["auto"] = NoOne] BY DEF TickOver, Ticked, Drop
  <2> QED BY <2>1, LocksAlone, LockOther
<1>3. at[t].op \in {"tick", "ticked"} /\ Return(t) BY DEF TickOver, Ticked, At
<1> QED BY <1>1, <1>2, <1>3, Ticking, CallReturns

LEMMA TickZeroKeeps ==
    ASSUME UiInv, NEW t \in Threads, TickZero(t), check_keys' = check_keys
    PROVE  UiInv'
<1> USE DEF UiInv
<1>1. AnswersStay /\ CardAlone /\ ticking' = ticking /\ LocksKept BY AnswersAlone, LocksAlone DEF TickZero
<1>2. at[t].op \in {"tick", "ticked"} /\ Place1(t, "boot now") BY DEF TickZero, At
<1>3. "boot now" \in Calls(t, Base(t)) /\ "boot now" \in Plain /\ "boot now" \notin HoldsCard
  BY <1>2, Ticking DEF HoldsCard
<1> QED BY <1>1, <1>2, <1>3, Ticking, CallGoes

LEMMA TickKeeps ==
    ASSUME UiInv, NEW t \in Threads, Tick(t), check_keys' = check_keys
    PROVE  UiInv'
<1> USE DEF UiInv
<1>1. AnswersStay /\ CardAlone /\ Chosen' = Chosen /\ Chosen \in BOOLEAN /\ StillChosen
  <2>1. AnswersStay /\ CardAlone BY AnswersAlone DEF Tick
  <2> QED BY <2>1, ChosenAlone DEF AnswersStay, Chosen
<1>2. LocksKept
  <2>1. lock' = [lock EXCEPT !["auto"] = t] BY DEF Tick, Take
  <2> QED BY <2>1, LockOther
<1>3. at[t].op \in {"tick", "ticked"} BY DEF Tick, At
<1>4. PICK q, r : q = Show("auto") /\ r = Place("ticked") OBVIOUS
<1>5. q \in Places(Chosen') /\ r \in Places(Chosen') /\ q.op = "show" /\ r.op = "ticked"
  <2>1. "auto" \in KindsFor(Chosen') BY <1>3, Ticking DEF KindsFor, Kinds
  <2>2. "ticked" \in Plain BY <1>3, Ticking
  <2> QED BY <1>1, <1>4, <2>1, <2>2, PlaceOf
<1>6. at' = [at EXCEPT ![t] = q] /\ back' = [back EXCEPT ![t] = <<r>> \o @] BY <1>4 DEF Tick, Call
<1>7. q.op \in Calls(t, Base(t)) /\ r.op \in Calls(t, Base(t)) \cap Paused BY <1>3, <1>5, Ticking DEF Paused
<1>8. StackInv' /\ InnerStep(t) /\ OthersStay(t) /\ at'[t] = q
  BY <1>1, <1>3, <1>5, <1>6, <1>7, Ticking, CallInner
<1>9. SameThreads /\ Step' = Step BY <1>3, <1>8, Ticking, InnerSame DEF SameThreads
<1>10. ThreadsInv'
  <2>1. ~Ending /\ Step \notin Early /\ AutoBoot # "none" BY <1>3, NotEnding, Ticking
  <2>2. ticking' = ~stopping BY DEF Tick
  <2>3. ~Ending' BY <1>1, <1>9, <2>1 DEF Ending, AnswersStay
  <2>4. ticking' \in BOOLEAN BY <2>2
  <2> QED BY <1>2, <1>9, <2>1, <2>3, <2>4 DEF ThreadsInv, SameThreads, LocksKept
<1>11. AnswerInv' BY <1>1, <1>2, <1>9, AnswerKept DEF AnswersStay, LocksKept
<1>12. PushedInv' BY <1>1, <1>9, PushedKept DEF CardAlone
<1>13. CardInv'
  <2>1. \A u \in Threads : at'[u].op \in HoldsCard => at'[u].op = at[u].op
    BY <1>5, <1>8 DEF OthersStay, HoldsCard
  <2> QED BY <1>1, <1>2, <2>1, CardKept DEF CardAlone, LocksKept
<1>14. ShownInv' BY <1>1, ShownKept DEF CardAlone
<1> QED BY <1>8, <1>10, <1>11, <1>12, <1>13, <1>14

LEMMA BootsAutoKeeps ==
    ASSUME UiInv, NEW t \in Threads, BootsAuto(t), check_keys' = check_keys
    PROVE  UiInv'
<1> USE DEF UiInv
<1>1. at[t].op = "boot now" BY DEF BootsAuto, At
<1>2. at[t] \in Places(Chosen) BY <1>1, NotBase, InCall DEF CallOps
<1>3. AutoBoot # "none" BY <1>1, <1>2 DEF Places, Plain, ShowOps, HideOps, Ticks, MainBases
<1>4. auto_boot_rom \in ROMs BY <1>3 DEF AnswerInv
<1>5. Answering(t, "boot", auto_boot_rom) /\ method' = method
  BY DEF BootsAuto, Answer, Answering, Free, Threading
<1> QED BY <1>1, <1>4, <1>5, AnsweringKeeps

LEMMA RefreshKeeps ==
    ASSUME UiInv, DrivesChange \/ multirom_ui_refresh_usb_handler \/ RefreshEnds, check_keys' = check_keys
    PROVE  UiInv'
<1> USE DEF UiInv, DrivesChange, multirom_ui_refresh_usb_handler, RefreshEnds
<1>1. AnswersStay /\ CardAlone /\ ticking' = ticking /\ LocksKept BY AnswersAlone, LocksAlone DEF Threading
<1>2. "refresh" \in Threads /\ Bases("refresh") = {"none", "idle", "tell"} BY DEF Threads, Bases
<1>3. PICK o \in Bases("refresh") : Place1("refresh", o) BY <1>2
<1>4. at["refresh"].op \in Bases("refresh") BY <1>2 DEF At
<1>5. StackInv' /\ OthersStay("refresh") /\ at'["refresh"].op \notin HoldsCard
  BY <1>1, <1>2, <1>3, <1>4, ChosenAlone, GoBase
<1> QED BY <1>1, <1>5, OtherAll

LEMMA WorkerBeginsKeeps == ASSUME UiInv, WorkerBegins \/ WorkerEnds, check_keys' = check_keys PROVE UiInv'
<1> USE DEF UiInv
<1>1. AnswersStay /\ CardAlone /\ Chosen' \in BOOLEAN /\ StillChosen
  <2>1. AnswersStay /\ CardAlone BY AnswersAlone DEF WorkerBegins, WorkerEnds
  <2> QED BY <2>1, ChosenAlone DEF Chosen
<1>2. "worker" \in Threads /\ Bases("worker") = {"none", "round"} /\ Returns("worker") = {"round"} BY DEF Threads, Bases, Returns
<1>3. at["worker"].op \in Bases("worker") BY <1>2 DEF WorkerBegins, WorkerEnds, At
<1>4. /\ lock' = [l \in Locks |-> lock'[l]] /\ lock'["card"] = lock["card"] /\ lock'["exit"] = lock["exit"]
      /\ WorkerBegins => lock'["workers"] = "worker"
  <2>1. lock' = [lock EXCEPT !["workers"] = "worker"] \/ (WorkerEnds /\ lock' = [lock EXCEPT !["workers"] = NoOne])
    BY DEF WorkerBegins, WorkerEnds, Take, Drop
  <2>2. {"card", "exit", "workers"} \subseteq Locks BY DEF Locks
  <2>3. ~(WorkerBegins /\ WorkerEnds) BY DEF WorkerBegins, WorkerEnds, At
  <2> QED BY <2>1, <2>2, <2>3, LocksAre
<1>5. /\ StackInv' /\ OthersStay("worker") /\ at'["worker"].op \notin HoldsCard
      /\ ticking' = FALSE \/ (ticking' = ticking /\ At("worker", "none")')
      /\ WorkerBegins \/ At("worker", "none")'
      /\ ~(Step \in Early \/ Ending)
  <2>1. CASE WorkerBegins
    <3>1. AutoBoot # "none" /\ ~(Step \in Early \/ Ending) /\ ticking' = FALSE BY <2>1 DEF WorkerBegins, ThreadsInv
    <3>2. PICK q, r : q = Place("tick") /\ r = Place("round") OBVIOUS
    <3>3. "tick" \in Plain /\ "round" \in Plain BY <3>1 DEF Plain, Ticks
    <3>4. q \in Places(Chosen') /\ r \in Places(Chosen') /\ q.op = "tick" /\ r.op = "round" BY <1>1, <3>2, <3>3, PlaceOf
    <3>5. Call("worker", q, r) BY <2>1, <3>2 DEF WorkerBegins
    <3>6. r.op \in Returns("worker") /\ q.op \in Calls("worker", r.op) BY <1>2, <3>1, <3>4 DEF Calls, Ticks
    <3>7. StackInv' /\ OthersStay("worker") /\ at'["worker"] = q
      BY <1>1, <1>2, <1>3, <3>4, <3>5, <3>6, CallBase
    <3>8. at'["worker"].op \notin HoldsCard BY <3>4, <3>7 DEF HoldsCard
    <3> QED BY <2>1, <3>1, <3>7, <3>8
  <2>2. CASE WorkerEnds
    <3>1. Place1("worker", "none") /\ ticking' = ticking /\ ~At("worker", "none") BY <2>2 DEF WorkerEnds, Threading, At
    <3>2. StackInv' /\ OthersStay("worker") /\ at'["worker"].op = "none" /\ at'["worker"].op \notin HoldsCard
      BY <1>1, <1>2, <1>3, <3>1, GoBase
    <3> QED BY <3>1, <3>2 DEF At, ThreadsInv
  <2> QED BY <2>1, <2>2
<1>6. /\ Step' = Step /\ (At("main", "join input") => At("main", "join input")')
      /\ (At("input", "none")' <=> At("input", "none"))
  BY <1>2, <1>5, OthersSame
<1>7. ThreadsInv'
  <2>1. ~(Step' \in Early \/ Ending') BY <1>1, <1>5, <1>6 DEF Ending, AnswersStay
  <2>2. Step' \in NoInput \/ Ending' => At("input", "none")' \/ At("main", "join input")'
    BY <1>6, <2>1 DEF ThreadsInv
  <2>3. ticking' \in BOOLEAN /\ (ticking' => AutoBoot # "none")
    <3>1. ticking \in BOOLEAN /\ (ticking => AutoBoot # "none") BY DEF ThreadsInv
    <3>2. CASE ticking' = FALSE BY <3>2
    <3>3. CASE ticking' = ticking BY <3>1, <3>3
    <3> QED BY <1>5, <3>2, <3>3
  <2>4. ~At("worker", "none")' => lock'["workers"] = "worker" BY <1>4, <1>5
  <2> QED BY <2>1, <2>2, <2>3, <2>4 DEF ThreadsInv
<1>8. AnswerInv' BY <1>1, <1>4, <1>6, AnswerKept DEF AnswersStay
<1>9. PushedInv' BY <1>1, <1>6, PushedKept DEF CardAlone
<1>10. CardInv'
  <2>1. \A u \in Threads : at'[u].op \in HoldsCard => at'[u].op = at[u].op BY <1>5 DEF OthersStay
  <2> QED BY <1>1, <1>4, <2>1, CardKept DEF CardAlone
<1>11. ShownInv' BY <1>1, ShownKept DEF CardAlone
<1> QED BY <1>5, <1>7, <1>8, <1>9, <1>10, <1>11

-----------------------------------------------------------------------------
\* The main thread.

LEMMA MainIs ==
    /\ "main" \in Threads /\ Bases("main") = MainBases
    /\ Returns("main") = {"loop", "exit?", "scroll", "filled", "anim_stop", "open", "boot at once", "reboot", "last card"}
    /\ MainBases \subseteq Plain
BY DEF Threads, Bases, Returns, Plain

\* What a step of main must still show.
MainAnswer ==
    /\ Step' \in {"started", "check", "boot at once"} => check_keys /\ AutoBoot # "none"
    /\ Step' \in Held => lock'["exit"] = "main"
    /\ Step' = "method" => exit_ui_code = "boot"
    /\ Step' = "exit?" => (exit_ui_code = "boot" => method)
    /\ Step' = "leave" => exit_ui_code # "none" /\ (~late /\ exit_ui_code = "boot" => method)
    /\ Step' \in Before => left = NoAnswer
    /\ Step' \in After => left # NoAnswer
    /\ Step' # "dark" /\ Step # "dark"

MainThreads ==
    /\ Step' \in NoInput \/ Ending' => At("input", "none")' \/ At("main", "join input")'
    /\ Step' \in Early \/ Ending' => At("worker", "none") /\ ~ticking

\* The locks a step of main leaves alone.
LocksMain == lock' = [l \in Locks |-> lock'[l]] /\ lock'["card"] = lock["card"] /\ lock'["workers"] = lock["workers"]

LEMMA LocksMainAre ==
    ASSUME CardInv, lock' = lock \/ (\E l \in Locks \ {"card", "workers"}, x \in {"main", NoOne} : lock' = [lock EXCEPT ![l] = x])
    PROVE  LocksMain
<1>1. CASE lock' = lock BY <1>1 DEF LocksMain, CardInv
<1>2. ASSUME NEW l \in Locks \ {"card", "workers"}, NEW x \in {"main", NoOne}, lock' = [lock EXCEPT ![l] = x]
      PROVE  LocksMain
  <2>1. {"card", "workers"} \subseteq Locks \ {l} BY DEF Locks
  <2> QED BY <1>2, <2>1, LocksAre DEF LocksMain
<1> QED BY <1>1, <1>2

LEMMA AnswerMoves == ASSUME AnswerInv, AnswersStay, MainAnswer PROVE AnswerInv'
BY DEF AnswerInv, AnswersStay, MainAnswer, Chosen, Matches

LEMMA WorkerStays == ASSUME OthersStay("main") PROVE at'["input"] = at["input"] /\ at'["worker"] = at["worker"]
BY DEF OthersStay, Threads

LEMMA MainAll ==
    ASSUME UiInv, StackInv', OthersStay("main"), at'["main"].op \notin HoldsCard, AnswerInv', MainThreads, LocksMain,
           StillChosen, CardAlone, ticking' = ticking, ~(Step = "pop" \/ Step' = "pop")
    PROVE  UiInv'
<1> USE DEF UiInv
<1>1. ThreadsInv'
  <2>1. at'["worker"] = at["worker"] BY WorkerStays
  <2> QED BY <2>1 DEF ThreadsInv, MainThreads, LocksMain, At
<1>2. CardInv'
  <2>1. \A u \in Threads : at'[u].op \in HoldsCard => at'[u].op = at[u].op BY DEF OthersStay
  <2> QED BY <2>1, CardKept DEF CardAlone, LocksMain
<1>3. PushedInv' BY DEF PushedInv, CardAlone
<1>4. ShownInv' BY ShownKept DEF CardAlone
<1> QED BY <1>1, <1>2, <1>3, <1>4

LEMMA MainGo ==
    ASSUME UiInv, NEW p \in MainBases, At("main", p), NEW o \in MainBases, Place1("main", o), StillChosen
    PROVE  StackInv' /\ OthersStay("main") /\ at'["main"].op \notin HoldsCard /\ Step = p /\ Step' = o
           /\ at'["main"].op = o /\ ~At("main", "join input") /\ ~At("main", "join input")'
<1> USE DEF UiInv
<1>1. at["main"].op = p /\ at["main"].op \in Bases("main") BY MainIs DEF At
<1>2. StackInv' /\ OthersStay("main") /\ at'["main"].op = o /\ Under(at'["main"], back'["main"]) = o /\ o \notin HoldsCard
  BY <1>1, MainIs, GoBase
<1>3. Step = p BY <1>1, MainIs, MainAtBase
<1>4. "join input" \notin MainBases BY DEF MainBases
<1> QED BY <1>1, <1>2, <1>3, <1>4 DEF Step, Base, At

LEMMA MainCall ==
    ASSUME UiInv, NEW p \in MainBases, At("main", p), StillChosen, NEW q \in Places(Chosen'),
           NEW n \in Returns("main"), Call("main", q, Place(n)), q.op \in Calls("main", n)
    PROVE  StackInv' /\ OthersStay("main") /\ at'["main"] = q /\ Step = p /\ Step' = n
           /\ ~At("main", "join input")
<1> USE DEF UiInv
<1>1. at["main"].op = p /\ at["main"].op \in Bases("main") BY MainIs DEF At
<1>2. n \in Plain /\ Chosen' \in BOOLEAN
  <2>1. n \in MainBases BY MainIs, Distinct
  <2>2. Chosen' \in BOOLEAN BY DEF Chosen
  <2> QED BY <2>1, <2>2, MainIs
<1>3. PICK r : r = Place(n) OBVIOUS
<1>4. r \in Places(Chosen') /\ r.op = n BY <1>2, <1>3, PlaceOf
<1>5. Call("main", q, r) BY <1>3
<1>6. StackInv' /\ OthersStay("main") /\ at'["main"] = q /\ Under(at'["main"], back'["main"]) = n
  BY <1>1, <1>4, <1>5, MainIs, CallBase
<1>7. Step = p BY <1>1, MainIs, MainAtBase
<1>8. "join input" \notin MainBases BY DEF MainBases
<1> QED BY <1>1, <1>6, <1>7, <1>8 DEF Step, Base, At

\* From one place of main's own to another, with nothing about the answer or the card.
LEMMA MainPlain ==
    ASSUME UiInv, NEW p \in MainBases \ {"pop"}, At("main", p), NEW o \in MainBases \ {"pop"}, Place1("main", o),
           AnswersStay, CardAlone, ticking' = ticking, LocksMain,
           Step = p /\ Step' = o => MainAnswer,
           Step = p /\ Step' = o /\ at'["input"] = at["input"] => MainThreads
    PROVE  UiInv'
<1>1. StillChosen BY ChosenAlone
<1>2. StackInv' /\ OthersStay("main") /\ at'["main"].op \notin HoldsCard /\ Step = p /\ Step' = o
  BY <1>1, MainGo
<1>3. AnswerInv' BY <1>2, AnswerMoves DEF UiInv
<1>4. MainThreads BY <1>2, WorkerStays
<1> QED BY <1>1, <1>2, <1>3, <1>4, MainAll

\* The moves of main's that need nothing said about them.
MainMoves == {<<"started", "check">>, <<"begin", "open">>, <<"enable", "auto boot">>, <<"auto boot", "loop">>,
              <<"pong?", "disable">>, <<"pong?", "colours?">>, <<"disable", "push">>, <<"pop done", "colours?">>,
              <<"colours?", "destroy">>, <<"colours?", "loop">>, <<"destroy", "join refresh">>,
              <<"join refresh", "usb flag">>, <<"coloured", "loop">>, <<"anim_stop", "anims end">>,
              <<"workers_stop", "done">>, <<"scroll", "filled">>, <<"filled", "pong?">>}

LEMMA MainMoved ==
    ASSUME UiInv, NEW p, NEW o, <<p, o>> \in MainMoves, At("main", p), Place1("main", o),
           AnswersStay, CardAlone, ticking' = ticking, LocksMain, lock'["exit"] = lock["exit"] \/ p = "colours?"
    PROVE  UiInv'
<1> USE DEF UiInv
<1>1. p \in MainBases \ {"pop"} /\ o \in MainBases \ {"pop"} BY DEF MainMoves, MainBases
<1>2. ASSUME Step = p, Step' = o PROVE MainAnswer
  <2>1. Step \in {"started", "check", "boot at once"} => check_keys /\ AutoBoot # "none" BY DEF AnswerInv
  <2>2. Step' \in {"started", "check", "boot at once"} => check_keys /\ AutoBoot # "none"
    BY <1>2, <2>1 DEF MainMoves
  <2>3. Step' \in Held => lock'["exit"] = "main" BY <1>2 DEF MainMoves, Held, AnswerInv
  <2>4. Step' \notin {"method", "exit?", "leave"} BY <1>2 DEF MainMoves
  <2>5. Step' \in Before => Step \in Before BY <1>2 DEF MainMoves, Before, Held, Early
  <2>6. Step' \in After => Step \in After BY <1>2 DEF MainMoves, After
  <2>7. (Step \in Before => left = NoAnswer) /\ (Step \in After => left # NoAnswer) BY DEF AnswerInv
  <2>8. Step # "dark" /\ Step' # "dark" BY <1>2 DEF MainMoves
  <2> QED BY <2>2, <2>3, <2>4, <2>5, <2>6, <2>7, <2>8 DEF MainAnswer
<1>3. ASSUME Step = p, Step' = o, at'["input"] = at["input"] PROVE MainThreads
  <2>1. Step' \in NoInput => Step \in NoInput BY <1>3 DEF MainMoves, NoInput
  <2>2. Step' \in Early => Step \in Early BY <1>3 DEF MainMoves, Early
  <2>3. Ending' => Ending
    <3>1. (Step \in Before => left = NoAnswer) /\ left' = left BY DEF AnswerInv, AnswersStay
    <3>2. Step' \in Down => Step \in Down \/ Step = "colours?" BY <1>3 DEF MainMoves, Down
    <3>3. Step' \in {"workers_stop", "done", "dark"} => Step = "workers_stop" BY <1>3 DEF MainMoves
    <3> QED BY <3>1, <3>2, <3>3 DEF Ending, Before, Held
  <2>4. ~At("main", "join input") BY <1>1 DEF At, MainBases
  <2> QED BY <1>3, <2>1, <2>2, <2>3, <2>4 DEF MainThreads, ThreadsInv, At
<1> QED BY <1>1, <1>2, <1>3, MainPlain

\* What the steps of MainMoves have in common.
LEMMA MainSimple ==
    ASSUME UiInv, NEW p, NEW o, <<p, o>> \in MainMoves, At("main", p), Place1("main", o), check_keys' = check_keys,
           Answers, CardAlone, ticking' = ticking, lock' = lock \/ (p = "colours?" /\ Drop("exit"))
    PROVE  UiInv'
<1>1. AnswersStay BY AnswersAlone
<1>2. LocksMain /\ (lock'["exit"] = lock["exit"] \/ p = "colours?")
  <2>1. "exit" \in Locks \ {"card", "workers"} BY DEF Locks
  <2> QED BY <2>1, LocksMainAre DEF Drop, UiInv
<1> QED BY <1>1, <1>2, MainMoved

LEMMA PongKeeps == ASSUME UiInv, Pong \/ Enabled, check_keys' = check_keys PROVE UiInv'
<1>1. lock' = lock /\ Answers /\ CardAlone /\ ticking' = ticking BY DEF Pong, Enabled, EnableKeys, MainOn, Threading
<1>2. PICK p, o : <<p, o>> \in MainMoves /\ At("main", p) /\ Place1("main", o)
  BY DEF Pong, Enabled, EnableKeys, MainOn, MainMoves
<1> QED BY <1>1, <1>2, MainSimple

LEMMA LoopEndsKeeps == ASSUME UiInv, LoopEnds, check_keys' = check_keys PROVE UiInv'
<1>1. Drop("exit") /\ Answers /\ CardAlone /\ ticking' = ticking BY DEF LoopEnds, MainSteps, MainOn, Threading
<1>2. PICK o : <<"colours?", o>> \in MainMoves /\ At("main", "colours?") /\ Place1("main", o)
  BY DEF LoopEnds, MainSteps, MainOn, MainMoves
<1> QED BY <1>1, <1>2, MainSimple

LEMMA WorkersStopKeeps == ASSUME UiInv, WorkersStop, check_keys' = check_keys PROVE UiInv'
<1>1. lock' = lock /\ Answers /\ CardAlone /\ ticking' = ticking BY DEF WorkersStop, MainSteps, MainOn, Threading
<1>2. <<"workers_stop", "done">> \in MainMoves /\ At("main", "workers_stop") /\ Place1("main", "done")
  BY DEF WorkersStop, MainSteps, MainOn, MainMoves
<1> QED BY <1>1, <1>2, MainSimple

LEMMA DestroyKeeps == ASSUME UiInv, multirom_ui_destroy_theme, check_keys' = check_keys PROVE UiInv'
<1> USE DEF UiInv
<1>0. lock' = lock /\ Answers /\ CardAlone /\ ticking' = ticking
  BY DEF multirom_ui_destroy_theme, MainSteps, MainOn, Threading
<1>1. CASE (At("main", "destroy") /\ Place1("main", "join refresh")) \/ (At("main", "join refresh") /\ Place1("main", "usb flag"))
  <2>1. PICK p, o : <<p, o>> \in MainMoves /\ At("main", p) /\ Place1("main", o) BY <1>1 DEF MainMoves
  <2> QED BY <1>0, <2>1, MainSimple
<1>2. CASE At("main", "usb flag") /\ Place1("main", IF left = NoAnswer THEN "theme again" ELSE "workers_stop")
  <2>1. AnswersStay /\ LocksMain BY <1>0, AnswersAlone, LocksMainAre
  <2>2. PICK o : o = IF left = NoAnswer THEN "theme again" ELSE "workers_stop" OBVIOUS
  <2>3. At("main", "usb flag") /\ Place1("main", o) BY <1>2, <2>2
  <2>4. Step = "usb flag" /\ Step' = o => MainAnswer BY <2>2 DEF MainAnswer, Before, Held, Early, After
  <2>5. Step = "usb flag" /\ Step' = o /\ at'["input"] = at["input"] => MainThreads
    <3>1. ASSUME Step = "usb flag", Step' = o, at'["input"] = at["input"] PROVE MainThreads
      <4>1. Step' \notin NoInput /\ Step' \notin Early BY <2>2, <3>1 DEF NoInput, Early
      <4>2. Ending' => Ending BY <2>1, <2>2, <3>1 DEF Ending, Down, AnswersStay
      <4>3. ~At("main", "join input") BY <2>3 DEF At
      <4> QED BY <3>1, <4>1, <4>2, <4>3 DEF MainThreads, ThreadsInv, At
    <3> QED BY <3>1
  <2>6. "usb flag" \in MainBases \ {"pop"} /\ o \in MainBases \ {"pop"} BY <2>2 DEF MainBases
  <2> QED BY <1>0, <2>1, <2>3, <2>4, <2>5, <2>6, MainPlain
<1> QED BY <1>1, <1>2 DEF multirom_ui_destroy_theme, MainSteps, MainOn

\* The start and the end of the loop.
LEMMA LoopKeeps == ASSUME UiInv, Loop, check_keys' = check_keys PROVE UiInv'
<1> USE DEF UiInv
<1>1. AnswersStay /\ CardAlone /\ ticking' = ticking /\ At("main", "loop")
  BY AnswersAlone DEF Loop, MainSteps, MainOn, Threading
<1>2. lock' = [lock EXCEPT !["exit"] = "main"] BY DEF Loop, Take
<1>3. LocksMain /\ lock'["exit"] = "main"
  <2>1. "exit" \in Locks \ {"card", "workers"} BY DEF Locks
  <2> QED BY <1>2, <2>1, LocksMainAre, LocksAre
<1>4. PICK o : /\ o \in {"method", "exit?"} /\ Place1("main", o)
               /\ o = "method" => exit_ui_code = "boot"
               /\ o = "exit?" => (exit_ui_code = "boot" => method)
  <2>1. Place1("main", IF exit_ui_code = "boot" /\ ~method THEN "method" ELSE "exit?") BY DEF Loop, MainSteps, MainOn
  <2>2. method \in BOOLEAN BY DEF AnswerInv
  <2>3. CASE exit_ui_code = "boot" /\ ~method BY <2>1, <2>3
  <2>4. CASE ~(exit_ui_code = "boot" /\ ~method) BY <2>1, <2>2, <2>4
  <2> QED BY <2>3, <2>4
<1>5. o \in MainBases \ {"pop"} /\ "loop" \in MainBases \ {"pop"} BY <1>4 DEF MainBases
<1>6. ASSUME Step = "loop", Step' = o PROVE MainAnswer
  <2>1. left = NoAnswer BY <1>6 DEF AnswerInv, Before
  <2> QED BY <1>3, <1>4, <1>6, <2>1 DEF MainAnswer, After, Held
<1>7. Step' = o => MainThreads
  <2>1. Step' = o => Step' \notin NoInput \cup Early \cup Down \cup {"workers_stop", "done", "dark"}
    BY <1>4 DEF NoInput, Early, Down
  <2> QED BY <2>1 DEF MainThreads, Ending
<1> QED BY <1>1, <1>3, <1>4, <1>5, <1>6, <1>7, MainPlain

LEMMA LeavesKeeps == ASSUME UiInv, Leaves, check_keys' = check_keys PROVE UiInv'
<1> USE DEF UiInv
<1>1. AnswersStay /\ CardAlone /\ ticking' = ticking /\ At("main", "exit?") /\ Place1("main", "leave") /\ exit_ui_code # "none"
  BY AnswersAlone DEF Leaves, MainSteps, MainOn, Threading
<1>2. LocksMain
  <2>1. lock' = [lock EXCEPT !["exit"] = NoOne] /\ "exit" \in Locks \ {"card", "workers"} BY DEF Leaves, Drop, Locks
  <2> QED BY <2>1, LocksMainAre
<1>3. "exit?" \in MainBases \ {"pop"} /\ "leave" \in MainBases \ {"pop"} BY DEF MainBases
<1>4. ASSUME Step = "exit?", Step' = "leave" PROVE MainAnswer
  <2>1. left = NoAnswer BY <1>4 DEF AnswerInv, Before, Held
  <2>2. exit_ui_code = "boot" => method BY <1>4 DEF AnswerInv
  <2> QED BY <1>1, <1>4, <2>1, <2>2 DEF MainAnswer, After, Held
<1>5. Step' = "leave" => MainThreads BY DEF MainThreads, Ending, NoInput, Early, Down
<1> QED BY <1>1, <1>2, <1>3, <1>4, <1>5, MainPlain

LEMMA AnimStopKeeps == ASSUME UiInv, AnimStop, check_keys' = check_keys PROVE UiInv'
<1> USE DEF UiInv
<1>0. lock' = lock /\ Answers /\ CardAlone /\ ticking' = ticking BY DEF AnimStop, MainSteps, MainOn, Threading
<1>1. CASE At("main", "anim_stop") /\ Place1("main", "anims end")
  <2>1. <<"anim_stop", "anims end">> \in MainMoves BY DEF MainMoves
  <2> QED BY <1>0, <1>1, <2>1, MainSimple
<1>2. CASE At("main", "anims end") /\ Place1("main", "destroy") /\ ~ticking /\ Free("workers")
  <2>1. AnswersStay /\ LocksMain BY <1>0, AnswersAlone, LocksMainAre
  <2>2. At("worker", "none")
    <3>1. NoOne # "worker" BY DEF NoOne
    <3> QED BY <1>2, <3>1 DEF ThreadsInv, Free
  <2>3. Step = "anims end" /\ Step' = "destroy" => MainAnswer BY DEF MainAnswer, Before, Early, Held, After
  <2>4. ~At("main", "join input") BY <1>2 DEF At
  <2>5. ASSUME Step = "anims end", at'["input"] = at["input"] PROVE MainThreads
    <3>1. At("input", "none") BY <2>4, <2>5 DEF ThreadsInv, NoInput
    <3>2. At("input", "none")' BY <2>5, <3>1 DEF At
    <3> QED BY <1>2, <2>2, <3>2 DEF MainThreads
  <2>6. "anims end" \in MainBases \ {"pop"} /\ "destroy" \in MainBases \ {"pop"} BY DEF MainBases
  <2> QED BY <1>0, <1>2, <2>1, <2>3, <2>5, <2>6, MainPlain
<1> QED BY <1>1, <1>2 DEF AnimStop, MainSteps, MainOn

\* Main changes what the answer is: the method, the ROM that is booted at once, the answer
\* that is returned.
LEMMA MainDecides ==
    ASSUME UiInv, NEW p \in MainBases \ {"pop"}, At("main", p), NEW o \in MainBases \ {"pop"}, Place1("main", o),
           StillChosen, CardAlone, ticking' = ticking, lock' = lock,
           Step = p /\ Step' = o => AnswerInv',
           Step = p /\ Step' = o /\ at'["input"] = at["input"] => MainThreads
    PROVE  UiInv'
<1>1. StackInv' /\ OthersStay("main") /\ at'["main"].op \notin HoldsCard /\ Step = p /\ Step' = o
  BY MainGo
<1>2. LocksMain BY LocksMainAre DEF UiInv
<1>3. MainThreads BY <1>1, WorkerStays
<1> QED BY <1>1, <1>2, <1>3, MainAll

LEMMA UpdateUsbKeeps == ASSUME UiInv, UpdateUsb, check_keys' = check_keys PROVE UiInv'
<1> USE DEF UiInv
<1>1. /\ At("main", "exit?") /\ lock' = lock /\ CardAlone /\ ticking' = ticking
      /\ UNCHANGED <<check_keys, exit_ui_code, selected_rom, method, left, late>>
      /\ auto_boot_rom' \in {auto_boot_rom, "internal"}
  BY DEF UpdateUsb, Threading
<1>2. StillChosen /\ Chosen' = Chosen BY <1>1 DEF StillChosen, Chosen
<1>3. "exit?" \in MainBases \ {"pop"} /\ {"pong?", "scroll", "filled"} \subseteq MainBases \ {"pop"} BY DEF MainBases
<1>4. ASSUME Step = "exit?", Step' \in {"pong?", "scroll", "filled"} PROVE AnswerInv'
  <2>1. left = NoAnswer /\ lock["exit"] = "main" BY <1>4 DEF AnswerInv, Before, Held
  <2>2. auto_boot_rom' \in ROMs \cup {"none"} /\ (AutoBoot # "none" => auto_boot_rom' \in ROMs) BY <1>1 DEF AnswerInv, ROMs
  <2>3. Step' \notin {"started", "check", "boot at once", "method", "exit?", "leave", "dark"} \cup After
    BY <1>4 DEF After
  <2> QED BY <1>1, <1>2, <2>1, <2>2, <2>3 DEF AnswerInv
<1>5. Step' \in {"pong?", "scroll", "filled"} => MainThreads BY DEF MainThreads, Ending, NoInput, Early, Down
<1>6. ASSUME NEW o \in {"pong?", "scroll", "filled"}, Place1("main", o) PROVE UiInv'
  BY <1>1, <1>2, <1>3, <1>4, <1>5, <1>6, MainDecides
<1>7. ASSUME NEW n \in {"scroll", "filled"}, Call("main", Place("hide"), Place(n)) PROVE UiInv'
  <2>1. PICK q : q = Place("hide") OBVIOUS
  <2>2. Chosen' \in BOOLEAN /\ "hide" \in Plain BY DEF Chosen, Plain, HideOps
  <2>3. q \in Places(Chosen') /\ q.op = "hide" BY <2>1, <2>2, PlaceOf
  <2>4. n \in Returns("main") /\ q.op \in Calls("main", n) BY <2>3, MainIs DEF Calls, HideOps
  <2>5. Call("main", q, Place(n)) BY <1>7, <2>1
  <2>6. StackInv' /\ OthersStay("main") /\ at'["main"] = q /\ Step = "exit?" /\ Step' = n
    BY <1>1, <1>2, <1>3, <2>3, <2>4, <2>5, MainCall
  <2>7. at'["main"].op \notin HoldsCard BY <2>3, <2>6 DEF HoldsCard
  <2>8. LocksMain BY <1>1, LocksMainAre
  <2> QED BY <1>1, <1>2, <1>4, <1>5, <2>6, <2>7, <2>8, MainAll
<1>8. \/ \E o \in {"pong?", "scroll", "filled"} : Place1("main", o)
      \/ \E n \in {"scroll", "filled"} : Call("main", Place("hide"), Place(n))
  BY DEF UpdateUsb
<1> QED BY <1>6, <1>7, <1>8

LEMMA ListFilledKeeps == ASSUME UiInv, ListFilled, check_keys' = check_keys PROVE UiInv'
<1>1. lock' = lock /\ Answers /\ CardAlone /\ ticking' = ticking BY DEF ListFilled, MainSteps, MainOn, Threading
<1>2. PICK p, o : <<p, o>> \in MainMoves /\ At("main", p) /\ Place1("main", o)
  BY DEF ListFilled, MainSteps, MainOn, MainMoves
<1> QED BY <1>1, <1>2, MainSimple

LEMMA DarkKeeps == ASSUME UiInv, Dark, check_keys' = check_keys PROVE UiInv'
<1> USE DEF UiInv
<1>1. /\ At("main", "open") /\ Place1("main", "dark") /\ lock' = lock /\ CardAlone /\ ticking' = ticking
      /\ UNCHANGED <<check_keys, exit_ui_code, selected_rom, method, auto_boot_rom, late>>
      /\ left' = [code |-> "boot", rom |-> "none"]
  BY DEF Dark, Threading
<1>2. "open" \in MainBases \ {"pop"} /\ "dark" \in MainBases \ {"pop"} BY DEF MainBases
<1>3. Step = "open" BY <1>1, <1>2, MainAtBase DEF At
<1>4. StillChosen /\ Chosen' = Chosen BY <1>1 DEF StillChosen, Chosen
<1>5. ASSUME Step' = "dark" PROVE AnswerInv'
  <2>1. left' # NoAnswer
    <3>1. NoAnswer.code = "none" /\ left'.code = "boot" BY <1>1 DEF NoAnswer
    <3> QED BY <3>1
  <2>2. Step' \notin Before \cup Held \cup {"method", "exit?", "leave", "started", "check", "boot at once"}
    BY <1>5 DEF Before, Early, Held
  <2> QED BY <1>1, <1>4, <1>5, <2>1, <2>2 DEF AnswerInv
<1>6. ASSUME at'["input"] = at["input"] PROVE MainThreads
  <2>1. ~At("main", "join input") BY <1>1 DEF At
  <2>2. At("input", "none") BY <1>3, <2>1 DEF ThreadsInv, NoInput
  <2>3. At("worker", "none") /\ ~ticking BY <1>3 DEF ThreadsInv, Early
  <2> QED BY <1>6, <2>2, <2>3 DEF MainThreads, At
<1> QED BY <1>1, <1>2, <1>4, <1>5, <1>6, MainDecides

LEMMA BootAtOnceKeeps == ASSUME UiInv, BootAtOnce, check_keys' = check_keys PROVE UiInv'
<1> USE DEF UiInv
<1>1. /\ At("main", "boot at once") /\ Place1("main", "done") /\ lock' = lock /\ CardAlone /\ ticking' = ticking
      /\ UNCHANGED <<check_keys, auto_boot_rom, method, late>>
      /\ left' = [code |-> "boot", rom |-> AutoBoot] /\ exit_ui_code' = "boot" /\ selected_rom' = AutoBoot
  BY DEF BootAtOnce, Threading
<1>2. "boot at once" \in MainBases \ {"pop"} /\ "done" \in MainBases \ {"pop"} BY DEF MainBases
<1>3. Step = "boot at once" BY <1>1, <1>2, MainAtBase DEF At
<1>4. AutoBoot \in ROMs /\ check_keys BY <1>3, UiAssumption DEF AnswerInv, ROMs
<1>5. StillChosen BY <1>1, <1>4 DEF StillChosen, Chosen
<1>6. ASSUME Step' = "done" PROVE AnswerInv'
  <2>1. left' # NoAnswer /\ left'.code = "boot" /\ left'.rom = AutoBoot
    <3>1. NoAnswer.code = "none" /\ left'.code = "boot" BY <1>1 DEF NoAnswer
    <3> QED BY <1>1, <3>1
  <2>2. Chosen' BY <1>1, <1>4 DEF Chosen
  <2>3. check_keys' = TRUE
    <3>1. check_keys' = check_keys /\ check_keys BY <1>1, <1>4
    <3> QED BY <3>1
  <2>4. Matches' BY <1>1, <2>1, <2>3 DEF Matches
  <2>5. /\ auto_boot_rom' \in ROMs \cup {"none"} /\ (AutoBoot # "none" => auto_boot_rom' \in ROMs)
        /\ method' \in BOOLEAN /\ late' \in BOOLEAN /\ exit_ui_code' = "boot" /\ selected_rom' \in ROMs
    BY <1>1, <1>4 DEF AnswerInv
  <2>6. Step' \notin Before \cup Held \cup {"method", "exit?", "leave", "started", "check", "boot at once"}
    BY <1>6 DEF Before, Early, Held
  <2>7. left'.code \in {"boot", "reboot"} /\ left'.rom \in ROMs BY <1>4, <2>1
  <2>8. Step' # "dark" BY <1>6
  <2> QED BY <2>1, <2>2, <2>4, <2>5, <2>6, <2>7, <2>8 DEF AnswerInv
<1>7. ASSUME at'["input"] = at["input"] PROVE MainThreads
  <2>1. ~At("main", "join input") BY <1>1 DEF At
  <2>2. At("input", "none") BY <1>3, <2>1 DEF ThreadsInv, NoInput
  <2>3. At("worker", "none") /\ ~ticking BY <1>3 DEF ThreadsInv, Early
  <2> QED BY <1>7, <2>2, <2>3 DEF MainThreads, At
<1> QED BY <1>1, <1>2, <1>5, <1>6, <1>7, MainDecides

LEMMA LeaveKeeps == ASSUME UiInv, Leave, check_keys' = check_keys PROVE UiInv'
<1> USE DEF UiInv
<1>1. /\ At("main", "leave") /\ Place1("main", "stop input") /\ lock' = lock /\ CardAlone /\ ticking' = ticking
      /\ UNCHANGED <<check_keys, auto_boot_rom, exit_ui_code, selected_rom, method, late>>
      /\ left' = [code |-> exit_ui_code, rom |-> IF exit_ui_code = "boot" THEN selected_rom ELSE "none"]
  BY DEF Leave, Threading
<1>2. "leave" \in MainBases \ {"pop"} /\ "stop input" \in MainBases \ {"pop"} BY DEF MainBases
<1>3. Step = "leave" BY <1>1, <1>2, MainAtBase DEF At
<1>4. StillChosen /\ Chosen' = Chosen BY <1>1 DEF StillChosen, Chosen
<1>5. ASSUME Step' = "stop input" PROVE AnswerInv'
  <2>1. exit_ui_code \in {"boot", "reboot"} /\ (exit_ui_code = "boot" => selected_rom \in ROMs) BY <1>3 DEF AnswerInv, Chosen
  <2>2. left' # NoAnswer /\ left'.code = exit_ui_code /\ (left'.code = "boot" => left'.rom = selected_rom)
    <3>1. NoAnswer.code = "none" /\ left'.code = exit_ui_code BY <1>1 DEF NoAnswer
    <3> QED BY <1>1, <2>1, <3>1
  <2>3. ~late /\ exit_ui_code = "boot" => method BY <1>3 DEF AnswerInv
  <2>4. ~late' => Matches' BY <1>1, <2>2, <2>3 DEF Matches
  <2> QED BY <1>1, <1>4, <1>5, <2>1, <2>2, <2>4 DEF AnswerInv, Before, Early, Held
<1>6. Step' = "stop input" => MainThreads BY DEF MainThreads, Ending, NoInput, Early, Down
<1> QED BY <1>1, <1>2, <1>4, <1>5, <1>6, MainDecides

LEMMA ChooseMethodKeeps == ASSUME UiInv, ChooseMethod, check_keys' = check_keys PROVE UiInv'
<1> USE DEF UiInv
<1>1. /\ At("main", "method") /\ lock' = lock /\ CardAlone /\ ticking' = ticking
      /\ UNCHANGED <<check_keys, auto_boot_rom, selected_rom, left, late>>
  BY DEF ChooseMethod, Threading
<1>2. "method" \in MainBases \ {"pop"} /\ "exit?" \in MainBases \ {"pop"} BY DEF MainBases
<1>3. Step = "method" BY <1>1, <1>2, MainAtBase DEF At
<1>4. StillChosen /\ Chosen' = Chosen /\ Chosen /\ exit_ui_code = "boot"
  <2>1. Chosen' = Chosen BY <1>1 DEF Chosen
  <2> QED BY <1>3, <2>1 DEF StillChosen, AnswerInv
<1>5. ASSUME Step' = "exit?", \/ exit_ui_code' = "none" /\ method' = method
                              \/ exit_ui_code' = exit_ui_code /\ method' = TRUE
      PROVE  AnswerInv'
  <2>1. left = NoAnswer /\ lock["exit"] = "main" BY <1>3 DEF AnswerInv, Before, Held
  <2>2. method' \in BOOLEAN /\ (exit_ui_code' = "boot" => method') BY <1>5 DEF AnswerInv
  <2>3. exit_ui_code' \in {"none", "boot", "reboot"} BY <1>5 DEF AnswerInv
  <2> QED BY <1>1, <1>4, <1>5, <2>1, <2>2, <2>3 DEF AnswerInv, After, Held
<1>6. Step' = "exit?" => MainThreads BY DEF MainThreads, Ending, NoInput, Early, Down
<1>7. CASE exit_ui_code' = "none" /\ method' = method /\ Call("main", Show("ask"), Place("exit?"))
  <2>1. PICK q : q = Show("ask") OBVIOUS
  <2>2. Chosen' \in BOOLEAN /\ "ask" \in KindsFor(Chosen') BY <1>4 DEF Chosen, KindsFor, Kinds
  <2>3. q \in Places(Chosen') /\ q.op = "show" BY <2>1, <2>2, PlaceOf
  <2>4. "exit?" \in Returns("main") /\ q.op \in Calls("main", "exit?") BY <2>3, MainIs DEF Calls, ShowOps
  <2>5. Call("main", q, Place("exit?")) BY <1>7, <2>1
  <2>6. StackInv' /\ OthersStay("main") /\ at'["main"] = q /\ Step' = "exit?"
    BY <1>1, <1>2, <1>4, <2>3, <2>4, <2>5, MainCall
  <2>7. at'["main"].op \notin HoldsCard BY <2>3, <2>6 DEF HoldsCard
  <2>8. LocksMain BY <1>1, LocksMainAre
  <2> QED BY <1>1, <1>3, <1>4, <1>5, <1>6, <1>7, <2>6, <2>7, <2>8, MainAll
<1>8. CASE exit_ui_code' = exit_ui_code /\ method' = TRUE /\ Place1("main", "exit?")
  BY <1>1, <1>2, <1>4, <1>5, <1>6, <1>8, MainDecides
<1> QED BY <1>7, <1>8 DEF ChooseMethod

\* Calls of main that concern neither the card nor the answer: the countdown, the last card,
\* the end of the input thread.
LEMMA MainCalls ==
    ASSUME UiInv, NEW p \in MainBases \ {"pop"}, At("main", p), AnswersStay, CardAlone, ticking' = ticking, LocksMain,
           NEW q \in Places(Chosen'), NEW n \in Returns("main"), Call("main", q, Place(n)), q.op \in Calls("main", n),
           q.op \notin HoldsCard,
           Step = p /\ Step' = n => MainAnswer,
           Step = p /\ Step' = n /\ at'["input"] = at["input"] /\ at'["main"] = q => MainThreads
    PROVE  UiInv'
<1>1. StillChosen BY ChosenAlone
<1>2. StackInv' /\ OthersStay("main") /\ at'["main"] = q /\ Step = p /\ Step' = n BY <1>1, MainCall
<1>3. AnswerInv' BY <1>2, AnswerMoves DEF UiInv
<1>4. MainThreads BY <1>2, WorkerStays
<1>5. n # "pop" BY MainIs
<1> QED BY <1>1, <1>2, <1>3, <1>4, <1>5, MainAll

LEMMA LastCardKeeps == ASSUME UiInv, LastCard, check_keys' = check_keys PROVE UiInv'
<1> USE DEF UiInv
<1>1. AnswersStay /\ CardAlone /\ ticking' = ticking /\ LocksMain BY AnswersAlone, LocksMainAre DEF LastCard, Threading
<1>2. At("main", "last card") /\ Call("main", Show("bye"), Place("anim_stop")) BY DEF LastCard
<1>3. "last card" \in MainBases \ {"pop"} /\ "anim_stop" \in Returns("main") BY MainIs DEF MainBases
<1>4. PICK q : q = Show("bye") OBVIOUS
<1>5. Chosen' \in BOOLEAN /\ "bye" \in KindsFor(Chosen') BY DEF Chosen, KindsFor, Kinds
<1>6. q \in Places(Chosen') /\ q.op = "show" BY <1>4, <1>5, PlaceOf
<1>7. q.op \in Calls("main", "anim_stop") /\ q.op \notin HoldsCard BY <1>6 DEF Calls, ShowOps, HoldsCard
<1>8. ASSUME Step = "last card", Step' = "anim_stop" PROVE MainAnswer
  <2>1. left # NoAnswer BY <1>8 DEF AnswerInv, After
  <2> QED BY <1>8, <2>1 DEF MainAnswer, Before, Early, Held
<1>9. ASSUME Step = "last card", Step' = "anim_stop", at'["input"] = at["input"] PROVE MainThreads
  <2>1. ~At("main", "join input") BY <1>2 DEF At
  <2>2. At("input", "none") BY <1>9, <2>1 DEF ThreadsInv, NoInput
  <2> QED BY <1>9, <2>2 DEF MainThreads, Ending, Early, Down, At
<1> QED BY <1>1, <1>2, <1>3, <1>4, <1>6, <1>7, <1>8, <1>9, MainCalls

LEMMA AutoBootKeeps == ASSUME UiInv, multirom_ui_auto_boot, check_keys' = check_keys PROVE UiInv'
<1> USE DEF UiInv
<1>1. lock' = lock /\ Answers /\ CardAlone /\ ticking' = ticking /\ At("main", "auto boot")
  BY DEF multirom_ui_auto_boot, Threading
<1>2. CASE Place1("main", "loop")
  <2>1. <<"auto boot", "loop">> \in MainMoves BY DEF MainMoves
  <2> QED BY <1>1, <1>2, <2>1, MainSimple
<1>3. CASE AutoBoot # "none" /\ Call("main", Place("tick"), Place("loop"))
  <2>1. AnswersStay /\ LocksMain BY <1>1, AnswersAlone, LocksMainAre
  <2>2. "auto boot" \in MainBases \ {"pop"} /\ "loop" \in Returns("main") BY MainIs DEF MainBases
  <2>3. PICK q : q = Place("tick") OBVIOUS
  <2>4. Chosen' \in BOOLEAN /\ "tick" \in Plain BY <1>3 DEF Chosen, Plain, Ticks
  <2>5. q \in Places(Chosen') /\ q.op = "tick" BY <2>3, <2>4, PlaceOf
  <2>6. q.op \in Calls("main", "loop") /\ q.op \notin HoldsCard BY <1>3, <2>5 DEF Calls, Ticks, HoldsCard
  <2>7. ASSUME Step = "auto boot", Step' = "loop" PROVE MainAnswer
    <3>1. left = NoAnswer BY <2>7 DEF AnswerInv, Before, Early
    <3> QED BY <2>7, <3>1 DEF MainAnswer, After, Held
  <2>8. Step' = "loop" => MainThreads BY DEF MainThreads, Ending, NoInput, Early, Down
  <2> QED BY <1>1, <1>3, <2>1, <2>2, <2>3, <2>5, <2>6, <2>7, <2>8, MainCalls
<1> QED BY <1>2, <1>3 DEF multirom_ui_auto_boot

\* stop_input_thread, from where to where: the return is a place without the input thread.
StopMoves == {<<"check", "open">>, <<"check", "boot at once">>, <<"wait for key", "reboot">>, <<"stop input", "last card">>}

LEMMA StopInputKeeps ==
    ASSUME UiInv, NEW p, NEW n, <<p, n>> \in StopMoves, At("main", p), stop_input_thread(n), check_keys' = check_keys
    PROVE  UiInv'
<1> USE DEF UiInv
<1>1. AnswersStay /\ CardAlone /\ ticking' = ticking /\ Call("main", Place("join input"), Place(n))
  BY AnswersAlone DEF stop_input_thread
<1>2. LocksMain /\ lock'["exit"] = lock["exit"]
  <2>1. lock' = [lock EXCEPT !["start"] = "main"] BY DEF stop_input_thread, Take
  <2>2. "start" \in Locks \ {"card", "workers"} /\ "exit" \in Locks \ {"start"} BY DEF Locks
  <2> QED BY <2>1, <2>2, LocksMainAre, LocksAre
<1>3. p \in MainBases \ {"pop"} /\ n \in Returns("main") BY MainIs DEF MainBases, StopMoves
<1>4. PICK q : q = Place("join input") OBVIOUS
<1>5. Chosen' \in BOOLEAN /\ "join input" \in Plain BY DEF Chosen, Plain
<1>6. q \in Places(Chosen') /\ q.op = "join input" BY <1>4, <1>5, PlaceOf
<1>7. q.op \in Calls("main", n) /\ q.op \notin HoldsCard BY <1>6 DEF Calls, HoldsCard
<1>8. ASSUME Step = p, Step' = n PROVE MainAnswer
  <2>1. /\ Step \in {"started", "check", "boot at once"} => check_keys /\ AutoBoot # "none"
        /\ (Step \in Before => left = NoAnswer) /\ (Step \in After => left # NoAnswer)
    BY DEF AnswerInv
  <2>2. Step' \in {"started", "check", "boot at once"} => check_keys /\ AutoBoot # "none"
    BY <1>8, <2>1 DEF StopMoves
  <2>3. Step' \notin Held \cup {"method", "exit?", "leave"} BY <1>8 DEF StopMoves, Held
  <2>4. (Step' \in Before => Step \in Before) /\ (Step' \in After => Step \in After)
    BY <1>8 DEF StopMoves, Before, Early, Held, After
  <2>5. "method" \in Held /\ "exit?" \in Held BY DEF Held
  <2>6. Step # "dark" /\ Step' # "dark" BY <1>8 DEF StopMoves
  <2> QED BY <2>1, <2>2, <2>3, <2>4, <2>5, <2>6 DEF MainAnswer
<1>9. ASSUME Step = p, Step' = n, at'["main"] = q PROVE MainThreads
  <2>1. At("main", "join input")' BY <1>6, <1>9 DEF At
  <2>2. Step' \in Early => Step \in Early BY <1>9 DEF StopMoves, Early
  <2>3. ~Ending' BY <1>9 DEF StopMoves, Ending, Down
  <2> QED BY <2>1, <2>2, <2>3 DEF MainThreads, ThreadsInv
<1>10. Call("main", q, Place(n)) BY <1>1, <1>4
<1> QED BY <1>1, <1>2, <1>3, <1>6, <1>7, <1>8, <1>9, <1>10, MainCalls

LEMMA JoinedKeeps == ASSUME UiInv, Joined, check_keys' = check_keys PROVE UiInv'
<1> USE DEF UiInv
<1>1. AnswersStay /\ CardAlone /\ ticking' = ticking /\ Return("main") /\ at["main"].op = "join input" /\ At("input", "none")
  BY AnswersAlone DEF Joined, Threading, At
<1>2. LocksMain /\ lock'["exit"] = lock["exit"]
  <2>1. lock' = [lock EXCEPT !["start"] = NoOne] BY DEF Joined, Drop
  <2>2. "start" \in Locks \ {"card", "workers"} /\ "exit" \in Locks \ {"start"} BY DEF Locks
  <2> QED BY <2>1, <2>2, LocksMainAre, LocksAre
<1>3. StillChosen /\ "main" \in Threads /\ at["main"].op \in CallOps BY <1>1, ChosenAlone, MainIs DEF CallOps
<1>4. StackInv' /\ InnerStep("main") /\ OthersStay("main") /\ at'["main"].op \notin HoldsCard
  BY <1>1, <1>3, ReturnInner
<1>5. Step' = Step BY <1>4 DEF InnerStep, Step, Base
<1>6. AnswerInv' BY <1>1, <1>2, <1>5, AnswerKept DEF AnswersStay
<1>7. at'["input"] = at["input"] BY <1>4, WorkerStays
<1>8. Step # "pop" BY <1>3, NotBase, InCall, MainIs DEF Step
<1>9. MainThreads BY <1>1, <1>5, <1>7 DEF MainThreads, ThreadsInv, Ending, AnswersStay, At
<1> QED BY <1>1, <1>2, <1>3, <1>4, <1>5, <1>6, <1>8, <1>9, MainAll

-----------------------------------------------------------------------------
\* Main starts a thread.

LEMMA MainStarts ==
    ASSUME UiInv, NEW p \in MainBases \ {"pop"}, At("main", p), NEW o \in MainBases \ {"pop"},
           NEW u \in {"input", "refresh"}, at[u].op \in Bases(u), NEW n \in Bases(u),
           at' = [at EXCEPT !["main"] = Place(o), ![u] = Place(n)], back' = back,
           AnswersStay, CardAlone, ticking' = ticking, lock' = lock,
           Step = p /\ Step' = o => MainAnswer,
           Step = p /\ Step' = o /\ (u # "input" => at'["input"] = at["input"]) => MainThreads
    PROVE  UiInv'
<1> USE DEF UiInv
<1>1. PICK q, r : q = Place(o) /\ r = Place(n) OBVIOUS
<1>2. StillChosen /\ Chosen' \in BOOLEAN BY ChosenAlone DEF Chosen
<1>3. {"main", u} \subseteq Threads /\ u # "main" BY DEF Threads
<1>4. o \in Plain /\ n \in Plain /\ o \notin HoldsCard /\ n \notin HoldsCard BY <1>3, MainIs, BasesPlain
<1>5. q \in Places(Chosen') /\ q.op = o /\ r \in Places(Chosen') /\ r.op = n BY <1>1, <1>2, <1>4, PlaceOf
<1>6. /\ at' = [w \in Threads |-> at'[w]] /\ at'["main"] = q /\ at'[u] = r
      /\ \A w \in Threads \ {"main", u} : at'[w] = at[w]
      /\ back = [w \in Threads |-> back[w]]
  <2>1. at = [w \in Threads |-> at[w]] /\ back = [w \in Threads |-> back[w]] BY DEF StackInv
  <2>2. at' = [at EXCEPT !["main"] = q, ![u] = r] BY <1>1
  <2> QED BY <1>3, <2>1, <2>2
<1>7. back["main"] = <<>> /\ back[u] = <<>> BY <1>2, <1>3, MainIs, WasStacked DEF At
<1>8. StackInv'
  <2>1. Stacked(Places(Chosen'), "main", q, <<>>)
    <3>1. Stacked(Places(Chosen'), "main", at["main"], <<>>) BY <1>2, <1>3, <1>7, WasStacked
    <3> QED BY <1>3, <1>5, <3>1, MainIs, Moved
  <2>2. Stacked(Places(Chosen'), u, r, <<>>)
    <3>1. Stacked(Places(Chosen'), u, at[u], <<>>) BY <1>2, <1>3, <1>7, WasStacked
    <3> QED BY <1>3, <1>5, <3>1, Moved
  <2>3. ASSUME NEW w \in Threads PROVE Stacked(Places(Chosen'), w, at'[w], back'[w])
    <3>1. CASE w = "main" BY <1>6, <1>7, <2>1, <3>1
    <3>2. CASE w = u BY <1>6, <1>7, <2>2, <3>2
    <3>3. CASE w \notin {"main", u}
      <4>1. Stacked(Places(Chosen'), w, at[w], back[w]) BY <1>2, WasStacked
      <4> QED BY <1>6, <3>3, <4>1
    <3> QED BY <3>1, <3>2, <3>3
  <2> QED BY <1>6, <2>3 DEF StackInv
<1>9. Step = p /\ Step' = o
  <2>1. Step' = at'["main"].op BY <1>7 DEF Step, Base, Under
  <2> QED BY <1>5, <1>6, <1>7, <2>1, MainAtBase DEF At
<1>10. AnswerInv' BY <1>9, AnswerMoves
<1>11. at'["worker"] = at["worker"] /\ (u # "input" => at'["input"] = at["input"])
  BY <1>6 DEF Threads
<1>12. ThreadsInv'
  <2>1. MainThreads BY <1>9, <1>11
  <2> QED BY <1>11, <2>1 DEF ThreadsInv, MainThreads, At
<1>13. CardInv'
  <2>1. \A w \in Threads : at'[w].op \in HoldsCard => at'[w].op = at[w].op BY <1>4, <1>5, <1>6
  <2>2. LocksMain BY LocksMainAre
  <2> QED BY <2>1, <2>2, CardKept DEF CardAlone, LocksMain
<1>14. PushedInv' BY <1>9 DEF PushedInv, CardAlone
<1>15. ShownInv' BY <1>2, ShownKept DEF CardAlone
<1> QED BY <1>8, <1>10, <1>12, <1>13, <1>14, <1>15

\* start_input_thread, and where main goes on.
InputMoves == {<<"begin", "started">>, <<"open", "wait for key">>, <<"start", "enable">>}

LEMMA InputStarted ==
    ASSUME UiInv, NEW p, NEW o, <<p, o>> \in InputMoves, At("main", p), NEW wait, NEW next, start_input_thread(wait, next),
           o = IF wait THEN "started" ELSE next, o = "started" => check_keys /\ AutoBoot # "none", check_keys' = check_keys
    PROVE  UiInv'
<1> USE DEF UiInv
<1>1. /\ AnswersStay /\ CardAlone /\ ticking' = ticking /\ lock' = lock /\ back' = back
      /\ at' = [at EXCEPT !["main"] = Place(o), !["input"] = Place("starting")]
  BY AnswersAlone DEF start_input_thread
<1>2. p \in MainBases \ {"pop"} /\ o \in MainBases \ {"pop"} BY DEF InputMoves, MainBases
<1>3. p \in NoInput BY DEF InputMoves, NoInput
<1>4. Step = p /\ ~At("main", "join input")
  <2>1. at["main"].op \in MainBases BY <1>2 DEF At
  <2> QED BY <2>1, MainAtBase DEF At, MainBases
<1>5. at["input"].op \in Bases("input") /\ "starting" \in Bases("input")
  BY <1>3, <1>4 DEF ThreadsInv, At, Bases
<1>6. ASSUME Step' = o PROVE MainAnswer
  <2>1. left = NoAnswer BY <1>4 DEF AnswerInv, InputMoves, Before, Early
  <2> QED BY <1>4, <1>6, <2>1 DEF MainAnswer, InputMoves, Held, After
<1>7. ASSUME Step' = o PROVE MainThreads
  <2>1. Step \in Early BY <1>4 DEF InputMoves, Early
  <2>2. Step' \notin NoInput /\ ~Ending' BY <1>7 DEF InputMoves, NoInput, Ending, Down
  <2> QED BY <2>1, <2>2 DEF MainThreads, ThreadsInv
<1> QED BY <1>1, <1>2, <1>5, <1>6, <1>7, MainStarts

\* multirom_ui_init_theme.
LEMMA ThemeStarted ==
    ASSUME UiInv, NEW p, NEW o, (p = "open" /\ o = "start") \/ (p = "theme again" /\ o = "coloured"),
           At("main", p), multirom_ui_init_theme(o), check_keys' = check_keys
    PROVE  UiInv'
<1> USE DEF UiInv
<1>1. /\ AnswersStay /\ CardAlone /\ ticking' = ticking /\ lock' = lock /\ back' = back
      /\ at' = [at EXCEPT !["main"] = Place(o), !["refresh"] = Place("idle")]
  BY AnswersAlone DEF multirom_ui_init_theme
<1>2. p \in MainBases \ {"pop"} /\ o \in MainBases \ {"pop"} BY DEF MainBases
<1>3. Step = p /\ ~At("main", "join input")
  <2>1. at["main"].op \in MainBases BY <1>2 DEF At
  <2> QED BY <2>1, MainAtBase DEF At, MainBases
<1>4. at["refresh"].op \in Bases("refresh") /\ "idle" \in Bases("refresh")
  <2>1. "refresh" \in Threads BY DEF Threads
  <2> QED BY <2>1, InCall DEF Returns, Bases
<1>5. ASSUME Step' = o PROVE MainAnswer
  <2>1. left = NoAnswer BY <1>3 DEF AnswerInv, Before, Early
  <2> QED BY <1>3, <1>5, <2>1 DEF MainAnswer, Held, After
<1>6. ASSUME Step' = o, at'["input"] = at["input"] PROVE MainThreads
  <2>1. ~Ending' BY <1>6 DEF Ending, Down
  <2>2. Step' \in NoInput => Step = "open" /\ Step \in NoInput BY <1>3, <1>6 DEF NoInput
  <2>3. Step' \in Early => Step \in Early BY <1>3, <1>6 DEF Early
  <2> QED BY <1>3, <1>6, <2>1, <2>2, <2>3 DEF MainThreads, ThreadsInv, At
<1> QED BY <1>1, <1>2, <1>4, <1>5, <1>6, MainStarts

LEMMA CheckKeysKeeps == ASSUME UiInv, CheckKeysHeld, check_keys' = check_keys PROVE UiInv'
<1>1. CASE At("main", "begin") /\ check_keys /\ AutoBoot # "none" /\ start_input_thread(TRUE, "check")
  <2>1. <<"begin", "started">> \in InputMoves BY DEF InputMoves
  <2> QED BY <1>1, <2>1, InputStarted
<1>2. CASE At("main", "started") /\ lock' = lock /\ MainSteps("check")
  <2>1. <<"started", "check">> \in MainMoves BY DEF MainMoves
  <2> QED BY <1>2, <2>1, MainSimple DEF MainSteps, MainOn, Threading
<1> QED BY <1>1, <1>2 DEF CheckKeysHeld

LEMMA KeysHeldKeeps == ASSUME UiInv, KeysHeld \/ StopInput, check_keys' = check_keys PROVE UiInv'
<1>1. PICK p, n : <<p, n>> \in StopMoves /\ At("main", p) /\ stop_input_thread(n)
  BY DEF KeysHeld, StopInput, StopMoves
<1> QED BY <1>1, StopInputKeeps

LEMMA RebootKeeps ==
    ASSUME UiInv, At("main", "reboot"), Place1("main", "done"), check_keys' = check_keys,
           exit_ui_code' = "reboot", left' = [code |-> "reboot", rom |-> "none"],
           UNCHANGED <<lock, destroy, selected_rom, method, auto_boot_rom, late>>, CardAlone, Threading
    PROVE  UiInv'
<1> USE DEF UiInv
<1>1. "reboot" \in MainBases \ {"pop"} /\ "done" \in MainBases \ {"pop"} BY DEF MainBases
<1>2. Step = "reboot" BY <1>1, MainAtBase DEF At
<1>3. StillChosen /\ Chosen' = Chosen BY DEF StillChosen, Chosen
<1>4. ASSUME Step' = "done" PROVE AnswerInv'
  <2>1. left' # NoAnswer /\ left'.code = "reboot"
    <3>1. NoAnswer.code = "none" /\ left'.code = "reboot" BY DEF NoAnswer
    <3> QED BY <3>1
  <2>2. Matches' BY <2>1 DEF Matches
  <2>3. Step' \notin Before \cup Held \cup {"method", "exit?", "leave", "started", "check", "boot at once"}
    BY <1>4 DEF Before, Early, Held
  <2>4. Step' # "dark" BY <1>4
  <2> QED BY <1>3, <2>1, <2>2, <2>3, <2>4 DEF AnswerInv
<1>5. ASSUME at'["input"] = at["input"] PROVE MainThreads
  <2>1. ~At("main", "join input") BY DEF At
  <2>2. At("input", "none") BY <1>2, <2>1 DEF ThreadsInv, NoInput
  <2>3. At("worker", "none") /\ ~ticking BY <1>2 DEF ThreadsInv, Early
  <2> QED BY <1>5, <2>2, <2>3 DEF MainThreads, At
<1> QED BY <1>1, <1>3, <1>4, <1>5, MainDecides DEF Threading

LEMMA NoThemeKeeps == ASSUME UiInv, NoTheme, check_keys' = check_keys PROVE UiInv'
<1>1. CASE At("main", "open") /\ start_input_thread(FALSE, "wait for key")
  <2>1. /\ <<"open", "wait for key">> \in InputMoves /\ "wait for key" # "started"
        /\ "wait for key" = IF FALSE THEN "started" ELSE "wait for key"
    BY DEF InputMoves
  <2> QED BY <1>1, <2>1, InputStarted
<1>2. CASE At("main", "wait for key") /\ stop_input_thread("reboot")
  <2>1. <<"wait for key", "reboot">> \in StopMoves BY DEF StopMoves
  <2> QED BY <1>2, <2>1, StopInputKeeps
<1>3. CASE /\ At("main", "reboot") /\ Place1("main", "done")
           /\ exit_ui_code' = "reboot" /\ left' = [code |-> "reboot", rom |-> "none"]
           /\ UNCHANGED <<lock, destroy, selected_rom, method, auto_boot_rom, late>>
           /\ CardAlone /\ Threading
  BY <1>3, RebootKeeps
<1> QED BY <1>1, <1>2, <1>3 DEF NoTheme

LEMMA OpensKeeps == ASSUME UiInv, Opens, check_keys' = check_keys PROVE UiInv'
<1>1. CASE At("main", "begin") /\ lock' = lock /\ MainSteps("open")
  <2>1. <<"begin", "open">> \in MainMoves BY DEF MainMoves
  <2> QED BY <1>1, <2>1, MainSimple DEF MainSteps, MainOn, Threading
<1>2. CASE At("main", "open") /\ multirom_ui_init_theme("start") BY <1>2, ThemeStarted
<1>3. CASE At("main", "start") /\ start_input_thread(FALSE, "enable")
  <2>1. /\ <<"start", "enable">> \in InputMoves /\ "enable" # "started"
        /\ "enable" = IF FALSE THEN "started" ELSE "enable"
    BY DEF InputMoves
  <2> QED BY <1>3, <2>1, InputStarted
<1> QED BY <1>1, <1>2, <1>3 DEF Opens

LEMMA ThemeAgainKeeps == ASSUME UiInv, ThemeAgain, check_keys' = check_keys PROVE UiInv'
<1>1. CASE At("main", "theme again") /\ multirom_ui_init_theme("coloured") BY <1>1, ThemeStarted
<1>2. CASE At("main", "coloured") /\ lock' = lock /\ MainOn("loop")
  <2>1. <<"coloured", "loop">> \in MainMoves BY DEF MainMoves
  <2> QED BY <1>2, <2>1, MainSimple DEF MainOn, Threading
<1> QED BY <1>1, <1>2 DEF ThemeAgain

-----------------------------------------------------------------------------
\* Pong puts the handlers aside and takes them back.

PushedAway == pushed' = listed /\ listed' = 0
PushedBack == listed' = pushed /\ pushed' = -1

LEMMA HandlerMoves ==
    ASSUME HandlerInv, (PushedAway /\ pushed = -1) \/ (PushedBack /\ pushed # -1), UNCHANGED <<registered, pending, overtaken>>
    PROVE  HandlerInv' /\ (pushed' # -1 <=> pushed = -1)
<1>1. PICK x \in {0, 1} : x = Flag(registered) BY FlagIs, HandlerWas
<1>2. PICK l \in Nat, p \in Nat \cup {-1}, a \in Nat, r \in Nat :
          l = listed /\ p = pushed /\ a = pending.add /\ r = pending.rm
  BY HandlerWas
<1>3. ~overtaken => Even(l, p, a, r, x) /\ (p # -1 => l = 0) BY <1>1, <1>2, HandlerWas
<1>4. CASE p = -1
  <2>1. listed' = 0 /\ pushed' = l BY <1>2, <1>4 DEF PushedAway, PushedBack
  <2>2. ~overtaken => Even(0, l, a, r, x) BY <1>3, <1>4, Evens, Zenon
  <2>3. ~overtaken' => (pushed' # -1 => listed' = 0) /\ Even(listed', pushed', pending'.add, pending'.rm, Flag(registered'))
    BY <1>1, <1>2, <2>1, <2>2
  <2>4. HandlerInv' BY <2>1, <2>3, HandlerWas, HandlerNow
  <2> QED BY <1>2, <1>4, <2>1, <2>4
<1>5. CASE p # -1
  <2>1. listed' = p /\ pushed' = -1 /\ p \in Nat BY <1>2, <1>5 DEF PushedAway, PushedBack
  <2>2. ~overtaken => Even(p, -1, a, r, x) BY <1>3, <1>5, Evens
  <2>3. ~overtaken' => (pushed' # -1 => listed' = 0) /\ Even(listed', pushed', pending'.add, pending'.rm, Flag(registered'))
    BY <1>1, <1>2, <2>1, <2>2
  <2>4. HandlerInv' BY <2>1, <2>3, HandlerWas, HandlerNow
  <2> QED BY <1>2, <1>5, <2>1, <2>4
<1> QED BY <1>4, <1>5

LEMMA PongContextKeeps == ASSUME UiInv, PongContext, check_keys' = check_keys PROVE UiInv'
<1> USE DEF UiInv
<1>1. AnswersStay /\ ticking' = ticking /\ lock' = lock /\ UNCHANGED <<card, registered, pending, overtaken>>
  BY AnswersAlone DEF PongContext, Threading
<1>2. PICK p, o : /\ (p = "push" /\ o = "pop" /\ PushedAway) \/ (p = "pop" /\ o = "pop done" /\ PushedBack)
                  /\ At("main", p) /\ Place1("main", o)
  BY DEF PongContext, PushedAway, PushedBack
<1>3. p \in MainBases /\ o \in MainBases BY <1>2 DEF MainBases
<1>4. StillChosen BY <1>1, ChosenAlone
<1>5. StackInv' /\ OthersStay("main") /\ at'["main"].op \notin HoldsCard /\ Step = p /\ Step' = o
  BY <1>2, <1>3, <1>4, MainGo
<1>6. pushed # -1 <=> p = "pop" BY <1>5 DEF PushedInv
<1>7. HandlerInv' /\ (pushed' # -1 <=> pushed = -1)
  <2>1. HandlerInv BY DEF CardInv
  <2> QED BY <1>1, <1>2, <1>6, <2>1, HandlerMoves
<1>8. PushedInv' BY <1>2, <1>5, <1>6, <1>7 DEF PushedInv
<1>9. CardInv'
  <2>1. lock' = [l \in Locks |-> lock'[l]] BY <1>1 DEF CardInv
  <2>2. \A t \in Threads : at'[t].op \in HoldsCard => at'[t].op = at[t].op BY <1>5 DEF OthersStay
  <2>3. \A t \in Threads : at'[t].op \in HoldsCard => lock'["card"] = t BY <1>1, <2>2 DEF CardInv
  <2>4. \A t \in Threads : at'[t].op = "hide handler" => registered'
    <3> SUFFICES ASSUME NEW t \in Threads, at'[t].op = "hide handler" PROVE registered' OBVIOUS
    <3>1. at[t].op = "hide handler" BY <2>2 DEF HoldsCard
    <3>2. registered = TRUE BY <3>1 DEF CardInv
    <3>3. registered' = TRUE BY <1>1, <3>2
    <3> QED BY <3>3
  <2> QED BY <1>7, <2>1, <2>3, <2>4 DEF CardInv
<1>10. at'["input"] = at["input"] /\ at'["worker"] = at["worker"] BY <1>5, WorkerStays
<1>11. ThreadsInv'
  <2>1. Step' \notin NoInput \cup Early /\ ~Ending' BY <1>2, <1>5 DEF NoInput, Early, Ending, Down
  <2> QED BY <1>1, <1>10, <2>1 DEF ThreadsInv, At
<1>12. AnswerInv'
  <2>1. left = NoAnswer /\ lock["exit"] = "main" BY <1>2, <1>5 DEF AnswerInv, Before, Held
  <2>2. Step' \notin After \cup {"method", "exit?", "leave", "started", "check", "boot at once"} BY <1>2, <1>5 DEF After
  <2>3. Step # "dark" /\ Step' # "dark" BY <1>2, <1>5
  <2>4. MainAnswer BY <1>1, <2>1, <2>2, <2>3 DEF MainAnswer
  <2> QED BY <1>1, <2>4, AnswerMoves
<1>13. ShownInv' BY <1>1, <1>4, ShownKept
<1> QED BY <1>5, <1>8, <1>9, <1>11, <1>12, <1>13

-----------------------------------------------------------------------------
\* The theorems.

LEMMA Starts == ASSUME UiInit PROVE UiInv
<1> USE DEF UiInit, CardInit
<1>1. /\ \A t \in Threads : at[t].op = IF t = "main" THEN "begin" ELSE "none"
      /\ \A t \in Threads : back[t] = <<>>
      /\ \A t \in Threads : at[t] = Place(IF t = "main" THEN "begin" ELSE "none")
  BY DEF Place
<1>2. {"main", "input", "worker"} \subseteq Threads BY DEF Threads
<1>3. Step = "begin" /\ At("input", "none") /\ At("worker", "none") /\ ~Ending
  <2>1. Step = "begin" BY <1>1, <1>2 DEF Step, Base, Under
  <2> QED BY <1>1, <1>2, <2>1 DEF At, Ending, Down
<1>4. StackInv
  <2>1. ASSUME NEW t \in Threads PROVE Stacked(Places(Chosen), t, at[t], back[t])
    <3>1. PICK o : o = IF t = "main" THEN "begin" ELSE "none" OBVIOUS
    <3>2. o \in Plain /\ o \in Bases(t) BY <3>1 DEF Plain, Bases, MainBases, Threads
    <3>3. Chosen \in BOOLEAN BY DEF Chosen
    <3>4. Place(o) \in Places(Chosen) /\ Place(o).op = o BY <3>2, <3>3, PlaceOf
    <3>5. <<>> \in Seq(Places(Chosen)) OBVIOUS
    <3>6. at[t] = Place(o) /\ back[t] = <<>> BY <1>1, <3>1
    <3> QED BY <3>2, <3>4, <3>5, <3>6 DEF Stacked
  <2>2. at = [t \in Threads |-> at[t]] /\ back = [t \in Threads |-> back[t]] OBVIOUS
  <2> QED BY <2>1, <2>2 DEF StackInv
<1>5. CardInv
  <2>1. \A t \in Threads : at[t].op \notin HoldsCard BY <1>1 DEF HoldsCard
  <2>2. lock = [l \in Locks |-> lock[l]] OBVIOUS
  <2>3. HandlerInv
    <3>1. pending \in [add : Nat, rm : Nat] /\ pending.add = 0 /\ pending.rm = 0 OBVIOUS
    <3>2. registered = FALSE /\ listed = 0 /\ pushed = -1 /\ overtaken = FALSE OBVIOUS
    <3>3. listed + pending.add + (IF pushed = -1 THEN 0 ELSE pushed) = pending.rm + IF registered THEN 1 ELSE 0
      BY <3>1, <3>2
    <3> QED BY <3>1, <3>2, <3>3 DEF HandlerInv
  <2> QED BY <2>1, <2>2, <2>3 DEF HoldsCard, CardInv
<1>6. PushedInv BY <1>3 DEF PushedInv
<1>7. ThreadsInv BY <1>3 DEF ThreadsInv
<1>8. AnswerInv
  <2>1. auto_boot_rom \in ROMs \cup {"none"} /\ (AutoBoot # "none" => auto_boot_rom \in ROMs)
    BY UiAssumption DEF ROMs
  <2>2. Step \notin Held \cup After \cup {"method", "exit?", "leave", "started", "check", "boot at once", "dark"}
    BY <1>3 DEF Held, After
  <2> QED BY <2>1, <2>2 DEF AnswerInv
<1>9. ShownInv BY DEF ShownInv, Hidden
<1> QED BY <1>4, <1>5, <1>6, <1>7, <1>8, <1>9 DEF UiInv

LEMMA MainNextKeeps == ASSUME UiInv, MainNext, check_keys' = check_keys PROVE UiInv'
BY CheckKeysKeeps, KeysHeldKeeps, BootAtOnceKeeps, NoThemeKeeps, DarkKeeps, OpensKeeps, PongKeeps, AutoBootKeeps,
   LoopKeeps, ChooseMethodKeeps, LeavesKeeps, UpdateUsbKeeps, ListFilledKeeps, PongContextKeeps, LoopEndsKeeps,
   DestroyKeeps, ThemeAgainKeeps, LeaveKeeps, JoinedKeeps, LastCardKeeps, AnimStopKeeps, WorkersStopKeeps
   DEF MainNext

LEMMA InputNextKeeps == ASSUME UiInv, InputNext, check_keys' = check_keys PROVE UiInv'
BY InputStartsKeeps, TouchBeginsKeeps, CardTouchedKeeps, CardButtonKeeps, InputAnswers, WidgetAsksKeeps, WidgetShowsKeeps
   DEF InputNext

LEMMA UiKept == ASSUME UiInv, [UiNext]_<<cardVars, uiVars>> PROVE UiInv'
<1>1. CASE UNCHANGED <<cardVars, uiVars>>
  <2>1. HandlerInv' BY <1>1 DEF cardVars, HandlerInv, CardInv, UiInv
  <2> QED BY <1>1, <2>1, NoneMoves DEF cardVars
<1>2. CASE UiNext
  <2>1. check_keys' = check_keys BY <1>2 DEF UiNext
  <2>2. CASE MainNext BY <2>1, <2>2, MainNextKeeps
  <2>3. CASE InputNext BY <2>1, <2>3, InputNextKeeps
  <2>4. CASE WorkerBegins \/ WorkerEnds BY <2>1, <2>4, WorkerBeginsKeeps
  <2>5. CASE DrivesChange \/ multirom_ui_refresh_usb_handler \/ RefreshEnds BY <2>1, <2>5, RefreshKeeps
  <2>6. CASE HandlerThread /\ UNCHANGED uiVars BY <2>6, HandlerThreadKeeps
  <2>7. ASSUME NEW t \in Threads,
               OfThread(t) \/ BootsAuto(t) \/ TickOver(t) \/ TickZero(t) \/ Tick(t) \/ Ticked(t)
        PROVE  UiInv'
    BY <2>1, <2>7, CardCallKeeps, BootsAutoKeeps, TickOverKeeps, TickZeroKeeps, TickKeeps DEF OfThread
  <2> QED BY <1>2, <2>2, <2>3, <2>4, <2>5, <2>6, <2>7 DEF UiNext
<1> QED BY <1>1, <1>2

\* The invariant of the loop: who holds ncard.mutex, where the card's handler is, which
\* threads there are by main's place, and what the answer is worth there.
THEOREM UiSafe == UiSpec => []UiInv
<1>1. UiInit => UiInv BY Starts
<1>2. UiInv /\ [UiNext]_<<cardVars, uiVars>> => UiInv' BY UiKept
<1> QED BY <1>1, <1>2, PTL DEF UiSpec

\* With no thread at the card, and no thread of a handler overtaken, ncard_touch_handler is in
\* the list of handlers once when it is thought to be, and not at all otherwise.
THEOREM HandlerFlagged == UiSpec => []HandlerAsFlagged
<1>1. UiInv => HandlerAsFlagged
  <2> SUFFICES ASSUME UiInv PROVE HandlerAsFlagged OBVIOUS
  <2>1. HandlerInv BY DEF UiInv, CardInv
  <2> QED BY <2>1 DEF HandlerInv, HandlerAsFlagged
<1> QED BY <1>1, UiSafe, PTL

\* multirom_ui() returns what was answered last, with a ROM for a boot and a method for it,
\* unless an answer came after the loop had been left; once the input thread has been joined
\* and the animations have ended nothing comes.  Only when the frame buffer does not open is
\* the answer to boot without a ROM.
THEOREM AnswerAlwaysMatches == UiSpec => []AnswerMatches
<1>1. UiInv => AnswerMatches
  <2> SUFFICES ASSUME UiInv, Final \/ At("main", "dark") PROVE AnswerMatches BY DEF AnswerMatches
  <2>1. CASE At("main", "dark")
    <3>1. Step = "dark"
      <4>1. at["main"].op \in MainBases BY <2>1 DEF At, MainBases
      <4> QED BY <2>1, <4>1, MainAtBase DEF UiInv, At
    <3>2. left.code = "boot" /\ left.rom = "none" BY <3>1 DEF UiInv, AnswerInv
    <3>3. ~Final BY <2>1 DEF At, Final
    <3> QED BY <2>1, <3>2, <3>3 DEF AnswerMatches
  <2>2. CASE Final
    <3>1. Ending /\ Step # "dark" /\ ~At("main", "dark")
      <4>1. at["main"].op \in MainBases \ {"dark"} BY <2>2 DEF At, Final, MainBases
      <4> QED BY <2>2, <4>1, MainAtBase, FinalEnds DEF UiInv, At
    <3>2. left # NoAnswer BY <3>1 DEF UiInv, AnswerInv, Ending, After
    <3>3. left.code \in {"boot", "reboot"} /\ (left.code = "boot" => left.rom \in ROMs) /\ (~late => Matches)
      BY <3>1, <3>2 DEF UiInv, AnswerInv
    <3>4. "none" \notin ROMs BY DEF ROMs
    <3> QED BY <3>1, <3>3, <3>4 DEF AnswerMatches, Matches
  <2> QED BY <2>1, <2>2
<1> QED BY <1>1, UiSafe, PTL

-----------------------------------------------------------------------------
\* Who has the other mutexes, and the circles.

\* No frame of a countdown.
Bare(f) == f.op # "ticked" /\ (f.op \in ShowOps => f.kind # "auto")
BareList(s) == \A i \in 1..Len(s) : Bare(s[i])

\* Where a thread is that has auto_boot_data.mutex: it counted, and shows the countdown's card,
\* for which it may have to hide another one, of the kind c, which is not the countdown's.
Counts(s) == s # <<>> /\ Head(s).op = "ticked" /\ BareList(Tail(s))
ShowsCount(p, s) == p.op \in ShowOps /\ p.kind = "auto" /\ Counts(s)
HidesFirst(c, p, s) ==
    /\ p.op \in HideOps \ {"hidden"} /\ c # "auto"
    /\ s # <<>> /\ Head(s).op = "show again" /\ Head(s).kind = "auto" /\ Counts(Tail(s))
Counting(c, p, s) == (p.op = "ticked" /\ BareList(s)) \/ ShowsCount(p, s) \/ HidesFirst(c, p, s)

\* With the mutex a thread is there, without it it has nothing of a countdown's.
AutoAt(owner, c, t, p, s) == IF owner = t THEN Counting(c, p, s) ELSE Bare(p) /\ BareList(s)

CardRecs == [shown : BOOLEAN, kind : Kinds \cup {"none"}, cancelable : BOOLEAN, btns : BOOLEAN, centre : BOOLEAN,
             on_hidden : BOOLEAN]
AsKind(c) == c \in CardRecs /\ (c.centre <=> c.kind # "rom") /\ (c.on_hidden <=> c.kind = "auto")

AutoInv ==
    /\ lock["auto"] \in Threads \cup {NoOne}
    /\ AsKind(card)
    /\ \A t \in Threads : AutoAt(lock["auto"], card.kind, t, at[t], back[t])

Joins == {"open", "boot at once", "reboot", "last card"}

\* Who has the others, and where main is while it joins the input thread.
OwnerInv ==
    /\ lock["card"] # NoOne => \E t \in Threads : lock["card"] = t /\ at[t].op \in HoldsCard
    /\ lock["exit"] # NoOne => lock["exit"] = "main" /\ Step \in Held
    /\ lock["start"] # NoOne => lock["start"] = "main" /\ At("main", "join input")
    /\ At("main", "join input") => Step \in Joins
    /\ lock["touch"] # NoOne => lock["touch"] = "input" /\ Base("input") = "touched"
    /\ lock["workers"] # NoOne => lock["workers"] = "worker"

OwnersInv == UiInv /\ AutoInv /\ OwnerInv

\* The locks a thread may want by its place.
Wants(l) ==
    CASE l = "card" -> {"show", "show again", "hide lock", "card"}
      [] l = "touch" -> {"push", "pop", "destroy", "theme again", "hide handler"}
      [] l = "auto" -> {"hidden", "tick"}
      [] l = "exit" -> {"boot now", "use method", "widgets", "tell", "loop", "usb flag", "coloured"}
      [] l = "start" -> {"starting", "stop input", "check"}
      [] l = "workers" -> {"enable", "disable", "pop done", "scroll", "leave", "anims end", "workers_stop"}

LEMMA WantedAt ==
    ASSUME NEW t
    PROVE  /\ \A l \in Wanted(t) : l \in Locks /\ at[t].op \in Wants(l) /\ Wanted(t) = {l}
           /\ At(t, "hide handler") /\ t = "input" => Wanted(t) = {}
BY DEF Wanted, At, Locks, Wants

LEMMA WaitsAt ==
    ASSUME NEW t, NEW u \in WaitsFor(t)
    PROVE  \/ \E l \in Locks : Wanted(t) = {l} /\ at[t].op \in Wants(l) /\ lock[l] = u /\ u # NoOne
           \/ At(t, "join input") /\ u = "input"
           \/ At(t, "join refresh") /\ u = "refresh"
BY WantedAt DEF WaitsFor

\* Each thread at its places.
LEMMA Whereabouts ==
    ASSUME StackInv, NEW t \in Threads
    PROVE  /\ at[t].op \in Bases(t) \cup Calls(t, Base(t))
           /\ t = "main" /\ at[t].op \in MainBases => Step = at[t].op
           /\ t = "main" /\ at[t].op \notin MainBases => Step \in Returns("main")
           /\ at[t].op \in Bases(t) => Base(t) = at[t].op
<1>1. back[t] = <<>> <=> at[t].op \in Bases(t) BY WasStacked, Depth DEF StackInv
<1>2. at[t].op \notin Bases(t) => at[t].op \in Calls(t, Base(t)) BY InCall
<1>3. at[t].op \in Bases(t) => Base(t) = at[t].op BY <1>1 DEF Base, Under
<1>4. t = "main" => Bases(t) = MainBases BY DEF Bases
<1>5. t = "main" /\ at[t].op \notin MainBases => Step \in Returns("main") BY <1>4, InCall DEF Step
<1> QED BY <1>2, <1>3, <1>4, <1>5 DEF Step

LEMMA WorkerPlaces ==
    ASSUME StackInv
    PROVE  /\ ~At("worker", "starting") /\ ~At("refresh", "starting")
           /\ at["worker"].op \in {"none", "round"} \cup ShowOps \cup HideOps \cup Ticks
<1>1. {"worker", "refresh"} \subseteq Threads BY DEF Threads
<1>2. at["worker"].op \in Bases("worker") \cup Calls("worker", Base("worker")) BY <1>1, Whereabouts
<1>3. at["refresh"].op \in Bases("refresh") \cup Calls("refresh", Base("refresh")) BY <1>1, Whereabouts
<1> QED BY <1>2, <1>3 DEF At, Bases, Calls, ShowOps, HideOps, Ticks

LEMMA NoCircle ==
    ASSUME UiInv, AutoInv, OwnerInv PROVE WaitsKnown
<1> SUFFICES ASSUME NEW S \in Circles PROVE \E K \in SUBSET S : K \in Circles /\ KnownCircle(K)
  BY DEF WaitsKnown
<1>1. S \subseteq Threads /\ \A t \in S : \E u \in S : u \in WaitsFor(t) BY DEF Circles
<1>2. CASE \E t \in S : At(t, "hide handler") /\ Wanted(t) = {"touch"}
  <2>1. KnownCircle(S) BY <1>2 DEF KnownCircle
  <2> QED BY <2>1
<1>3. ASSUME \A t \in S : ~(At(t, "hide handler") /\ Wanted(t) = {"touch"})
      PROVE  \E K \in SUBSET S : K \in Circles /\ KnownCircle(K)
  \* Who has ncard.mutex or auto_boot_data.mutex waits for nobody.
  <2>1. ASSUME NEW t \in S PROVE at[t].op \notin HoldsCard \cup {"ticked", "hide"}
    <3>1. PICK u \in S : u \in WaitsFor(t) BY <1>1
    <3>2. CASE \E l \in Locks : Wanted(t) = {l} /\ at[t].op \in Wants(l) /\ lock[l] = u /\ u # NoOne
      <4>1. PICK l \in Locks : Wanted(t) = {l} /\ at[t].op \in Wants(l) BY <3>2
      <4>2. at[t].op = "hide handler" => l = "touch" BY <4>1 DEF Wants, Locks
      <4>3. at[t].op # "hide handler" BY <1>3, <4>1, <4>2 DEF At
      <4> QED BY <4>1, <4>3 DEF Wants, Locks, HoldsCard
    <3>3. CASE At(t, "join input") \/ At(t, "join refresh") BY <3>3 DEF At, HoldsCard
    <3> QED BY <3>1, <3>2, <3>3, WaitsAt
  <2>2. ASSUME NEW t \in S PROVE Wanted(t) # {"card"}
    <3>1. PICK u \in S : u \in WaitsFor(t) BY <1>1
    <3>2. ASSUME Wanted(t) = {"card"} PROVE FALSE
      <4>1. at[t].op \in Wants("card") BY <3>2, WantedAt
      <4>2. lock["card"] = u /\ u # NoOne
        <5>1. PICK l \in Locks : Wanted(t) = {l} /\ lock[l] = u /\ u # NoOne
          BY <3>1, <4>1, WaitsAt DEF At, Wants
        <5> QED BY <3>2, <5>1
      <4>3. at[u].op \in HoldsCard BY <4>2 DEF OwnerInv
      <4> QED BY <2>1, <4>3
    <3> QED BY <3>2
  <2>3. ASSUME NEW t \in S PROVE at[t].op \notin {"show", "show again", "hide lock", "card", "show set", "hide unlock", "hide handler", "hide", "ticked"}
    <3>1. PICK u \in S : u \in WaitsFor(t) BY <1>1
    <3>2. at[t].op \notin {"show", "show again", "hide lock", "card"}
      <4>1. ASSUME at[t].op \in {"show", "show again", "hide lock", "card"} PROVE FALSE
        <5>1. Wanted(t) = {"card"} BY <4>1 DEF Wanted, At
        <5> QED BY <2>2, <5>1
      <4> QED BY <4>1
    <3> QED BY <2>1, <3>2 DEF HoldsCard
  <2>4. ASSUME NEW t \in S PROVE Wanted(t) # {"auto"}
    <3>1. PICK u \in S : u \in WaitsFor(t) BY <1>1
    <3>2. ASSUME Wanted(t) = {"auto"} PROVE FALSE
      <4>1. at[t].op \in Wants("auto") BY <3>2, WantedAt
      <4>2. lock["auto"] = u /\ u # NoOne
        <5>1. PICK l \in Locks : Wanted(t) = {l} /\ lock[l] = u /\ u # NoOne
          BY <3>1, <4>1, WaitsAt DEF At, Wants
        <5> QED BY <3>2, <5>1
      <4>3. Counting(card.kind, at[u], back[u]) BY <1>1, <4>2 DEF AutoInv, AutoAt
      <4>4. at[u].op \in {"ticked"} \cup ShowOps \cup (HideOps \ {"hidden"})
        BY <4>3 DEF Counting, ShowsCount, HidesFirst
      <4> QED BY <2>3, <4>4 DEF ShowOps, HideOps
    <3> QED BY <3>2
  \* Those who are left wait for touch_mutex, exit_code_mutex, the start, the workers or an end.
  <2>5. \A t \in S : at[t].op \notin Wants("card") \cup Wants("auto") \cup HideOps \cup ShowOps \cup {"ticked"}
    <3>1. ASSUME NEW t \in S, at[t].op \in {"hidden", "tick"} PROVE FALSE
      <4>1. Wanted(t) = {"auto"} BY <3>1 DEF Wanted, At
      <4> QED BY <2>4, <4>1
    <3> QED BY <2>3, <3>1 DEF Wants, HideOps, ShowOps
  <2>6. ASSUME NEW t \in S, t # "main", ~At(t, "starting")
        PROVE  Wanted(t) = {"exit"} /\ lock["exit"] = "main" /\ "main" \in S /\ Step \in Held
               /\ at[t].op \in Wants("exit")
    <3>1. PICK u \in S : u \in WaitsFor(t) BY <1>1
    <3>2. t \in Threads /\ at[t].op \in Bases(t) \cup Calls(t, Base(t)) BY <1>1, Whereabouts DEF UiInv
    <3>3. at[t].op \in {"none", "idle", "touched", "tell", "round", "button", "boot now", "use method", "widgets"}
      BY <2>5, <2>6, <3>2 DEF Threads, Bases, Calls, Wants, HideOps, ShowOps, Ticks, At
    <3>4. PICK l \in Locks : Wanted(t) = {l} /\ at[t].op \in Wants(l) /\ lock[l] = u /\ u # NoOne
      BY <3>1, <3>3, WaitsAt DEF At
    <3>5. l = "exit" BY <3>3, <3>4 DEF Wants, Locks
    <3> QED BY <3>1, <3>4, <3>5 DEF OwnerInv
  <2>7. "main" \in S
    <3>1. ASSUME "main" \notin S PROVE FALSE
      <4>1. PICK t \in S : t \in Threads BY <1>1 DEF Circles
      <4>2. At(t, "starting") /\ t # "main" BY <2>6, <3>1, <4>1
      <4>3. PICK u \in S : u \in WaitsFor(t) BY <1>1
      <4>4. lock["start"] = u /\ u # NoOne BY <4>2, <4>3, WaitsAt DEF At, Wants, Locks
      <4> QED BY <3>1, <4>3, <4>4 DEF OwnerInv
    <3> QED BY <3>1
  <2>8. PICK u \in S : u \in WaitsFor("main") BY <1>1, <2>7
  <2>9. at["main"].op \in MainBases \cup {"join input", "boot now"} /\ StackInv /\ "main" \in Threads
    <3>1. StackInv /\ "main" \in Threads BY DEF UiInv, Threads
    <3>2. at["main"].op \in MainBases \cup Calls("main", Step) BY <3>1, Whereabouts DEF Bases, Step
    <3> QED BY <2>5, <2>7, <3>1, <3>2 DEF Calls, Wants, HideOps, ShowOps, Ticks
  <2>10. ASSUME NEW t \in S, t # "main", t \in WaitsFor("main"), "main" \in WaitsFor(t) PROVE {"main", t} \in Circles
    <3>1. \A x \in {"main", t} : WaitsFor(x) \cap {"main", t} # {} BY <2>10
    <3> QED BY <1>1, <2>7, <3>1 DEF Circles
  <2>11. ASSUME NEW t, Wanted(t) = {"exit"}, lock["exit"] = "main" PROVE "main" \in WaitsFor(t)
    BY <2>11 DEF WaitsFor, NoOne
  <2>12. CASE At("main", "join input")
    <3>1. u = "input" BY <2>8, <2>12, WaitsAt DEF At, Wants, Locks
    <3>2. Step \notin Held BY <2>12 DEF OwnerInv, Held, Joins
    <3>3. At("input", "starting") BY <2>6, <2>8, <3>1, <3>2
    <3>4. PICK v \in S : v \in WaitsFor("input") BY <1>1, <2>8, <3>1
    <3>5. v = "main"
      <4>1. PICK l \in Locks : at["input"].op \in Wants(l) /\ lock[l] = v /\ v # NoOne BY <3>3, <3>4, WaitsAt DEF At
      <4>2. l = "start" BY <3>3, <4>1 DEF At, Wants, Locks
      <4> QED BY <4>1, <4>2 DEF OwnerInv
    <3>6. {"main", "input"} \in Circles BY <2>8, <2>10, <3>1, <3>4, <3>5
    <3>7. KnownCircle({"main", "input"}) BY <2>12, <3>3 DEF KnownCircle
    <3> QED BY <2>7, <2>8, <3>1, <3>6, <3>7
  <2>13. CASE ~At("main", "join input")
    <3>1. at["main"].op = "boot now" => Step = "loop"
      <4>1. ASSUME at["main"].op = "boot now" PROVE Step = "loop"
        <5>1. at["main"].op \in Calls("main", Step) BY <2>9, <4>1, Whereabouts DEF Bases, MainBases, Step
        <5> QED BY <4>1, <5>1 DEF Calls, ShowOps, HideOps
      <4> QED BY <4>1
    <3>2. at["main"].op # "boot now" => Step = at["main"].op BY <2>9, <2>13, Whereabouts DEF At
    <3>3. ~At("main", "join refresh")
      <4>1. ASSUME At("main", "join refresh") PROVE FALSE
        <5>1. u = "refresh" BY <2>8, <4>1, WaitsAt DEF At, Wants, Locks
        <5>2. Step \in Held BY <2>6, <2>8, <2>9, <5>1, WorkerPlaces
        <5> QED BY <3>2, <4>1, <5>2 DEF At, Held
      <4> QED BY <4>1
    <3>4. PICK l \in Locks : Wanted("main") = {l} /\ at["main"].op \in Wants(l) /\ lock[l] = u /\ u # NoOne
      BY <2>8, <2>13, <3>3, WaitsAt
    <3>5. l \notin {"card", "auto"} BY <2>5, <2>7, <3>4
    <3>6. l # "exit"
      <4>1. ASSUME l = "exit" PROVE FALSE
        <5>1. Step \in Held BY <3>4, <4>1 DEF OwnerInv
        <5> QED BY <3>1, <3>2, <3>4, <4>1, <5>1 DEF Wants, Held
      <4> QED BY <4>1
    <3>7. l # "start" BY <2>13, <3>4 DEF OwnerInv
    <3>8. CASE l = "touch"
      <4>1. u = "input" /\ Base("input") = "touched" BY <3>4, <3>8 DEF OwnerInv
      <4>2. ~At("input", "starting")
        <5>1. At("input", "starting") => Base("input") = "starting" BY <2>9, Whereabouts DEF At, Bases, Threads
        <5> QED BY <4>1, <5>1
      <4>3. Wanted("input") = {"exit"} /\ lock["exit"] = "main" /\ Step \in Held BY <2>6, <2>8, <4>1, <4>2
      <4>4. at["main"].op \in {"push", "pop"}
        BY <3>1, <3>2, <3>4, <3>8, <4>3, <2>5, <2>7 DEF Wants, Held, HideOps
      <4>5. {"main", "input"} \in Circles BY <2>8, <2>10, <2>11, <4>1, <4>3
      <4>6. KnownCircle({"main", "input"}) BY <4>3, <4>4 DEF KnownCircle, At
      <4> QED BY <2>7, <2>8, <4>1, <4>5, <4>6
    <3>9. CASE l = "workers"
      <4>1. u = "worker" BY <3>4, <3>9 DEF OwnerInv
      <4>2. ~At("worker", "starting") BY <2>9, WorkerPlaces
      <4>3. Wanted("worker") = {"exit"} /\ lock["exit"] = "main" /\ Step \in Held /\ at["worker"].op \in Wants("exit")
        BY <2>6, <2>8, <4>1, <4>2
      <4>4. At("worker", "boot now") BY <2>9, <4>3, WorkerPlaces DEF Wants, At, ShowOps, HideOps, Ticks
      <4>5. At("main", "disable") \/ At("main", "pop done") \/ At("main", "scroll")
        BY <3>1, <3>2, <3>4, <3>9, <4>3 DEF Wants, Held, At
      <4>6. {"main", "worker"} \in Circles BY <2>8, <2>10, <2>11, <4>1, <4>3
      <4>7. KnownCircle({"main", "worker"}) BY <4>4, <4>5 DEF KnownCircle
      <4> QED BY <2>7, <2>8, <4>1, <4>6, <4>7
    <3> QED BY <3>4, <3>5, <3>6, <3>7, <3>8, <3>9 DEF Locks
  <2> QED BY <2>12, <2>13
<1> QED BY <1>2, <1>3

LEMMA BareMoves ==
    ASSUME NEW P, NEW s \in Seq(P), NEW r
    PROVE  /\ Head(<<r>> \o s) = r /\ Tail(<<r>> \o s) = s /\ <<r>> \o s # <<>>
           /\ Bare(r) /\ BareList(s) => BareList(<<r>> \o s)
           /\ s # <<>> /\ BareList(s) => Bare(Head(s)) /\ BareList(Tail(s))
<1> DEFINE u == <<r>> \o s
<1>1. /\ u \in Seq(P \cup {r}) /\ Len(u) = Len(s) + 1 /\ Len(s) \in Nat
      /\ u[1] = r /\ \A i \in 1..Len(s) : u[i + 1] = s[i]
  <2>1. s \in Seq(P \cup {r}) OBVIOUS
  <2> QED BY <2>1
<1>2. Head(u) = r /\ Tail(u) = s /\ u # <<>>
  <2>1. Head(u) = u[1] /\ u # <<>> BY <1>1
  <2>2. Tail(u) = s
    <3>1. <<r>> \in Seq(P \cup {r}) /\ s \in Seq(P \cup {r}) OBVIOUS
    <3>2. Tail(u) \in Seq(P \cup {r}) /\ Len(Tail(u)) = Len(s) /\ \A i \in 1..Len(s) : Tail(u)[i] = u[i + 1]
      BY <1>1, <2>1
    <3>3. \A i \in 1..Len(s) : Tail(u)[i] = s[i] BY <1>1, <3>2
    <3> QED BY <3>1, <3>2, <3>3, SeqEqual
  <2> QED BY <1>1, <2>1, <2>2
<1>3. ASSUME Bare(r), BareList(s) PROVE BareList(u)
  <2>1. ASSUME NEW i \in 1..Len(u) PROVE Bare(u[i])
    <3>1. CASE i = 1 BY <1>1, <1>3, <3>1
    <3>2. CASE i # 1
      <4>1. i - 1 \in 1..Len(s) /\ (i - 1) + 1 = i BY <1>1, <2>1, <3>2
      <4>2. u[i] = s[i - 1] BY <1>1, <4>1
      <4> QED BY <1>3, <4>1, <4>2 DEF BareList
    <3> QED BY <3>1, <3>2
  <2> QED BY <2>1 DEF BareList
<1>4. ASSUME s # <<>>, BareList(s) PROVE Bare(Head(s)) /\ BareList(Tail(s))
  <2>1. Len(s) \in Nat /\ 1 \in 1..Len(s) /\ Head(s) = s[1] /\ Tail(s) \in Seq(P) /\ Len(Tail(s)) = Len(s) - 1
        /\ \A i \in 1..Len(s) - 1 : Tail(s)[i] = s[i + 1]
    BY <1>4
  <2>2. ASSUME NEW i \in 1..Len(Tail(s)) PROVE Bare(Tail(s)[i])
    <3>1. i + 1 \in 1..Len(s) /\ Tail(s)[i] = s[i + 1] BY <2>1, <2>2
    <3> QED BY <1>4, <3>1 DEF BareList
  <2> QED BY <1>4, <2>1, <2>2 DEF BareList
<1> QED BY <1>2, <1>3, <1>4

\* How a thread's place changes in a step of its own.
Goes(t, q) == at' = [at EXCEPT ![t] = q] /\ back' = back

LEMMA Turns ==
    ASSUME StackInv, NEW t \in Threads
    PROVE  /\ \A q : Goes(t, q) => OthersStay(t) /\ at'[t] = q /\ back'[t] = back[t]
           /\ \A q, r : Call(t, q, r) => OthersStay(t) /\ at'[t] = q /\ back'[t] = <<r>> \o back[t]
           /\ Return(t) => OthersStay(t) /\ at'[t] = Head(back[t]) /\ back'[t] = Tail(back[t])
           /\ back[t] \in Seq(Places(Chosen)) /\ at[t] \in Places(Chosen)
<1>1. at = [u \in Threads |-> at[u]] /\ back = [u \in Threads |-> back[u]] BY DEF StackInv
<1>2. Stacked(Places(Chosen), t, at[t], back[t]) BY DEF StackInv
<1> QED BY <1>1, <1>2 DEF Goes, Call, Return, OthersStay, Stacked

LEMMA PlaceGoes == (\A t, o : Place1(t, o) => Goes(t, Place(o))) /\ (\A o : Place(o).op = o)
BY DEF Place1, Go, Goes, Place

\* In a call.
CallShape(t) ==
    /\ at[t].op \in CallOps \ {"join input"}
    /\ \/ \E q : q.op # "join input" /\ Goes(t, q)
       \/ \E q, r : q.op # "join input" /\ Call(t, q, r)
       \/ Return(t)

LEMMA CallStays ==
    ASSUME StackInv, NEW t \in Threads, CallShape(t)
    PROVE  OthersStay(t) /\ Under(at'[t], back'[t]) = Base(t) /\ at'[t].op # "join input"
<1>1. at[t].op \notin Bases(t) /\ back[t] # <<>> BY NotBase, InCall DEF CallShape
<1>2. back[t] \in Seq(Places(Chosen)) BY Turns
<1>3. Base(t) = back[t][Len(back[t])].op BY <1>1 DEF Base, Under
<1>4. ASSUME NEW q, q.op # "join input", Goes(t, q)
      PROVE  OthersStay(t) /\ Under(at'[t], back'[t]) = Base(t) /\ at'[t].op # "join input"
  BY <1>1, <1>3, <1>4, Turns DEF Under
<1>5. ASSUME NEW q, NEW r, q.op # "join input", Call(t, q, r)
      PROVE  OthersStay(t) /\ Under(at'[t], back'[t]) = Base(t) /\ at'[t].op # "join input"
  <2>1. at'[t] = q /\ back'[t] = <<r>> \o back[t] /\ OthersStay(t) BY <1>5, Turns
  <2> DEFINE s == back[t]
             P == Places(Chosen) \cup {r}
  <2>2. s \in Seq(P) /\ s # <<>> /\ r \in P BY <1>1, <1>2
  <2> HIDE DEF s, P
  <2>3. <<r>> \o s # <<>> /\ (<<r>> \o s)[Len(<<r>> \o s)] = s[Len(s)]
    <3>1. <<r>> \in Seq(P) /\ Len(<<r>>) = 1 BY <2>2
    <3>2. Len(s) \in Nat /\ Len(s) > 0 BY <2>2
    <3>3. Len(<<r>> \o s) = Len(s) + 1 /\ (<<r>> \o s)[Len(s) + 1] = s[Len(s)] BY <2>2, <3>1, <3>2
    <3> QED BY <2>2, <3>3, BareMoves
  <2>4. Under(at'[t], back'[t]) = Base(t) BY <1>3, <2>1, <2>3 DEF Under, s
  <2> QED BY <1>5, <2>1, <2>4
<1>6. ASSUME Return(t)
      PROVE  OthersStay(t) /\ Under(at'[t], back'[t]) = Base(t) /\ at'[t].op # "join input"
  <2>1. Stacked(Places(Chosen), t, at[t], back[t]) BY DEF StackInv
  <2>2. /\ Under(Head(back[t]), Tail(back[t])) = Base(t)
        /\ Head(back[t]).op \in Returns(t) \/ Head(back[t]).op \in Calls(t, Base(t)) \cap Paused
    BY <1>1, <2>1, Returned DEF Base
  <2>3. Head(back[t]).op # "join input" BY <2>2 DEF Returns, Paused, Threads
  <2> QED BY <1>6, <2>2, <2>3, Turns
<1> QED BY <1>4, <1>5, <1>6 DEF CallShape

LEMMA CardCallShape == ASSUME StackInv, NEW t \in Threads, CardCall(t) PROVE CallShape(t)
<1> USE PlaceGoes DEF CallShape, CallOps, ShowOps, HideOps, At
<1>1. CASE ShowLocked(t) \/ ShowAgain(t)
  <2>1. PICK q : q = [at[t] EXCEPT !.op = "show set"] OBVIOUS
  <2>2. Goes(t, q) /\ at[t].op \in {"show", "show again"} BY <1>1, <2>1 DEF ShowLocked, ShowAgain, Goes
  <2>3. q.op = "show set"
    <3>1. Chosen \in BOOLEAN /\ at[t] \in Places(Chosen) BY Turns DEF Chosen
    <3> QED BY <2>1, <2>2, <3>1, ShowOn
  <2> QED BY <2>2, <2>3
<1>2. CASE ShowHides(t)
  <2>1. PICK r : r = [at[t] EXCEPT !.op = "show again"] OBVIOUS
  <2> QED BY <1>2, <2>1 DEF ShowHides, Place
<1>3. CASE ShowSet(t) \/ AutoHidden(t) BY <1>3 DEF ShowSet, AutoHidden
<1>4. CASE HideLooked(t) BY <1>4 DEF HideLooked, Go, Goes, Place
<1>5. CASE HideLocked(t) BY <1>5 DEF HideLocked, Go, Goes, Place
<1>6. CASE HideHandler(t) BY <1>6 DEF HideHandler, Go, Goes, Place
<1>7. CASE HideUnlocked(t) BY <1>7 DEF HideUnlocked, Go, Goes, Place
<1> QED BY <1>1, <1>2, <1>3, <1>4, <1>5, <1>6, <1>7 DEF CardCall

LEMMA TickShape ==
    ASSUME NEW t, BootsAuto(t) \/ TickOver(t) \/ TickZero(t) \/ Tick(t) \/ Ticked(t) PROVE CallShape(t)
<1> USE PlaceGoes DEF CallShape, CallOps, At
<1>1. CASE BootsAuto(t) \/ TickOver(t) \/ Ticked(t) BY <1>1 DEF BootsAuto, Answer, TickOver, Ticked
<1>2. CASE TickZero(t)
  <2>1. Place1(t, "boot now") /\ at[t].op = "tick" BY <1>2 DEF TickZero
  <2>2. Goes(t, Place("boot now")) /\ Place("boot now").op = "boot now" BY <2>1, PlaceGoes
  <2> QED BY <2>1, <2>2
<1>3. CASE Tick(t) BY <1>3 DEF Tick, Show
<1> QED BY <1>1, <1>2, <1>3

InputCall == ncard_touch_handler \/ CardButton \/ UseMethod \/ Widget \/ WidgetAsks \/ WidgetShows

LEMMA InputShape ==
    ASSUME InputCall
    PROVE  /\ at["input"].op \in {"card", "button", "use method", "widgets"} /\ lock' = lock /\ card' = card
           /\ \/ \E q : Goes("input", q) /\ Bare(q) /\ q.op \notin {"join input"} \cup HoldsCard
              \/ \E q, r : Call("input", q, r) /\ Bare(q) /\ Bare(r) /\ q.op \notin {"join input"} \cup HoldsCard
              \/ Return("input")
<1>1. \A o \in {"button", "hide", "widgets", "hidden", "use method", "boot now"} :
         Place(o).op = o /\ Bare(Place(o)) /\ o \notin {"join input"} \cup HoldsCard
  BY DEF Place, Bare, ShowOps, HoldsCard
<1>2. CASE ncard_touch_handler BY <1>1, <1>2, PlaceGoes DEF ncard_touch_handler, CardAlone, At
<1>3. CASE CardButton
  <2>1. at["input"].op = "button" /\ lock' = lock /\ card' = card BY <1>3 DEF CardButton, CardAlone, At
  <2>2. CASE Place1("input", "hide") \/ Place1("input", "use method") BY <1>1, <2>1, <2>2, PlaceGoes
  <2>3. CASE Call("input", Place("hidden"), Place("boot now")) BY <1>1, <2>1, <2>3
  <2> QED BY <1>3, <2>2, <2>3 DEF CardButton, Call
<1>4. CASE UseMethod BY <1>4 DEF UseMethod, CardAlone, At
<1>5. CASE Widget \/ WidgetAsks BY <1>5 DEF Widget, WidgetAsks, Answer, CardAlone, At
<1>6. CASE WidgetShows
  <2>1. at["input"].op = "widgets" /\ lock' = lock /\ card' = card BY <1>6 DEF WidgetShows, CardAlone, At
  <2>2. CASE Place1("input", "hide") BY <1>1, <2>1, <2>2, PlaceGoes
  <2>3. CASE Return("input") BY <2>1, <2>3
  <2>4. ASSUME NEW kind \in Cards, at' = [at EXCEPT !["input"] = Show(kind)], UNCHANGED back
        PROVE  \E q : Goes("input", q) /\ Bare(q) /\ q.op \notin {"join input"} \cup HoldsCard
    <3>1. kind # "auto" BY UiAssumption
    <3>2. Show(kind).op = "show" /\ Show(kind).kind = kind BY DEF Show
    <3> QED BY <2>4, <3>1, <3>2 DEF Goes, Bare, HoldsCard
  <2> QED BY <1>6, <2>1, <2>2, <2>3, <2>4 DEF WidgetShows
<1> QED BY <1>2, <1>3, <1>4, <1>5, <1>6 DEF InputCall

\* Who has the mutexes after a step in a call.
LEMMA CallOwns ==
    ASSUME UiInv, OwnerInv, NEW t \in Threads, CallShape(t),
           \A l \in {"exit", "start", "touch", "workers"} : lock'[l] = lock[l],
           \/ lock'["card"] = lock["card"] /\ at[t].op \notin HoldsCard
           \/ lock'["card"] = t /\ at'[t].op \in HoldsCard
           \/ lock'["card"] = NoOne
    PROVE  OwnerInv'
<1> USE DEF UiInv
<1>1. OthersStay(t) /\ Under(at'[t], back'[t]) = Base(t) /\ at'[t].op # "join input" /\ at[t].op # "join input"
  BY CallStays DEF CallShape
<1>2. Step' = Step
  <2>1. "main" \in Threads BY DEF Threads
  <2> QED BY <1>1, <2>1 DEF OthersStay, Step, Base
<1>3. At("main", "join input")' <=> At("main", "join input")
  <2>1. "main" \in Threads BY DEF Threads
  <2> QED BY <1>1, <2>1 DEF OthersStay, At
<1>4. Base("input")' = Base("input")
  <2>1. "input" \in Threads BY DEF Threads
  <2> QED BY <1>1, <2>1 DEF OthersStay, Base
<1>5. lock'["card"] # NoOne => \E u \in Threads : lock'["card"] = u /\ at'[u].op \in HoldsCard
  <2>1. CASE lock'["card"] = lock["card"] /\ at[t].op \notin HoldsCard BY <1>1, <2>1 DEF OwnerInv, OthersStay
  <2>2. CASE lock'["card"] = t /\ at'[t].op \in HoldsCard BY <2>2
  <2> QED BY <2>1, <2>2
<1> QED BY <1>2, <1>3, <1>4, <1>5 DEF OwnerInv

\* Who has auto_boot_data.mutex after any step of a thread's.
LEMMA AutoNow ==
    ASSUME StackInv, AutoInv, NEW t \in Threads, OthersStay(t),
           AsKind(card'),
           lock'["auto"] = lock["auto"] \/ {lock["auto"], lock'["auto"]} \subseteq {t, NoOne},
           card'.kind = card.kind \/ card'.kind # "auto" \/ lock["auto"] = t,
           AutoAt(lock'["auto"], card'.kind, t, at'[t], back'[t])
    PROVE  AutoInv'
<1>1. NoOne \notin Threads BY DEF NoOne, Threads
<1>2. ASSUME NEW u \in Threads \ {t} PROVE AutoAt(lock'["auto"], card'.kind, u, at'[u], back'[u])
  <2>1. at'[u] = at[u] /\ back'[u] = back[u] BY DEF OthersStay
  <2>2. AutoAt(lock["auto"], card.kind, u, at[u], back[u]) BY DEF AutoInv
  <2>3. lock'["auto"] = u <=> lock["auto"] = u BY <1>1
  <2>4. CASE lock["auto"] # u BY <2>1, <2>2, <2>3, <2>4 DEF AutoAt
  <2>5. CASE lock["auto"] = u
    <3>1. card'.kind = card.kind \/ card'.kind # "auto" BY <2>5
    <3>2. Counting(card.kind, at[u], back[u]) BY <2>2, <2>5 DEF AutoAt
    <3>3. Counting(card'.kind, at[u], back[u]) BY <3>1, <3>2 DEF Counting, HidesFirst
    <3> QED BY <2>1, <2>3, <2>5, <3>3 DEF AutoAt
  <2> QED BY <2>4, <2>5
<1>3. lock'["auto"] \in Threads \cup {NoOne} BY DEF AutoInv
<1>4. \A u \in Threads : AutoAt(lock'["auto"], card'.kind, u, at'[u], back'[u]) BY <1>2
<1> QED BY <1>3, <1>4 DEF AutoInv

\* Without the mutex, to and from places that are not a countdown's.
BareTurn(t) ==
    \/ \E q : Goes(t, q) /\ Bare(q)
    \/ \E q, r : Call(t, q, r) /\ Bare(q) /\ Bare(r)
    \/ Return(t) /\ back[t] # <<>>

LEMMA BareTurned ==
    ASSUME StackInv, NEW t \in Threads, BareList(back[t]), BareTurn(t)
    PROVE  OthersStay(t) /\ Bare(at'[t]) /\ BareList(back'[t])
<1>1. back[t] \in Seq(Places(Chosen)) BY Turns
<1>2. ASSUME NEW q, Goes(t, q), Bare(q) PROVE OthersStay(t) /\ Bare(at'[t]) /\ BareList(back'[t])
  BY <1>2, Turns
<1>3. ASSUME NEW q, NEW r, Call(t, q, r), Bare(q), Bare(r) PROVE OthersStay(t) /\ Bare(at'[t]) /\ BareList(back'[t])
  <2>1. OthersStay(t) /\ at'[t] = q /\ back'[t] = <<r>> \o back[t] BY <1>3, Turns
  <2>2. BareList(<<r>> \o back[t]) BY <1>1, <1>3, BareMoves
  <2> QED BY <1>3, <2>1, <2>2
<1>4. ASSUME Return(t), back[t] # <<>> PROVE OthersStay(t) /\ Bare(at'[t]) /\ BareList(back'[t])
  BY <1>1, <1>4, Turns, BareMoves
<1> QED BY <1>2, <1>3, <1>4 DEF BareTurn

LEMMA BareAuto ==
    ASSUME StackInv, AutoInv, NEW t \in Threads, BareTurn(t), lock["auto"] # t, lock'["auto"] = lock["auto"],
           AsKind(card'), card'.kind = card.kind
    PROVE  AutoInv'
<1>1. BareList(back[t]) BY DEF AutoInv, AutoAt
<1>2. OthersStay(t) /\ Bare(at'[t]) /\ BareList(back'[t]) BY <1>1, BareTurned
<1>3. AutoAt(lock'["auto"], card'.kind, t, at'[t], back'[t]) BY <1>2 DEF AutoAt
<1> QED BY <1>2, <1>3, AutoNow

\* Where a countdown is that has the mutex.
LEMMA NotCounting ==
    ASSUME AutoInv, NEW t \in Threads, at[t].op \notin ShowOps \cup (HideOps \ {"hidden"}) \cup {"ticked"}
    PROVE  lock["auto"] # t
BY DEF AutoInv, AutoAt, Counting, ShowsCount, HidesFirst

LEMMA ShowKeepsKind ==
    ASSUME NEW c \in BOOLEAN, NEW p \in Places(c), p.op \in ShowOps, NEW o
    PROVE  [p EXCEPT !.op = o].kind = p.kind
<1>1. p.op \notin Plain \cup {"use method"} BY DEF Plain, ShowOps, HideOps, Ticks, MainBases
<1>2. p \in [op : ShowOps, kind : KindsFor(c)] BY <1>1 DEF Places
<1> QED BY <1>2

\* The places of the card's code, with auto_boot_data.mutex and without.
LEMMA ShowTurns ==
    ASSUME StackInv, AutoInv, NEW t \in Threads, at[t].op \in ShowOps,
           NEW q, q.op \in ShowOps, q.kind = at[t].kind, Goes(t, q), lock'["auto"] = lock["auto"], card' = card
    PROVE  AutoInv'
<1>1. OthersStay(t) /\ at'[t] = q /\ back'[t] = back[t] BY Turns
<1>2. AutoAt(lock["auto"], card.kind, t, at[t], back[t]) BY DEF AutoInv
<1>3. CASE lock["auto"] = t
  <2>1. Counting(card.kind, at[t], back[t]) BY <1>2, <1>3 DEF AutoAt
  <2>2. ShowsCount(q, back[t]) BY <2>1 DEF Counting, HidesFirst, ShowsCount, ShowOps, HideOps
  <2>3. Counting(card'.kind, at'[t], back'[t]) BY <1>1, <2>2 DEF Counting
  <2>4. AutoAt(lock'["auto"], card'.kind, t, at'[t], back'[t]) BY <1>3, <2>3 DEF AutoAt
  <2> QED BY <1>1, <2>4, AutoNow DEF AutoInv
<1>4. CASE lock["auto"] # t
  <2>1. Bare(q) BY <1>2, <1>4 DEF AutoAt, Bare, ShowOps
  <2>2. BareTurn(t) BY <2>1 DEF BareTurn
  <2>3. AsKind(card') BY DEF AutoInv
  <2> QED BY <1>4, <2>2, <2>3, BareAuto
<1> QED BY <1>3, <1>4

LEMMA HideTurns ==
    ASSUME StackInv, AutoInv, NEW t \in Threads, at[t].op \in HideOps, lock'["auto"] = lock["auto"],
           AsKind(card'), card'.kind = card.kind,
           \/ \E o \in HideOps : Goes(t, Place(o)) /\ (o = "hidden" => card.on_hidden)
           \/ Return(t)
    PROVE  AutoInv'
<1>1. AutoAt(lock["auto"], card.kind, t, at[t], back[t]) BY DEF AutoInv
<1>2. back[t] # <<>> /\ back[t] \in Seq(Places(Chosen))
  <2>1. at[t].op \notin Bases(t) BY NotBase DEF CallOps
  <2> QED BY <2>1, InCall, Turns
<1>3. CASE lock["auto"] = t
  <2>1. HidesFirst(card.kind, at[t], back[t]) BY <1>1, <1>3 DEF AutoAt, Counting, ShowsCount, HideOps, ShowOps
  <2>2. ~card.on_hidden BY <2>1 DEF AutoInv, HidesFirst, AsKind
  <2>4. ASSUME NEW o \in HideOps, Goes(t, Place(o)), o = "hidden" => card.on_hidden PROVE AutoInv'
    <3>1. OthersStay(t) /\ at'[t] = Place(o) /\ back'[t] = back[t] BY <2>4, Turns
    <3>2. at'[t].op = o /\ o # "hidden" BY <2>2, <2>4, <3>1 DEF Place
    <3>4. HidesFirst(card'.kind, at'[t], back'[t]) BY <2>1, <3>1, <3>2 DEF HidesFirst
    <3>3. AutoAt(lock'["auto"], card'.kind, t, at'[t], back'[t]) BY <1>3, <3>4 DEF AutoAt, Counting
    <3> QED BY <3>1, <3>3, AutoNow
  <2>5. ASSUME Return(t) PROVE AutoInv'
    <3>1. OthersStay(t) /\ at'[t] = Head(back[t]) /\ back'[t] = Tail(back[t]) BY <2>5, Turns
    <3>2. ShowsCount(at'[t], back'[t]) BY <2>1, <3>1 DEF HidesFirst, ShowsCount, ShowOps
    <3>3. AutoAt(lock'["auto"], card'.kind, t, at'[t], back'[t]) BY <1>3, <3>2 DEF AutoAt, Counting
    <3> QED BY <3>1, <3>3, AutoNow
  <2> QED BY <2>4, <2>5
<1>4. CASE lock["auto"] # t
  <2>1. \A o \in HideOps : Bare(Place(o)) BY DEF HideOps, Bare, Place, ShowOps
  <2>2. BareTurn(t) BY <1>2, <2>1 DEF BareTurn
  <2> QED BY <1>4, <2>2, BareAuto
<1> QED BY <1>3, <1>4

LEMMA ShowHidesAuto == ASSUME StackInv, AutoInv, NEW t \in Threads, ShowHides(t) PROVE AutoInv'
<1>1. PICK r : r = [at[t] EXCEPT !.op = "show again"] OBVIOUS
<1>2. at[t].op = "show" /\ Elsewhere(t) /\ Call(t, Place("hide"), r) /\ lock' = lock /\ card' = card
  BY <1>1 DEF ShowHides, At
<1>3. r.op = "show again" /\ r.kind = at[t].kind
  <2>1. Chosen \in BOOLEAN /\ at[t] \in Places(Chosen) BY Turns DEF Chosen
  <2>2. r.op = "show again" BY <1>1, <1>2, <2>1, ShowOn DEF ShowOps
  <2>3. r.kind = at[t].kind BY <1>1, <1>2, <2>1, ShowKeepsKind DEF ShowOps
  <2> QED BY <2>2, <2>3
<1>4. OthersStay(t) /\ at'[t] = Place("hide") /\ back'[t] = <<r>> \o back[t] BY <1>2, Turns
<1>5. AutoAt(lock["auto"], card.kind, t, at[t], back[t]) /\ back[t] \in Seq(Places(Chosen)) BY Turns DEF AutoInv
<1>6. CASE lock["auto"] = t
  <2>1. ShowsCount(at[t], back[t]) BY <1>2, <1>5, <1>6 DEF AutoAt, Counting, HidesFirst, ShowOps, HideOps
  <2>2. card.kind # "auto"
    <3>1. at[t].kind = "auto" BY <2>1 DEF ShowsCount
    <3>2. Card("auto").centre = TRUE BY DEF Card
    <3>3. card.centre # TRUE BY <1>2, <3>1, <3>2 DEF Elsewhere
    <3>4. AsKind(card) /\ card.centre \in BOOLEAN BY DEF AutoInv, AsKind, CardRecs
    <3>5. ~card.centre BY <3>3, <3>4
    <3> QED BY <3>4, <3>5 DEF AsKind
  <2>3. HidesFirst(card'.kind, at'[t], back'[t])
    <3>1. Head(back'[t]) = r /\ Tail(back'[t]) = back[t] /\ back'[t] # <<>> BY <1>4, <1>5, BareMoves
    <3>2. r.kind = "auto" /\ Counts(back[t]) BY <1>3, <2>1 DEF ShowsCount
    <3>3. at'[t].op \in HideOps \ {"hidden"} BY <1>4 DEF Place, HideOps
    <3>4. Head(back'[t]).op = "show again" /\ Head(back'[t]).kind = "auto" /\ Counts(Tail(back'[t]))
      BY <1>3, <3>1, <3>2
    <3>5. card'.kind # "auto" BY <1>2, <2>2
    <3> QED BY <3>1, <3>3, <3>4, <3>5 DEF HidesFirst
  <2>4. AutoAt(lock'["auto"], card'.kind, t, at'[t], back'[t]) BY <1>2, <1>6, <2>3 DEF AutoAt, Counting
  <2> QED BY <1>2, <1>4, <2>4, AutoNow DEF AutoInv
<1>7. CASE lock["auto"] # t
  <2>1. Bare(at[t]) BY <1>5, <1>7 DEF AutoAt
  <2>2. Bare(r) /\ Bare(Place("hide")) BY <1>2, <1>3, <2>1 DEF Bare, Place, ShowOps
  <2>3. BareTurn(t) BY <1>2, <2>2 DEF BareTurn
  <2>4. AsKind(card') BY <1>2 DEF AutoInv
  <2> QED BY <1>2, <1>7, <2>3, <2>4, BareAuto
<1> QED BY <1>6, <1>7

LEMMA CardAsKind == ASSUME NEW k \in Kinds PROVE Card(k).kind = k /\ AsKind(Card(k))
<1>1. Card(k) \in CardRecs /\ Card(k).kind = k BY DEF Card, CardRecs
<1>2. Card(k).centre = (k # "rom") /\ Card(k).on_hidden = (k = "auto") BY DEF Card
<1>3. (Card(k).centre <=> k # "rom") /\ (Card(k).on_hidden <=> k = "auto") BY <1>2
<1> QED BY <1>1, <1>3 DEF AsKind

LEMMA CardHides ==
    ASSUME NEW c, AsKind(c)
    PROVE  AsKind([c EXCEPT !.shown = FALSE]) /\ [c EXCEPT !.shown = FALSE].kind = c.kind
BY DEF AsKind, CardRecs

LEMMA ShowSetAuto == ASSUME StackInv, AutoInv, NEW t \in Threads, ShowSet(t), lock'["auto"] = lock["auto"] PROVE AutoInv'
<1>1. PICK k : k = at[t].kind OBVIOUS
<1>2. at[t].op = "show set" /\ Return(t) /\ card' = Card(k) BY <1>1 DEF ShowSet, At
<1>3. card'.kind = k /\ AsKind(card')
  <2>1. Chosen \in BOOLEAN /\ at[t] \in Places(Chosen) BY Turns DEF Chosen
  <2>2. k \in KindsFor(Chosen) BY <1>1, <1>2, <2>1, ShowOn DEF ShowOps
  <2>3. k \in Kinds BY <2>2 DEF KindsFor
  <2> QED BY <1>2, <2>3, CardAsKind
<1>4. AutoAt(lock["auto"], card.kind, t, at[t], back[t]) BY DEF AutoInv
<1>5. back[t] # <<>> /\ back[t] \in Seq(Places(Chosen))
  <2>1. at[t].op \notin Bases(t) BY <1>2, NotBase DEF CallOps, ShowOps
  <2> QED BY <2>1, InCall, Turns
<1>6. OthersStay(t) /\ at'[t] = Head(back[t]) /\ back'[t] = Tail(back[t]) BY <1>2, Turns
<1>7. CASE lock["auto"] = t
  <2>1. ShowsCount(at[t], back[t]) BY <1>2, <1>4, <1>7 DEF AutoAt, Counting, HidesFirst, ShowOps, HideOps
  <2>2. Counting(card'.kind, at'[t], back'[t]) BY <1>6, <2>1 DEF Counting, ShowsCount, Counts
  <2>3. AutoAt(lock'["auto"], card'.kind, t, at'[t], back'[t]) BY <1>7, <2>2 DEF AutoAt
  <2> QED BY <1>3, <1>6, <1>7, <2>3, AutoNow
<1>8. CASE lock["auto"] # t
  <2>1. k # "auto" BY <1>1, <1>2, <1>4, <1>8 DEF AutoAt, Bare, ShowOps
  <2>2. BareList(back[t]) BY <1>4, <1>8 DEF AutoAt
  <2>3. Bare(at'[t]) /\ BareList(back'[t]) BY <1>5, <1>6, <2>2, BareMoves
  <2>4. AutoAt(lock'["auto"], card'.kind, t, at'[t], back'[t]) BY <1>8, <2>3 DEF AutoAt
  <2> QED BY <1>3, <1>6, <2>1, <2>4, AutoNow
<1> QED BY <1>7, <1>8

LEMMA LockOf ==
    ASSUME UiInv, NEW l \in Locks, NEW x, lock' = [lock EXCEPT ![l] = x]
    PROVE  lock'[l] = x /\ \A m \in Locks \ {l} : lock'[m] = lock[m]
BY LocksAre DEF UiInv

LEMMA CardCallOwns == ASSUME OwnersInv, NEW t \in Threads, CardCall(t) PROVE AutoInv' /\ OwnerInv'
<1> USE DEF OwnersInv, UiInv
<1>1. CallShape(t) BY CardCallShape
<1>2. "card" \in Locks /\ {"exit", "start", "touch", "workers", "auto"} \subseteq Locks \ {"card"} BY DEF Locks
<1>3. CASE ShowLocked(t) \/ ShowAgain(t)
  <2>1. PICK q : q = [at[t] EXCEPT !.op = "show set"] OBVIOUS
  <2>2. Goes(t, q) /\ at[t].op \in ShowOps /\ lock' = [lock EXCEPT !["card"] = t] /\ card' = card
    BY <1>3, <2>1 DEF ShowLocked, ShowAgain, Goes, ShowOps, At, Take
  <2>3. q.op = "show set" /\ q.kind = at[t].kind
    <3>1. Chosen \in BOOLEAN /\ at[t] \in Places(Chosen) BY Turns DEF Chosen
    <3>2. q.op = "show set" BY <2>1, <2>2, <3>1, ShowOn DEF ShowOps
    <3>3. q.kind = at[t].kind BY <2>1, <2>2, <3>1, ShowKeepsKind
    <3> QED BY <3>2, <3>3
  <2>4. lock'["card"] = t /\ \A m \in Locks \ {"card"} : lock'[m] = lock[m] BY <1>2, <2>2, LockOf
  <2>5. AutoInv'
    <3>1. lock'["auto"] = lock["auto"] BY <1>2, <2>4
    <3>2. at[t].op \in ShowOps /\ q.op \in ShowOps /\ Goes(t, q) /\ card' = card BY <2>2, <2>3 DEF ShowOps
    <3> QED BY <2>3, <3>1, <3>2, ShowTurns
  <2>6. at'[t] = q BY <2>2, Turns
  <2>7. OwnerInv' BY <1>1, <1>2, <2>3, <2>4, <2>6, CallOwns DEF HoldsCard
  <2> QED BY <2>5, <2>7
<1>4. CASE ShowHides(t)
  <2>1. lock' = lock /\ at[t].op \notin HoldsCard BY <1>4 DEF ShowHides, At, HoldsCard
  <2> QED BY <1>1, <1>4, <2>1, ShowHidesAuto, CallOwns
<1>5. CASE ShowSet(t)
  <2>1. lock' = [lock EXCEPT !["card"] = NoOne] BY <1>5 DEF ShowSet, Drop
  <2>2. lock'["card"] = NoOne /\ \A m \in Locks \ {"card"} : lock'[m] = lock[m] BY <1>2, <2>1, LockOf
  <2> QED BY <1>1, <1>2, <1>5, <2>2, ShowSetAuto, CallOwns
<1>6. CASE HideLooked(t)
  <2>0. card' = card => AsKind(card') BY DEF AutoInv
  <2>1. lock' = lock /\ card' = card /\ at[t].op = "hide" BY <1>6 DEF HideLooked, At
  <2>2. Goes(t, Place("hide lock")) \/ Return(t) BY <1>6 DEF HideLooked, Go, Goes
  <2>3. AutoInv' BY <2>1, <2>2, <2>0, HideTurns DEF HideOps
  <2> QED BY <1>1, <2>1, <2>3, CallOwns DEF HoldsCard
<1>7. CASE HideLocked(t)
  <2>1. lock' = [lock EXCEPT !["card"] = t] /\ card' = [card EXCEPT !.shown = FALSE] /\ at[t].op = "hide lock"
    BY <1>7 DEF HideLocked, Take, At
  <2>2. lock'["card"] = t /\ \A m \in Locks \ {"card"} : lock'[m] = lock[m] BY <1>2, <2>1, LockOf
  <2>3. AsKind(card') /\ card'.kind = card.kind
    <3>1. AsKind(card) BY DEF AutoInv
    <3> QED BY <2>1, <3>1, CardHides
  <2>4. PICK o \in {"hide handler", "hide unlock"} : Goes(t, Place(o)) BY <1>7 DEF HideLocked, Go, Goes
  <2>5. AutoInv' BY <1>2, <2>1, <2>2, <2>3, <2>4, HideTurns DEF HideOps
  <2>6. at'[t].op = o
    <3>1. at'[t] = Place(o) BY <2>4, Turns
    <3> QED BY <3>1, PlaceGoes
  <2>7. OwnerInv' BY <1>1, <1>2, <2>2, <2>6, CallOwns DEF HoldsCard
  <2> QED BY <2>5, <2>7
<1>8. CASE HideHandler(t)
  <2>0. card' = card => AsKind(card') BY DEF AutoInv
  <2>1. lock' = lock /\ card' = card /\ at[t].op = "hide handler" BY <1>8 DEF HideHandler, At
  <2>2. Goes(t, Place("hide unlock")) BY <1>8 DEF HideHandler, Go, Goes
  <2>3. AutoInv' BY <2>1, <2>2, <2>0, HideTurns DEF HideOps
  <2>4. at'[t].op = "hide unlock"
    <3>1. at'[t] = Place("hide unlock") BY <2>2, Turns
    <3> QED BY <3>1, PlaceGoes
  <2>5. lock'["card"] = t BY <2>1 DEF CardInv, HoldsCard
  <2>6. OwnerInv' BY <1>1, <2>1, <2>4, <2>5, CallOwns DEF HoldsCard
  <2> QED BY <2>3, <2>6
<1>9. CASE HideUnlocked(t)
  <2>0. card' = card => AsKind(card') BY DEF AutoInv
  <2>1. lock' = [lock EXCEPT !["card"] = NoOne] /\ card' = card /\ at[t].op = "hide unlock"
    BY <1>9 DEF HideUnlocked, Drop, At
  <2>2. lock'["card"] = NoOne /\ \A m \in Locks \ {"card"} : lock'[m] = lock[m] BY <1>2, <2>1, LockOf
  <2>3. (card.on_hidden /\ Goes(t, Place("hidden"))) \/ Return(t) BY <1>9 DEF HideUnlocked, Go, Goes
  <2>4. AutoInv' BY <1>2, <2>0, <2>1, <2>2, <2>3, HideTurns DEF HideOps
  <2> QED BY <1>1, <1>2, <2>2, <2>4, CallOwns
<1>10. CASE AutoHidden(t)
  <2>0. card' = card => AsKind(card') BY DEF AutoInv
  <2>1. lock' = lock /\ card' = card /\ at[t].op = "hidden" /\ Return(t) BY <1>10 DEF AutoHidden, At
  <2>2. AutoInv' BY <2>0, <2>1, HideTurns DEF HideOps
  <2> QED BY <1>1, <2>1, <2>2, CallOwns DEF HoldsCard
<1> QED BY <1>3, <1>4, <1>5, <1>6, <1>7, <1>8, <1>9, <1>10 DEF CardCall

LEMMA BarePlaces == \A o : o \notin ShowOps \cup {"ticked"} => Bare(Place(o)) /\ Place(o).op = o
<1> TAKE o
<1>1. Place(o).op = o BY PlaceGoes
<1> QED BY <1>1 DEF Bare

\* The countdown: taken when the next second is shown, and given back after it.
LEMMA TickAuto == ASSUME OwnersInv, NEW t \in Threads, Tick(t) PROVE AutoInv' /\ OwnerInv'
<1> USE DEF OwnersInv, UiInv
<1>1. /\ at[t].op = "tick" /\ lock["auto"] = NoOne /\ card' = card
      /\ Call(t, Show("auto"), Place("ticked"))
  BY DEF Tick, Take, Free, At, CardAlone
<1>2. lock'["auto"] = t /\ \A m \in Locks \ {"auto"} : lock'[m] = lock[m]
  <2>1. lock' = [lock EXCEPT !["auto"] = t] BY DEF Tick, Take
  <2>2. "auto" \in Locks BY DEF Locks
  <2> QED BY <2>1, <2>2, LockOf
<1>3. OthersStay(t) /\ at'[t] = Show("auto") /\ back'[t] = <<Place("ticked")>> \o back[t] /\ back[t] \in Seq(Places(Chosen))
  BY <1>1, Turns
<1>4. NoOne \notin Threads BY DEF NoOne, Threads
<1>5. BareList(back[t]) BY <1>1, <1>4 DEF AutoInv, AutoAt
<1>6. Counts(back'[t])
  <2>1. Head(back'[t]) = Place("ticked") /\ Tail(back'[t]) = back[t] /\ back'[t] # <<>> BY <1>3, BareMoves
  <2>2. Place("ticked").op = "ticked" BY PlaceGoes
  <2> QED BY <1>5, <2>1, <2>2 DEF Counts
<1>7. ShowsCount(at'[t], back'[t])
  <2>1. Show("auto").op = "show" /\ Show("auto").kind = "auto" BY DEF Show
  <2> QED BY <1>3, <1>6, <2>1 DEF ShowsCount, ShowOps
<1>8. AutoAt(lock'["auto"], card'.kind, t, at'[t], back'[t]) BY <1>2, <1>7 DEF AutoAt, Counting
<1>9. AutoInv'
  <2>1. AsKind(card') BY <1>1 DEF AutoInv
  <2> QED BY <1>1, <1>2, <1>3, <1>8, <2>1, AutoNow
<1>10. OwnerInv'
  <2>1. CallShape(t) BY TickShape
  <2>2. {"exit", "start", "touch", "workers", "card"} \subseteq Locks \ {"auto"} BY DEF Locks
  <2>3. at[t].op \notin HoldsCard BY <1>1 DEF HoldsCard
  <2> QED BY <1>2, <2>1, <2>2, <2>3, CallOwns
<1> QED BY <1>9, <1>10

LEMMA TickedAuto == ASSUME OwnersInv, NEW t \in Threads, Ticked(t) PROVE AutoInv' /\ OwnerInv'
<1> USE DEF OwnersInv, UiInv
<1>1. at[t].op = "ticked" /\ card' = card /\ Return(t) BY DEF Ticked, At, CardAlone
<1>2. lock'["auto"] = NoOne /\ \A m \in Locks \ {"auto"} : lock'[m] = lock[m]
  <2>1. lock' = [lock EXCEPT !["auto"] = NoOne] BY DEF Ticked, Drop
  <2>2. "auto" \in Locks BY DEF Locks
  <2> QED BY <2>1, <2>2, LockOf
<1>3. NoOne # t BY DEF NoOne, Threads
<1>4. AutoAt(lock["auto"], card.kind, t, at[t], back[t]) BY DEF AutoInv
<1>5. lock["auto"] = t /\ BareList(back[t])
  <2>1. lock["auto"] = t BY <1>1, <1>4 DEF AutoAt, Bare
  <2> QED BY <1>1, <1>4, <2>1 DEF AutoAt, Counting, ShowsCount, HidesFirst, ShowOps, HideOps
<1>6. back[t] # <<>>
  <2>1. at[t].op \notin Bases(t) BY <1>1, NotBase DEF CallOps
  <2> QED BY <2>1, InCall
<1>7. OthersStay(t) /\ Bare(at'[t]) /\ BareList(back'[t])
  <2>1. BareTurn(t) BY <1>1, <1>6 DEF BareTurn
  <2> QED BY <1>5, <2>1, BareTurned
<1>8. AutoAt(lock'["auto"], card'.kind, t, at'[t], back'[t]) BY <1>2, <1>3, <1>7 DEF AutoAt
<1>9. AutoInv'
  <2>1. AsKind(card') BY <1>1 DEF AutoInv
  <2> QED BY <1>1, <1>2, <1>5, <1>7, <1>8, <2>1, AutoNow
<1>10. OwnerInv'
  <2>1. CallShape(t) BY TickShape
  <2>2. {"exit", "start", "touch", "workers", "card"} \subseteq Locks \ {"auto"} BY DEF Locks
  <2>3. at[t].op \notin HoldsCard BY <1>1 DEF HoldsCard
  <2> QED BY <1>2, <2>1, <2>2, <2>3, CallOwns
<1> QED BY <1>9, <1>10

LEMMA CountOwns ==
    ASSUME OwnersInv, NEW t \in Threads, BootsAuto(t) \/ TickOver(t) \/ TickZero(t) PROVE AutoInv' /\ OwnerInv'
<1> USE DEF OwnersInv, UiInv
<1>1. at[t].op \in {"tick", "boot now"} /\ lock' = lock /\ card' = card
  BY DEF BootsAuto, TickOver, TickZero, Answer, CardAlone, At
<1>2. back[t] # <<>>
  <2>1. at[t].op \notin Bases(t) BY <1>1, NotBase DEF CallOps
  <2> QED BY <2>1, InCall
<1>3. BareTurn(t)
  <2>1. Place1(t, "boot now") \/ Return(t) BY DEF BootsAuto, TickOver, TickZero, Answer
  <2>2. Bare(Place("boot now")) BY BarePlaces DEF ShowOps
  <2> QED BY <1>2, <2>1, <2>2, PlaceGoes DEF BareTurn
<1>4. lock["auto"] # t BY <1>1, NotCounting DEF ShowOps, HideOps
<1>5. AsKind(card') BY <1>1 DEF AutoInv
<1>6. AutoInv' BY <1>1, <1>3, <1>4, <1>5, BareAuto
<1>7. CallShape(t) BY TickShape
<1>8. OwnerInv' BY <1>1, <1>7, CallOwns DEF HoldsCard
<1> QED BY <1>6, <1>8

\* The input thread, in a touch or a key.
LEMMA InputCallOwns == ASSUME OwnersInv, InputCall PROVE AutoInv' /\ OwnerInv'
<1> USE DEF OwnersInv, UiInv
<1>1. "input" \in Threads BY DEF Threads
<1>2. at["input"].op \in {"card", "button", "use method", "widgets"} /\ lock' = lock /\ card' = card BY InputShape
<1>3. back["input"] # <<>>
  <2>1. at["input"].op \notin Bases("input") BY <1>1, <1>2, NotBase DEF CallOps
  <2> QED BY <1>1, <2>1, InCall
<1>4. BareTurn("input") BY <1>3, InputShape DEF BareTurn
<1>5. lock["auto"] # "input" BY <1>1, <1>2, NotCounting DEF ShowOps, HideOps
<1>6. AsKind(card') BY <1>2 DEF AutoInv
<1>7. AutoInv' BY <1>1, <1>2, <1>4, <1>5, <1>6, BareAuto
<1>8. CallShape("input") BY <1>2, InputShape DEF CallShape, CallOps
<1>9. OwnerInv' BY <1>1, <1>2, <1>8, CallOwns DEF HoldsCard
<1> QED BY <1>7, <1>9

\* A step of a thread other than main, to or from a place of its own.
LEMMA OwnMoves ==
    ASSUME OwnersInv, NEW t \in Threads \ {"main"}, at[t].op \in Bases(t), BareTurn(t), card' = card,
           \A l \in {"exit", "start", "card", "auto"} : lock'[l] = lock[l],
           lock'["touch"] = NoOne \/ (lock'["touch"] = lock["touch"] /\ Base("input")' = Base("input"))
               \/ (lock'["touch"] = "input" /\ Base("input")' = "touched"),
           lock'["workers"] \in {lock["workers"], NoOne, "worker"}
    PROVE  AutoInv' /\ OwnerInv'
<1> USE DEF OwnersInv, UiInv
<1>1. at[t].op \notin ShowOps \cup HideOps \cup {"ticked"} \cup HoldsCard
  <2>1. at[t].op \notin CallOps BY NotBase
  <2> QED BY <2>1 DEF CallOps, ShowOps, HideOps, HoldsCard
<1>2. lock["auto"] # t BY <1>1, NotCounting
<1>3. AsKind(card') BY DEF AutoInv
<1>4. AutoInv' BY <1>2, <1>3, BareAuto
<1>5. OthersStay(t) BY <1>2, BareTurned DEF AutoInv, AutoAt
<1>6. Step' = Step /\ (At("main", "join input")' <=> At("main", "join input"))
  <2>1. "main" \in Threads \ {t} BY DEF Threads
  <2> QED BY <1>5, <2>1 DEF OthersStay, Step, Base, At
<1>7. lock'["card"] # NoOne => \E u \in Threads : lock'["card"] = u /\ at'[u].op \in HoldsCard
  BY <1>1, <1>5 DEF OwnerInv, OthersStay
<1>8. OwnerInv' BY <1>6, <1>7 DEF OwnerInv
<1> QED BY <1>4, <1>8

LEMMA OwnBase ==
    ASSUME StackInv, NEW t \in Threads, at[t].op \in Bases(t)
    PROVE  /\ back[t] = <<>> /\ back[t] \in Seq(Places(Chosen))
           /\ \A q : Goes(t, q) => Under(at'[t], back'[t]) = q.op
           /\ \A q, r : Call(t, q, r) => Under(at'[t], back'[t]) = r.op
<1>1. back[t] = <<>> /\ back[t] \in Seq(Places(Chosen))
  <2>1. Stacked(Places(Chosen), t, at[t], back[t]) BY DEF StackInv
  <2> QED BY <2>1, Depth, Turns
<1>2. ASSUME NEW q, Goes(t, q) PROVE Under(at'[t], back'[t]) = q.op BY <1>1, <1>2, Turns DEF Under
<1>3. ASSUME NEW q, NEW r, Call(t, q, r) PROVE Under(at'[t], back'[t]) = r.op
  <2>1. back'[t] = <<r>> \o back[t] BY <1>3, Turns
  <2>2. <<r>> \in Seq({r}) /\ <<r>> \o <<>> = <<r>> /\ Len(<<r>>) = 1 /\ <<r>>[1] = r /\ <<r>> # <<>> OBVIOUS
  <2>3. back'[t] = <<r>> BY <1>1, <2>1, <2>2
  <2> QED BY <2>2, <2>3 DEF Under
<1> QED BY <1>1, <1>2, <1>3

LEMMA InputOwnOwns ==
    ASSUME OwnersInv, InputStarts \/ InputEnds \/ TouchBegins \/ TouchEnds \/ Key PROVE AutoInv' /\ OwnerInv'
<1> USE DEF OwnersInv, UiInv
<1>1. "input" \in Threads \ {"main"} /\ Bases("input") = {"none", "starting", "idle", "touched"} BY DEF Threads, Bases
<1>2. card' = card BY DEF InputStarts, InputEnds, TouchBegins, TouchEnds, Key, CardAlone
<1>3. {"exit", "start", "card", "auto", "workers"} \subseteq Locks \ {"touch"} /\ "touch" \in Locks BY DEF Locks
<1>4. \A o \in {"none", "idle", "touched", "card", "widgets", "hide"} : Bare(Place(o)) /\ Place(o).op = o
  BY PlaceGoes DEF Bare, ShowOps
<1>5. CASE InputStarts \/ InputEnds \/ TouchEnds
  <2>1. PICK o \in {"none", "idle"} : Place1("input", o) BY <1>5 DEF InputStarts, InputEnds, TouchEnds
  <2>2. at["input"].op \in {"starting", "idle", "touched"} /\ (at["input"].op = "touched" => lock' = [lock EXCEPT !["touch"] = NoOne])
        /\ (at["input"].op # "touched" => lock' = lock)
    BY <1>5 DEF InputStarts, InputEnds, TouchEnds, At, Drop
  <2>3. BareTurn("input") BY <1>4, <2>1, PlaceGoes DEF BareTurn
  <2>4. CASE at["input"].op = "touched"
    <3>1. lock'["touch"] = NoOne /\ \A m \in Locks \ {"touch"} : lock'[m] = lock[m] BY <1>3, <2>2, <2>4, LockOf
    <3> QED BY <1>1, <1>2, <1>3, <2>2, <2>3, <3>1, OwnMoves
  <2>5. CASE at["input"].op # "touched"
    <3>1. lock["touch"] = NoOne
      <4>1. Base("input") # "touched" BY <1>1, <2>2, <2>5, Whereabouts
      <4> QED BY <4>1 DEF OwnerInv
    <3>2. lock' = lock BY <2>2, <2>5
    <3> QED BY <1>1, <1>2, <2>2, <2>3, <3>1, <3>2, OwnMoves
  <2> QED BY <2>4, <2>5
<1>6. CASE TouchBegins
  <2>1. PICK o \in {"card", "widgets"} : Call("input", Place(o), Place("touched")) BY <1>6 DEF TouchBegins
  <2>2. at["input"].op = "idle" /\ lock' = [lock EXCEPT !["touch"] = "input"] BY <1>6 DEF TouchBegins, At, Take
  <2>3. lock'["touch"] = "input" /\ \A m \in Locks \ {"touch"} : lock'[m] = lock[m] BY <1>3, <2>2, LockOf
  <2>4. BareTurn("input") BY <1>4, <2>1 DEF BareTurn
  <2>5. Under(at'["input"], back'["input"]) = "touched" BY <1>1, <1>4, <2>1, <2>2, OwnBase
  <2>6. Base("input")' = "touched" BY <2>5 DEF Base
  <2> QED BY <1>1, <1>2, <1>3, <2>2, <2>3, <2>4, <2>6, OwnMoves
<1>7. CASE Key
  <2>1. PICK o \in {"hide", "widgets"} : Call("input", Place(o), Place("idle")) BY <1>7 DEF Key
  <2>2. at["input"].op = "idle" /\ lock' = lock BY <1>7 DEF Key, At
  <2>3. BareTurn("input") BY <1>4, <2>1 DEF BareTurn
  <2>4. lock["touch"] = NoOne
    <3>1. Base("input") # "touched" BY <1>1, <2>2, Whereabouts
    <3> QED BY <3>1 DEF OwnerInv
  <2> QED BY <1>1, <1>2, <2>2, <2>3, <2>4, OwnMoves
<1> QED BY <1>5, <1>6, <1>7

LEMMA WorkerOwns == ASSUME OwnersInv, WorkerBegins \/ WorkerEnds PROVE AutoInv' /\ OwnerInv'
<1> USE DEF OwnersInv, UiInv
<1>1. "worker" \in Threads \ {"main"} /\ Bases("worker") = {"none", "round"} /\ "input" \in Threads \ {"worker"}
  BY DEF Threads, Bases
<1>2. card' = card /\ at["worker"].op \in {"none", "round"} BY DEF WorkerBegins, WorkerEnds, CardAlone, At
<1>3. PICK x \in {NoOne, "worker"} : lock' = [lock EXCEPT !["workers"] = x] BY DEF WorkerBegins, WorkerEnds, Take, Drop
<1>4. lock'["workers"] = x /\ \A m \in Locks \ {"workers"} : lock'[m] = lock[m]
  <2>1. "workers" \in Locks BY DEF Locks
  <2> QED BY <1>3, <2>1, LockOf
<1>5. \A o \in {"none", "tick", "round"} : Bare(Place(o)) BY PlaceGoes DEF Bare, ShowOps
<1>6. BareTurn("worker")
  <2>1. Call("worker", Place("tick"), Place("round")) \/ Place1("worker", "none") BY DEF WorkerBegins, WorkerEnds
  <2> QED BY <1>5, <2>1, PlaceGoes DEF BareTurn
<1>7. OthersStay("worker")
  <2>1. lock["auto"] # "worker" BY <1>1, <1>2, NotCounting DEF ShowOps, HideOps
  <2> QED BY <1>1, <1>6, <2>1, BareTurned DEF AutoInv, AutoAt
<1>8. Base("input")' = Base("input") BY <1>1, <1>7 DEF OthersStay, Base
<1>9. {"exit", "start", "card", "auto", "touch"} \subseteq Locks \ {"workers"} BY DEF Locks
<1> QED BY <1>1, <1>2, <1>4, <1>6, <1>8, <1>9, OwnMoves

LEMMA RefreshOwns ==
    ASSUME OwnersInv, DrivesChange \/ multirom_ui_refresh_usb_handler \/ RefreshEnds PROVE AutoInv' /\ OwnerInv'
<1> USE DEF OwnersInv, UiInv
<1>1. "refresh" \in Threads \ {"main"} /\ Bases("refresh") = {"none", "idle", "tell"} /\ "input" \in Threads \ {"refresh"}
  BY DEF Threads, Bases
<1>2. card' = card /\ lock' = lock /\ at["refresh"].op \in {"idle", "tell"}
  BY DEF DrivesChange, multirom_ui_refresh_usb_handler, RefreshEnds, CardAlone, At
<1>3. PICK o \in {"none", "idle", "tell"} : Place1("refresh", o)
  BY DEF DrivesChange, multirom_ui_refresh_usb_handler, RefreshEnds
<1>4. \A p \in {"none", "idle", "tell"} : Bare(Place(p)) BY PlaceGoes DEF Bare, ShowOps
<1>5. BareTurn("refresh") BY <1>3, <1>4, PlaceGoes DEF BareTurn
<1>6. OthersStay("refresh")
  <2>1. lock["auto"] # "refresh" BY <1>1, <1>2, NotCounting DEF ShowOps, HideOps
  <2> QED BY <1>1, <1>5, <2>1, BareTurned DEF AutoInv, AutoAt
<1>7. Base("input")' = Base("input") BY <1>1, <1>6 DEF OthersStay, Base
<1> QED BY <1>1, <1>2, <1>5, <1>7, OwnMoves

\* The threads of the card's handler are at no place of these.
LEMMA NobodyOwns ==
    ASSUME OwnersInv, UNCHANGED <<at, back, lock, card>> PROVE AutoInv' /\ OwnerInv'
BY DEF OwnersInv, AutoInv, OwnerInv, At, Step, Base

LEMMA BareAtBase == ASSUME NEW r, Bare(r) PROVE BareList(<<>>) /\ BareList(<<r>> \o <<>>)
<1>1. BareList(<<>>) BY DEF BareList
<1>2. <<>> \in Seq({r}) OBVIOUS
<1> QED BY <1>1, <1>2, BareMoves

\* The main thread, from a place of its own, with what it starts there.
Still(t) == at'[t] = at[t] /\ back'[t] = back[t]
Begins(t) == at[t].op \in Bases(t) \ {"touched"} /\ back'[t] = back[t] /\ \E o \in {"starting", "idle"} : at'[t] = Place(o)

LEMMA MainOwns ==
    ASSUME OwnersInv, at["main"].op \in MainBases, NEW q, at'["main"] = q, Bare(q), BareList(back'["main"]),
           q.op \notin HoldsCard, card' = card,
           \A l \in {"card", "auto", "touch", "workers"} : lock'[l] = lock[l],
           lock'["exit"] # NoOne => lock'["exit"] = "main" /\ Step' \in Held,
           lock'["start"] # NoOne => lock'["start"] = "main" /\ q.op = "join input",
           q.op = "join input" => Step' \in Joins,
           \A t \in Threads \ {"main"} : Still(t) \/ Begins(t)
    PROVE  AutoInv' /\ OwnerInv'
<1> USE DEF OwnersInv, UiInv
<1>1. "main" \in Threads /\ "input" \in Threads \ {"main"} /\ at["main"].op \in Bases("main") BY MainIs DEF Threads
<1>2. ASSUME NEW t \in Threads, at[t].op \in Bases(t) PROVE lock["auto"] # t /\ at[t].op \notin HoldsCard
  <2>1. at[t].op \notin CallOps BY <1>2, NotBase
  <2>2. lock["auto"] # t BY <2>1, NotCounting DEF CallOps
  <2> QED BY <2>1, <2>2 DEF CallOps, ShowOps, HideOps, HoldsCard
<1>3. ASSUME NEW t \in Threads PROVE AutoAt(lock'["auto"], card'.kind, t, at'[t], back'[t])
  <2>1. AutoAt(lock["auto"], card.kind, t, at[t], back[t]) BY DEF AutoInv
  <2>2. CASE t = "main"
    <3>1. lock'["auto"] # "main" BY <1>1, <1>2
    <3> QED BY <2>2, <3>1 DEF AutoAt
  <2>3. CASE t # "main" /\ Still(t) BY <2>1, <2>3 DEF Still
  <2>4. CASE t # "main" /\ Begins(t)
    <3>1. lock'["auto"] # t BY <1>2, <2>4 DEF Begins
    <3>2. BareList(back'[t]) BY <2>1, <2>4, <3>1 DEF Begins, AutoAt
    <3>3. Bare(at'[t]) BY <2>4, BarePlaces DEF Begins, ShowOps
    <3> QED BY <3>1, <3>2, <3>3 DEF AutoAt
  <2> QED BY <2>2, <2>3, <2>4
<1>4. AutoInv'
  <2>1. lock'["auto"] \in Threads \cup {NoOne} /\ AsKind(card') BY DEF AutoInv
  <2> QED BY <1>3, <2>1 DEF AutoInv
<1>5. lock'["card"] # NoOne => \E u \in Threads : lock'["card"] = u /\ at'[u].op \in HoldsCard
  <2> SUFFICES ASSUME lock'["card"] # NoOne PROVE \E u \in Threads : lock'["card"] = u /\ at'[u].op \in HoldsCard OBVIOUS
  <2>1. PICK u \in Threads : lock["card"] = u /\ at[u].op \in HoldsCard BY DEF OwnerInv
  <2>2. u # "main" /\ ~Begins(u) BY <1>1, <1>2, <2>1 DEF Begins
  <2> QED BY <2>1, <2>2 DEF Still
<1>6. lock'["touch"] # NoOne => lock'["touch"] = "input" /\ Base("input")' = "touched"
  <2> SUFFICES ASSUME lock'["touch"] # NoOne PROVE lock'["touch"] = "input" /\ Base("input")' = "touched" OBVIOUS
  <2>1. lock["touch"] = "input" /\ Base("input") = "touched" BY DEF OwnerInv
  <2>2. ~Begins("input") BY <1>1, <2>1, Whereabouts DEF Begins
  <2> QED BY <1>1, <2>1, <2>2 DEF Still, Base
<1>7. At("main", "join input")' => Step' \in Joins BY DEF At
<1>8. lock'["start"] # NoOne => lock'["start"] = "main" /\ At("main", "join input")' BY DEF At
<1> QED BY <1>4, <1>5, <1>6, <1>7, <1>8 DEF OwnerInv

\* From one place of its own to another, and what that does to exit_code_mutex.
LEMMA MainGoOwns ==
    ASSUME OwnersInv, NEW p \in MainBases, At("main", p), NEW o \in MainBases, Place1("main", o), card' = card,
           \/ lock' = lock /\ (p \in Held => o \in Held)
           \/ lock' = [lock EXCEPT !["exit"] = "main"] /\ o \in Held
           \/ lock' = [lock EXCEPT !["exit"] = NoOne]
    PROVE  AutoInv' /\ OwnerInv'
<1> USE DEF OwnersInv, UiInv
<1>1. /\ "main" \in Threads /\ at["main"].op = p /\ at["main"].op \in Bases("main")
      /\ {"card", "auto", "touch", "workers", "start"} \subseteq Locks \ {"exit"} /\ "exit" \in Locks
  BY MainIs DEF At, Locks
<1>2. o \notin CallOps /\ p # "join input" BY MainIs, NotBase DEF MainBases
<1>3. Goes("main", Place(o)) /\ Place(o).op = o /\ Bare(Place(o)) BY <1>2, PlaceGoes, BarePlaces DEF CallOps
<1>4. OthersStay("main") /\ at'["main"] = Place(o) /\ back'["main"] = back["main"] BY <1>1, <1>3, Turns
<1>5. Step = p /\ Step' = o
  <2>1. Under(at'["main"], back'["main"]) = o BY <1>1, <1>3, OwnBase
  <2> QED BY <1>1, <2>1, Whereabouts DEF Step, Base
<1>6. BareList(back'["main"])
  <2>1. back["main"] = <<>> BY <1>1, OwnBase
  <2> QED BY <1>4, <2>1 DEF BareList
<1>7. \A l \in {"card", "auto", "touch", "workers", "start"} : lock'[l] = lock[l] BY <1>1, LockOf
<1>8. lock'["exit"] # NoOne => lock'["exit"] = "main" /\ Step' \in Held
  <2>1. CASE lock' = lock /\ (p \in Held => o \in Held) BY <1>5, <2>1 DEF OwnerInv
  <2>2. CASE lock' = [lock EXCEPT !["exit"] = "main"] /\ o \in Held
    <3>1. lock'["exit"] = "main" BY <1>1, <2>2, LockOf
    <3> QED BY <1>5, <2>2, <3>1
  <2>3. CASE lock' = [lock EXCEPT !["exit"] = NoOne]
    <3>1. lock'["exit"] = NoOne BY <1>1, <2>3, LockOf
    <3> QED BY <3>1
  <2> QED BY <2>1, <2>2, <2>3
<1>9. lock'["start"] = NoOne BY <1>1, <1>2, <1>7 DEF OwnerInv, At
<1>10. o \notin HoldsCard /\ o # "join input" BY <1>2 DEF CallOps, HoldsCard, ShowOps, HideOps
<1>11. \A t \in Threads \ {"main"} : Still(t) BY <1>4 DEF OthersStay, Still
<1> HIDE DEF OwnersInv, UiInv
<1>12. PICK q : q = Place(o) OBVIOUS
<1> QED BY <1>1, <1>3, <1>4, <1>6, <1>7, <1>8, <1>9, <1>10, <1>11, <1>12, MainOwns

\* Into a call.
LEMMA MainCallOwns ==
    ASSUME OwnersInv, NEW p \in MainBases, At("main", p), NEW q, NEW r, Call("main", q, r), Bare(q), Bare(r),
           q.op \notin HoldsCard, card' = card, p \in Held => r.op \in Held,
           \/ lock' = lock /\ q.op # "join input"
           \/ lock' = [lock EXCEPT !["start"] = "main"] /\ q.op = "join input" /\ r.op \in Joins
    PROVE  AutoInv' /\ OwnerInv'
<1> USE DEF OwnersInv, UiInv
<1>1. /\ "main" \in Threads /\ at["main"].op = p /\ at["main"].op \in Bases("main")
      /\ {"card", "auto", "touch", "workers", "exit"} \subseteq Locks \ {"start"} /\ "start" \in Locks
  BY MainIs DEF At, Locks
<1>2. p # "join input" BY DEF MainBases
<1>3. OthersStay("main") /\ at'["main"] = q /\ back'["main"] = <<r>> \o back["main"] BY <1>1, Turns
<1>4. Step = p /\ Step' = r.op
  <2>1. Under(at'["main"], back'["main"]) = r.op BY <1>1, OwnBase
  <2> QED BY <1>1, <2>1, Whereabouts DEF Step, Base
<1>5. BareList(back'["main"])
  <2>1. back["main"] = <<>> BY <1>1, OwnBase
  <2>2. BareList(<<r>> \o <<>>) BY BareAtBase
  <2> QED BY <1>3, <2>1, <2>2
<1>6. \A l \in {"card", "auto", "touch", "workers", "exit"} : lock'[l] = lock[l] BY <1>1, LockOf
<1>7. lock'["exit"] # NoOne => lock'["exit"] = "main" /\ Step' \in Held BY <1>4, <1>6 DEF OwnerInv
<1>8. lock'["start"] # NoOne => lock'["start"] = "main" /\ q.op = "join input"
  <2>1. CASE lock' = lock /\ q.op # "join input" BY <1>1, <1>2, <2>1 DEF OwnerInv, At
  <2>2. CASE lock' = [lock EXCEPT !["start"] = "main"] /\ q.op = "join input"
    <3>1. lock'["start"] = "main" BY <1>1, <2>2, LockOf
    <3> QED BY <2>2, <3>1
  <2> QED BY <2>1, <2>2
<1>9. q.op = "join input" => Step' \in Joins BY <1>4
<1>10. \A t \in Threads \ {"main"} : Still(t) BY <1>3 DEF OthersStay, Still
<1> HIDE DEF OwnersInv, UiInv
<1> QED BY <1>1, <1>3, <1>5, <1>6, <1>7, <1>8, <1>9, <1>10, MainOwns

\* With a thread that it starts.
LEMMA MainBeginsOwns ==
    ASSUME OwnersInv, NEW p \in MainBases \ Held, At("main", p), NEW o \in MainBases, NEW u \in {"input", "refresh"},
           NEW x \in {"starting", "idle"}, at' = [at EXCEPT !["main"] = Place(o), ![u] = Place(x)],
           back' = back, lock' = lock, card' = card, at[u].op \in Bases(u) \ {"touched"}
    PROVE  AutoInv' /\ OwnerInv'
<1> USE DEF OwnersInv, UiInv
<1>1. "main" \in Threads /\ at["main"].op = p /\ at["main"].op \in Bases("main") /\ u \in Threads /\ u # "main"
  BY MainIs DEF At, Threads
<1>2. o \notin CallOps /\ p # "join input" BY MainIs, NotBase DEF MainBases
<1>3. PICK q : q = Place(o) OBVIOUS
<1>4. PICK r : r = Place(x) OBVIOUS
<1>5. q.op = o /\ Bare(q) BY <1>2, <1>3, BarePlaces DEF CallOps
<1>6. /\ at'["main"] = q /\ at'[u] = r /\ \A t \in Threads \ {"main", u} : at'[t] = at[t]
  <2>1. at = [t \in Threads |-> at[t]] BY DEF StackInv
  <2>2. at' = [at EXCEPT !["main"] = q, ![u] = r] BY <1>3, <1>4
  <2> QED BY <1>1, <2>1, <2>2
<1>7. Step = p /\ Step' = o /\ BareList(back'["main"])
  <2>1. back["main"] = <<>> BY <1>1, OwnBase
  <2>2. Step' = at'["main"].op BY <2>1 DEF Step, Base, Under
  <2> QED BY <1>1, <1>5, <1>6, <2>1, <2>2, Whereabouts DEF BareList
<1>8. lock'["exit"] = NoOne BY <1>7 DEF OwnerInv
<1>9. lock'["start"] = NoOne BY <1>1, <1>2 DEF OwnerInv, At
<1>10. q.op \notin HoldsCard /\ q.op # "join input" BY <1>2, <1>5 DEF CallOps, HoldsCard, ShowOps, HideOps
<1>11. \A t \in Threads \ {"main"} : Still(t) \/ Begins(t) BY <1>4, <1>6 DEF Still, Begins
<1> HIDE DEF OwnersInv, UiInv
<1> QED BY <1>1, <1>5, <1>6, <1>7, <1>8, <1>9, <1>10, <1>11, MainOwns

LEMMA JoinedOwns == ASSUME OwnersInv, Joined PROVE AutoInv' /\ OwnerInv'
<1> USE DEF OwnersInv, UiInv
<1>1. /\ "main" \in Threads /\ "input" \in Threads \ {"main"} /\ at["main"].op = "join input"
      /\ at["main"].op \notin Bases("main") /\ card' = card /\ Return("main")
      /\ {"card", "auto", "touch", "workers", "exit"} \subseteq Locks \ {"start"} /\ "start" \in Locks
  BY MainIs DEF Joined, At, Locks, CardAlone, Threads, MainBases
<1>2. lock'["start"] = NoOne /\ \A l \in {"card", "auto", "touch", "workers", "exit"} : lock'[l] = lock[l]
  <2>1. lock' = [lock EXCEPT !["start"] = NoOne] BY DEF Joined, Drop
  <2> QED BY <1>1, <2>1, LockOf
<1>3. back["main"] # <<>> BY <1>1, InCall
<1>4. lock["auto"] # "main" BY <1>1, NotCounting DEF ShowOps, HideOps
<1>5. OthersStay("main") /\ at'["main"] = Head(back["main"]) /\ back'["main"] = Tail(back["main"]) BY <1>1, Turns
<1>6. Step' = Step /\ ~At("main", "join input")'
  <2>1. Stacked(Places(Chosen), "main", at["main"], back["main"]) BY <1>1 DEF StackInv
  <2>2. /\ Under(Head(back["main"]), Tail(back["main"])) = Step
        /\ Head(back["main"]).op \in Returns("main") \/ Head(back["main"]).op \in Calls("main", Step) \cap Paused
    <3>1. /\ Under(Head(back["main"]), Tail(back["main"])) = Under(at["main"], back["main"])
          /\ \/ Head(back["main"]).op \in Returns("main")
             \/ Head(back["main"]).op \in Calls("main", Under(at["main"], back["main"])) \cap Paused
      <4>1. "main" \in Threads /\ back["main"] # <<>> BY <1>1, <1>3
      <4>2. PICK P, x, w : P = Places(Chosen) /\ x = at["main"] /\ w = back["main"] OBVIOUS
      <4>3. Stacked(P, "main", x, w) /\ w # <<>> BY <2>1, <4>1, <4>2
      <4> QED BY <4>1, <4>2, <4>3, Returned
    <3> QED BY <3>1 DEF Step, Base
  <2>3. Head(back["main"]).op # "join input" BY <2>2, MainIs DEF Paused
  <2> QED BY <1>5, <2>2, <2>3 DEF Step, Base, At
<1>7. AutoInv'
  <2>1. BareTurn("main") BY <1>1, <1>3 DEF BareTurn
  <2>2. AsKind(card') BY <1>1 DEF AutoInv
  <2> QED BY <1>1, <1>2, <1>4, <2>1, <2>2, BareAuto
<1>8. lock'["card"] # NoOne => \E u \in Threads : lock'["card"] = u /\ at'[u].op \in HoldsCard
  BY <1>1, <1>2, <1>5 DEF OwnerInv, OthersStay, HoldsCard
<1>9. Base("input")' = Base("input") BY <1>1, <1>5 DEF OthersStay, Base
<1> QED BY <1>2, <1>6, <1>7, <1>8, <1>9 DEF OwnerInv

\* The moves of main's within the loop and without, by what they do to exit_code_mutex.
PlainMoves == {<<"started", "check">>, <<"begin", "open">>, <<"enable", "auto boot">>, <<"auto boot", "loop">>,
               <<"pong?", "disable">>, <<"pong?", "colours?">>, <<"disable", "push">>, <<"push", "pop">>,
               <<"pop", "pop done">>, <<"pop done", "colours?">>, <<"exit?", "pong?">>, <<"method", "exit?">>,
               <<"destroy", "join refresh">>, <<"join refresh", "usb flag">>, <<"usb flag", "theme again">>,
               <<"usb flag", "workers_stop">>, <<"coloured", "loop">>, <<"leave", "stop input">>,
               <<"anim_stop", "anims end">>, <<"anims end", "destroy">>, <<"workers_stop", "done">>,
               <<"boot at once", "done">>, <<"reboot", "done">>, <<"open", "dark">>,
               <<"exit?", "scroll">>, <<"exit?", "filled">>, <<"scroll", "filled">>, <<"filled", "pong?">>}
Moves(p, o) == At("main", p) /\ Place1("main", o)

LEMMA PlainOwns ==
    ASSUME OwnersInv, NEW p, NEW o, <<p, o>> \in PlainMoves, Moves(p, o), lock' = lock, card' = card
    PROVE  AutoInv' /\ OwnerInv'
<1>1. p \in MainBases /\ o \in MainBases /\ (p \in Held => o \in Held) BY DEF PlainMoves, MainBases, Held
<1> QED BY <1>1, MainGoOwns DEF Moves

LEMMA MainPlainOwns ==
    ASSUME OwnersInv,
           BootAtOnce \/ Dark \/ Enabled \/ ListFilled \/ Pong \/ PongContext \/ multirom_ui_destroy_theme
               \/ Leave \/ AnimStop \/ WorkersStop
    PROVE  AutoInv' /\ OwnerInv'
<1>1. lock' = lock /\ card' = card
  BY DEF BootAtOnce, Dark, Enabled, EnableKeys, ListFilled, Pong, PongContext, multirom_ui_destroy_theme, Leave, AnimStop, WorkersStop,
         MainSteps, MainOn, CardAlone
<1>2. PICK p, o : <<p, o>> \in PlainMoves /\ Moves(p, o)
  <2> USE DEF Moves, MainSteps, MainOn
  <2>1. BootAtOnce => Moves("boot at once", "done") BY DEF BootAtOnce
  <2>2. Enabled => Moves("enable", "auto boot") BY DEF Enabled, EnableKeys
  <2>3. (Dark => Moves("open", "dark")) /\ (ListFilled => Moves("scroll", "filled") \/ Moves("filled", "pong?"))
    BY DEF Dark, ListFilled
  <2>4. Pong => Moves("pong?", "disable") \/ Moves("pong?", "colours?") \/ Moves("disable", "push") \/ Moves("pop done", "colours?")
    BY DEF Pong, EnableKeys
  <2>5. PongContext => Moves("push", "pop") \/ Moves("pop", "pop done") BY DEF PongContext
  <2>6. multirom_ui_destroy_theme =>
            \/ Moves("destroy", "join refresh") \/ Moves("join refresh", "usb flag")
            \/ Moves("usb flag", "theme again") \/ Moves("usb flag", "workers_stop")
    BY DEF multirom_ui_destroy_theme
  <2>7. Leave => Moves("leave", "stop input") BY DEF Leave
  <2>8. AnimStop => Moves("anim_stop", "anims end") \/ Moves("anims end", "destroy") BY DEF AnimStop
  <2>9. WorkersStop => Moves("workers_stop", "done") BY DEF WorkersStop
  <2>10. /\ {<<"boot at once", "done">>, <<"enable", "auto boot">>, <<"open", "dark">>} \subseteq PlainMoves
         /\ {<<"scroll", "filled">>, <<"filled", "pong?">>} \subseteq PlainMoves
         /\ {<<"pong?", "disable">>, <<"pong?", "colours?">>, <<"disable", "push">>, <<"pop done", "colours?">>} \subseteq PlainMoves
         /\ {<<"push", "pop">>, <<"pop", "pop done">>, <<"destroy", "join refresh">>, <<"join refresh", "usb flag">>} \subseteq PlainMoves
         /\ {<<"usb flag", "theme again">>, <<"usb flag", "workers_stop">>, <<"leave", "stop input">>} \subseteq PlainMoves
         /\ {<<"anim_stop", "anims end">>, <<"anims end", "destroy">>, <<"workers_stop", "done">>} \subseteq PlainMoves
    BY DEF PlainMoves
  <2> HIDE DEF Moves
  <2>11. CASE BootAtOnce \/ Enabled \/ Dark \/ ListFilled BY <2>1, <2>2, <2>3, <2>10, <2>11
  <2>12. CASE Pong BY <2>4, <2>10, <2>12
  <2>13. CASE PongContext \/ Leave BY <2>5, <2>7, <2>10, <2>13
  <2>14. CASE multirom_ui_destroy_theme BY <2>6, <2>10, <2>14
  <2>15. CASE AnimStop \/ WorkersStop BY <2>8, <2>9, <2>10, <2>15
  <2> QED BY <2>11, <2>12, <2>13, <2>14, <2>15
<1> QED BY <1>1, <1>2, PlainOwns

\* exit_code_mutex: taken when the loop begins, given back when it ends or is left.
LEMMA LoopOwns == ASSUME OwnersInv, Loop \/ Leaves \/ LoopEnds PROVE AutoInv' /\ OwnerInv'
<1>1. card' = card BY DEF Loop, Leaves, LoopEnds, MainSteps, MainOn, CardAlone
<1>2. {"loop", "exit?", "method", "leave", "colours?", "destroy"} \subseteq MainBases /\ {"exit?", "method"} \subseteq Held
  BY DEF MainBases, Held
<1>3. CASE Loop
  <2>1. PICK o \in {"method", "exit?"} : Place1("main", o) BY <1>3 DEF Loop, MainSteps, MainOn
  <2>2. At("main", "loop") /\ lock' = [lock EXCEPT !["exit"] = "main"] BY <1>3 DEF Loop, Take
  <2>3. o \in MainBases /\ o \in Held BY <1>2
  <2> QED BY <1>1, <1>2, <2>1, <2>2, <2>3, MainGoOwns
<1>4. CASE Leaves \/ LoopEnds
  <2>1. PICK p \in {"exit?", "colours?"}, o \in {"leave", "destroy", "loop"} : At("main", p) /\ Place1("main", o)
    BY <1>4 DEF Leaves, LoopEnds, MainSteps, MainOn
  <2>2. lock' = [lock EXCEPT !["exit"] = NoOne] BY <1>4 DEF Leaves, LoopEnds, Drop
  <2>3. p \in MainBases /\ o \in MainBases BY <1>2
  <2> QED BY <1>1, <2>1, <2>2, <2>3, MainGoOwns
<1> QED BY <1>3, <1>4

\* The calls: the question for the method, the first second, the last card.
LEMMA MainCallsOwn == ASSUME OwnersInv, ChooseMethod \/ multirom_ui_auto_boot \/ LastCard PROVE AutoInv' /\ OwnerInv'
<1>1. lock' = lock /\ card' = card BY DEF ChooseMethod, multirom_ui_auto_boot, LastCard, CardAlone
<1>2. /\ {"method", "exit?", "auto boot", "loop", "last card"} \subseteq MainBases
      /\ {"method", "exit?"} \subseteq Held /\ {"auto boot", "last card"} \cap Held = {}
  BY DEF MainBases, Held
<1>3. /\ \A k \in {"ask", "bye"} : Bare(Show(k)) /\ Show(k).op \notin {"join input"} \cup HoldsCard
      /\ \A o \in {"exit?", "anim_stop", "tick", "loop"} :
             Bare(Place(o)) /\ Place(o).op = o /\ o \notin {"join input"} \cup HoldsCard
  <2>1. \A k : Show(k).op = "show" /\ Show(k).kind = k BY DEF Show
  <2>2. \A k \in {"ask", "bye"} : Bare(Show(k)) BY <2>1 DEF Bare
  <2> QED BY <2>1, <2>2, BarePlaces DEF HoldsCard, ShowOps
<1>4. CASE Moves("method", "exit?") \/ Moves("auto boot", "loop")
  <2>1. {<<"method", "exit?">>, <<"auto boot", "loop">>} \subseteq PlainMoves BY DEF PlainMoves
  <2> QED BY <1>1, <1>4, <2>1, PlainOwns
<1>5. CASE At("main", "method") /\ Call("main", Show("ask"), Place("exit?")) BY <1>1, <1>2, <1>3, <1>5, MainCallOwns
<1>6. CASE At("main", "last card") /\ Call("main", Show("bye"), Place("anim_stop")) BY <1>1, <1>2, <1>3, <1>6, MainCallOwns
<1>7. CASE At("main", "auto boot") /\ Call("main", Place("tick"), Place("loop")) BY <1>1, <1>2, <1>3, <1>7, MainCallOwns
<1>8. \/ Moves("method", "exit?") \/ Moves("auto boot", "loop")
      \/ At("main", "method") /\ Call("main", Show("ask"), Place("exit?"))
      \/ At("main", "last card") /\ Call("main", Show("bye"), Place("anim_stop"))
      \/ At("main", "auto boot") /\ Call("main", Place("tick"), Place("loop"))
  BY DEF ChooseMethod, multirom_ui_auto_boot, LastCard, Moves
<1> QED BY <1>4, <1>5, <1>6, <1>7, <1>8

\* The list of a drive's ROMs, which may hide a card.
LEMMA UpdateUsbOwns == ASSUME OwnersInv, UpdateUsb PROVE AutoInv' /\ OwnerInv'
<1>1. lock' = lock /\ card' = card BY DEF UpdateUsb, CardAlone
<1>2. CASE \E o \in {"pong?", "scroll", "filled"} : Moves("exit?", o)
  <2>1. PICK o \in {"pong?", "scroll", "filled"} : Moves("exit?", o) BY <1>2
  <2>2. <<"exit?", o>> \in PlainMoves BY DEF PlainMoves
  <2> QED BY <1>1, <2>1, <2>2, PlainOwns
<1>3. CASE \E n \in {"scroll", "filled"} : At("main", "exit?") /\ Call("main", Place("hide"), Place(n))
  <2>1. PICK n \in {"scroll", "filled"} : At("main", "exit?") /\ Call("main", Place("hide"), Place(n)) BY <1>3
  <2>2. PICK q : q = Place("hide") OBVIOUS
  <2>3. PICK r : r = Place(n) OBVIOUS
  <2>4. Bare(q) /\ Bare(r) /\ q.op = "hide" /\ r.op = n BY <2>2, <2>3, BarePlaces DEF ShowOps
  <2>5. "exit?" \in MainBases /\ r.op \in Held /\ q.op \notin {"join input"} \cup HoldsCard
    BY <2>4 DEF MainBases, Held, HoldsCard
  <2>6. Call("main", q, r) /\ At("main", "exit?") BY <2>1, <2>2, <2>3
  <2> QED BY <1>1, <2>4, <2>5, <2>6, MainCallOwns
<1> QED BY <1>2, <1>3 DEF UpdateUsb, Moves

\* The start of the input thread, and its end.
LEMMA StopOwns ==
    ASSUME OwnersInv, NEW p \in MainBases \ Held, At("main", p), NEW n \in Joins, stop_input_thread(n)
    PROVE  AutoInv' /\ OwnerInv'
<1>1. lock' = [lock EXCEPT !["start"] = "main"] /\ card' = card /\ Call("main", Place("join input"), Place(n))
  BY DEF stop_input_thread, Take, CardAlone
<1>2. \A o \in Joins \cup {"join input"} : Bare(Place(o)) /\ Place(o).op = o BY BarePlaces DEF Joins, ShowOps
<1>3. PICK q : q = Place("join input") OBVIOUS
<1>4. PICK r : r = Place(n) OBVIOUS
<1>5. Bare(q) /\ Bare(r) /\ q.op = "join input" /\ r.op = n BY <1>2, <1>3, <1>4
<1>6. q.op \notin HoldsCard BY <1>5 DEF HoldsCard
<1>7. Call("main", q, r) BY <1>1, <1>3, <1>4
<1> QED BY <1>1, <1>5, <1>6, <1>7, MainCallOwns

LEMMA BeginOwns ==
    ASSUME OwnersInv, NEW p \in {"begin", "open", "start"}, At("main", p), NEW wait \in BOOLEAN, NEW next \in MainBases,
           start_input_thread(wait, next)
    PROVE  AutoInv' /\ OwnerInv'
<1> USE DEF OwnersInv, UiInv
<1>1. PICK o \in MainBases : at' = [at EXCEPT !["main"] = Place(o), !["input"] = Place("starting")]
  BY DEF start_input_thread, MainBases
<1>2. back' = back /\ lock' = lock /\ card' = card BY DEF start_input_thread, CardAlone
<1>3. p \in MainBases \ Held BY DEF MainBases, Held
<1>4. at["input"].op \in Bases("input") \ {"touched"}
  <2>1. Step = p BY <1>3, MainAtBase DEF At
  <2>2. At("input", "none") BY <1>3, <2>1 DEF ThreadsInv, NoInput, At
  <2> QED BY <2>2 DEF At, Bases
<1> HIDE DEF OwnersInv, UiInv
<1> QED BY <1>1, <1>2, <1>3, <1>4, MainBeginsOwns

LEMMA ThemeOwns ==
    ASSUME OwnersInv, NEW p \in {"open", "theme again"}, At("main", p), NEW o \in MainBases, multirom_ui_init_theme(o)
    PROVE  AutoInv' /\ OwnerInv'
<1> USE DEF OwnersInv, UiInv
<1>1. at' = [at EXCEPT !["main"] = Place(o), !["refresh"] = Place("idle")] /\ back' = back /\ lock' = lock /\ card' = card
  BY DEF multirom_ui_init_theme, CardAlone
<1>2. p \in MainBases \ Held BY DEF MainBases, Held
<1>3. at["refresh"].op \in Bases("refresh") \ {"touched"}
  <2>1. "refresh" \in Threads BY DEF Threads
  <2> QED BY <2>1, Whereabouts DEF Bases, Calls
<1> HIDE DEF OwnersInv, UiInv
<1> QED BY <1>1, <1>2, <1>3, MainBeginsOwns

LEMMA StartOwns ==
    ASSUME OwnersInv, CheckKeysHeld \/ KeysHeld \/ NoTheme \/ Opens \/ ThemeAgain \/ StopInput
    PROVE  AutoInv' /\ OwnerInv'
<1>1. /\ {<<"started", "check">>, <<"reboot", "done">>, <<"begin", "open">>, <<"coloured", "loop">>} \subseteq PlainMoves
      /\ {"begin", "open", "start", "check", "wait for key", "stop input"} \subseteq MainBases \ Held
      /\ {"check", "wait for key", "enable", "start", "coloured"} \subseteq MainBases
      /\ {"open", "boot at once", "reboot", "last card"} \subseteq Joins
  BY DEF PlainMoves, MainBases, Held, Joins
<1>2. CASE CheckKeysHeld
  <2>1. CASE At("main", "begin") /\ start_input_thread(TRUE, "check") BY <1>1, <2>1, BeginOwns
  <2>2. CASE Moves("started", "check") /\ lock' = lock /\ card' = card BY <1>1, <2>2, PlainOwns
  <2> QED BY <1>2, <2>1, <2>2 DEF CheckKeysHeld, Moves, MainSteps, MainOn, CardAlone
<1>3. CASE KeysHeld \/ StopInput
  <2>1. CASE At("main", "check") /\ (stop_input_thread("open") \/ stop_input_thread("boot at once"))
    BY <1>1, <2>1, StopOwns
  <2>2. CASE At("main", "stop input") /\ stop_input_thread("last card") BY <1>1, <2>2, StopOwns
  <2> QED BY <1>3, <2>1, <2>2 DEF KeysHeld, StopInput
<1>4. CASE NoTheme
  <2>1. CASE At("main", "open") /\ start_input_thread(FALSE, "wait for key") BY <1>1, <2>1, BeginOwns
  <2>2. CASE At("main", "wait for key") /\ stop_input_thread("reboot") BY <1>1, <2>2, StopOwns
  <2>3. CASE Moves("reboot", "done") /\ lock' = lock /\ card' = card BY <1>1, <2>3, PlainOwns
  <2> QED BY <1>4, <2>1, <2>2, <2>3 DEF NoTheme, Moves, CardAlone
<1>5. CASE Opens
  <2>1. CASE Moves("begin", "open") /\ lock' = lock /\ card' = card BY <1>1, <2>1, PlainOwns
  <2>2. CASE At("main", "open") /\ multirom_ui_init_theme("start") BY <1>1, <2>2, ThemeOwns
  <2>3. CASE At("main", "start") /\ start_input_thread(FALSE, "enable") BY <1>1, <2>3, BeginOwns
  <2> QED BY <1>5, <2>1, <2>2, <2>3 DEF Opens, Moves, MainSteps, MainOn, CardAlone
<1>6. CASE ThemeAgain
  <2>1. CASE At("main", "theme again") /\ multirom_ui_init_theme("coloured") BY <1>1, <2>1, ThemeOwns
  <2>2. CASE Moves("coloured", "loop") /\ lock' = lock /\ card' = card BY <1>1, <2>2, PlainOwns
  <2> QED BY <1>6, <2>1, <2>2 DEF ThemeAgain, Moves, MainOn, CardAlone
<1> QED BY <1>2, <1>3, <1>4, <1>5, <1>6

LEMMA OwnersStart == ASSUME UiInit PROVE AutoInv /\ OwnerInv
<1> USE DEF UiInit, CardInit
<1>1. \A t \in Threads : at[t] = Place(IF t = "main" THEN "begin" ELSE "none") /\ back[t] = <<>> OBVIOUS
<1>2. /\ lock["auto"] = NoOne /\ lock["card"] = NoOne /\ lock["exit"] = NoOne /\ lock["start"] = NoOne
      /\ lock["touch"] = NoOne /\ lock["workers"] = NoOne
  BY DEF Locks
<1>3. ASSUME NEW t \in Threads PROVE AutoAt(lock["auto"], card.kind, t, at[t], back[t])
  <2>1. NoOne # t BY DEF NoOne, Threads
  <2>2. Bare(at[t]) BY <1>1, BarePlaces DEF ShowOps
  <2>3. BareList(back[t])
    <3>1. Bare(Place("none")) BY BarePlaces DEF ShowOps
    <3> QED BY <1>1, <3>1, BareAtBase
  <2> QED BY <1>2, <2>1, <2>2, <2>3 DEF AutoAt
<1>4. AsKind(card) BY DEF AsKind, CardRecs, Hidden
<1>5. ~At("main", "join input")
  <2>1. at["main"].op = "begin" BY <1>1, PlaceGoes DEF Threads
  <2> QED BY <2>1 DEF At
<1> QED BY <1>2, <1>3, <1>4, <1>5 DEF AutoInv, OwnerInv

LEMMA OwnersKept == ASSUME OwnersInv, [UiNext]_<<cardVars, uiVars>> PROVE OwnersInv'
<1>1. UiInv' BY UiKept DEF OwnersInv
<1>2. AutoInv' /\ OwnerInv'
  <2>1. CASE UNCHANGED <<cardVars, uiVars>> BY <2>1, NobodyOwns DEF cardVars
  <2>2. CASE MainNext
    BY <2>2, MainPlainOwns, UpdateUsbOwns, LoopOwns, MainCallsOwn, StartOwns, JoinedOwns DEF MainNext
  <2>3. CASE InputNext BY <2>3, InputOwnOwns, InputCallOwns DEF InputNext, InputCall
  <2>4. CASE WorkerBegins \/ WorkerEnds BY <2>4, WorkerOwns
  <2>5. CASE DrivesChange \/ multirom_ui_refresh_usb_handler \/ RefreshEnds BY <2>5, RefreshOwns
  <2>6. CASE HandlerThread BY <2>6, NobodyOwns DEF HandlerThread
  <2>7. ASSUME NEW t \in Threads, OfThread(t) \/ BootsAuto(t) \/ TickOver(t) \/ TickZero(t) \/ Tick(t) \/ Ticked(t)
        PROVE  AutoInv' /\ OwnerInv'
    BY <2>7, CardCallOwns, CountOwns, TickAuto, TickedAuto DEF OfThread
  <2> QED BY <2>1, <2>2, <2>3, <2>4, <2>5, <2>6, <2>7 DEF UiNext
<1> QED BY <1>1, <1>2 DEF OwnersInv

\* Who has each of the six mutexes, by the places of the threads: what the code does between
\* a lock and its unlock, in whatever call it is made.
THEOREM OwnersSafe == UiSpec => []OwnersInv
<1>1. UiInit => OwnersInv BY Starts, OwnersStart DEF OwnersInv
<1>2. OwnersInv /\ [UiNext]_<<cardVars, uiVars>> => OwnersInv' BY OwnersKept
<1> QED BY <1>1, <1>2, PTL DEF UiSpec

\* The threads of the interface never wait for one another, for these six mutexes and the two
\* joins, in a circle that is not, or does not hold, one of those that the code can run into:
\* a touch against the loop that puts Pong's touch handlers aside or back, the countdown against
\* the loop that changes the keys or fills the list of ROMs anew, the join of an input thread
\* that has not started, and a card with buttons hidden under a touch.
THEOREM CirclesKnown == UiSpec => []WaitsKnown
<1>1. OwnersInv => WaitsKnown BY NoCircle DEF OwnersInv
<1> QED BY <1>1, OwnersSafe, PTL
===============================================================================
