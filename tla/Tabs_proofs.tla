------------------------------ MODULE Tabs_proofs -----------------------------
(***************************************************************************)
(* Proofs about TabActivity, TabBar and TabFrames: marks mean output that  *)
(* nobody saw, the bar shows them in time, the hovered pane is the one     *)
(* that the pointer entered; and as long as split mode is not entered with *)
(* a frame in flight, no shown terminal is left without somebody to draw   *)
(* it, and no frame callback outlives its terminal.                        *)
(***************************************************************************)
EXTENDS MCTabs, MCTabFrames, WellFoundedInduction, TLAPS

(***************************************************************************)
(* The inductive invariant of TabActivity                                  *)
(***************************************************************************)

Records == [start : Nat, last : Nat, hiddenSince : Nat, doneAt : Int,
            visible : BOOLEAN, done : BOOLEAN]

\* A tab as it will be found when the bar is drawn next, or the timer fires
Found(tab) == SetVisible(run[tab], Visible(tab))

Types ==
    /\ run \in [Tabs -> Records]
    /\ active \in Tabs /\ split \in BOOLEAN /\ ticking \in BOOLEAN /\ dirty \in BOOLEAN
    /\ now \in Nat /\ timer \in Nat \cup {Off}
    /\ seen \in [Tabs -> Nat]

\* What a record says of the past when its tab was last seen at time; a tab that is
\* shown has no mark left.
TabPast(r, time) ==
    /\ r.last <= now /\ r.hiddenSince <= now /\ time <= now
    /\ r.done => r.doneAt <= now
    /\ r.visible => ~r.done
Past == \A tab \in Tabs : TabPast(run[tab], seen[tab])

Unmarked(r) == ~InRun(r) /\ ~FinishedHidden(r) /\ ~r.done

\* Output that may earn a mark came after its tab was seen: the tab was hidden, or the
\* run begun, since, or there is nothing to earn one.
News(r, time) ==
    /\ r.hiddenSince >= time \/ r.start >= time \/ Unmarked(r)
    /\ r.done => r.doneAt - Quiet >= time

\* Who is shown is looked up before time passes, except in split mode, which no tab
\* enters with a mark.
Looked ==
    /\ split => dirty /\ \A tab \in Tabs : run[tab].visible \/ Unmarked(run[tab])
    /\ ~split =>
         \A tab \in Tabs :
            /\ dirty \/ (run[tab].visible <=> tab = active)
            /\ run[tab].visible \/ News(run[tab], seen[tab])

\* The timer fires before a mark changes ...
Change(tab) == NextChange(Found(tab))
Timely(tab) ==
    /\ Change(tab) = 0 => ticking
    /\ Change(tab) > 0 => timer # Off /\ timer <= Change(tab)

\* ... and the bar shows it till then.
Mark(tab) == State(Found(tab))
Shown(tab) ==
    \/ drawn[tab] = Mark(tab)
    \/ finish = "steady" /\ drawn[tab] = "finished" /\ Mark(tab) = "done"

Timed ==
    /\ ticking => timer \in {0, 1}
    /\ ~split /\ timer # 0 =>
         \A tab \in Tabs : Timely(tab) /\ (~dirty => Shown(tab))

IInv == Types /\ Past /\ Looked /\ Timed

(***************************************************************************)
(* Lemmas on numbers                                                       *)
(***************************************************************************)

\* A set of natural numbers that is not empty has a least element, which Min is.
LEMMA Least ==
    ASSUME NEW S, S \subseteq Nat, S # {}
    PROVE  Min(S) \in S /\ \A y \in S : Min(S) <= y
<1>. DEFINE Less == {ss \in Nat \X Nat : ss[1] < ss[2]}
<1>1. IsWellFoundedOn(Less, Nat)
  BY NatLessThanWellFounded DEF OpToRel
<1>2. \A x, y \in Nat : x < y => <<x, y>> \in Less
  OBVIOUS
<1>. HIDE DEF Less
<1>3. \E x \in S : \A y \in S : <<y, x>> \notin Less
  BY <1>1, WFMin, Zenon
<1>4. \E x \in S : \A y \in S : x <= y
  <2>1. PICK x \in S : \A y \in S : <<y, x>> \notin Less
    BY <1>3
  <2>2. \A y \in S : ~(y < x)
    BY <2>1, <1>2
  <2>. QED
    BY <2>2
<1>. QED
  BY <1>4 DEF Min

\* The clock of a repeated flash moves by one, until it starts again.
LEMMA ModNext ==
    ASSUME NEW a \in Nat, NEW R \in Nat \ {0}
    PROVE  /\ a % R \in 0 .. R - 1
           /\ a < R => a % R = a
           /\ a % R < R - 1 => (a + 1) % R = (a % R) + 1
<1>1. a = R * (a \div R) + (a % R) /\ a % R \in 0 .. R - 1 /\ a \div R \in Int
  BY SMT
<1>2. /\ a + 1 = R * ((a + 1) \div R) + ((a + 1) % R)
      /\ (a + 1) % R \in 0 .. R - 1 /\ (a + 1) \div R \in Int
  BY SMT
<1>3. a < R => a % R = a
  BY SMT
<1>4. ASSUME a % R < R - 1 PROVE (a + 1) % R = (a % R) + 1
  <2>. DEFINE d == ((a + 1) \div R) - (a \div R)
              e == (a % R) + 1 - ((a + 1) % R)
  <2>1. R * d = e /\ d \in Int /\ e \in Int
    BY <1>1, <1>2
  <2>2. e > -R /\ e < R
    BY <1>1, <1>2, <1>4
  <2>. HIDE DEF d, e
  <2>3. d = 0
    <3>1. CASE d >= 1
      <4>1. R * d >= R
        BY <3>1, <2>1
      <4>. QED
        BY <4>1, <2>1, <2>2
    <3>2. CASE d <= -1
      <4>1. R * d <= -R
        BY <3>2, <2>1
      <4>. QED
        BY <4>1, <2>1, <2>2
    <3>. QED
      BY <3>1, <3>2, <2>1
  <2>4. e = 0
    BY <2>1, <2>3
  <2>. QED
    BY <2>4, <1>1, <1>2 DEF e
<1>. QED
  BY <1>1, <1>3, <1>4

(***************************************************************************)
(* Lemmas on records                                                       *)
(***************************************************************************)

LEMMA SetVisibleFacts ==
    ASSUME NEW r \in Records, NEW v \in BOOLEAN, now \in Nat
    PROVE  LET s == SetVisible(r, v) IN
           /\ s \in Records /\ (s.visible <=> v)
           /\ s.start = r.start /\ s.last = r.last /\ s.doneAt = r.doneAt
           /\ s.hiddenSince = IF ~v /\ r.visible THEN now ELSE r.hiddenSince
           /\ s.done <=> r.done /\ (v => r.visible)
           /\ (r.visible <=> v) => s = r
           /\ SetVisible(s, v) = s
<1>1. r.visible \in BOOLEAN /\ r.done \in BOOLEAN
  BY DEF Records
<1>2. CASE r.visible = v
  BY <1>1, <1>2 DEF SetVisible
<1>3. CASE r.visible # v /\ v
  BY <1>1, <1>3 DEF SetVisible, Records
<1>4. CASE r.visible # v /\ ~v
  BY <1>1, <1>4 DEF SetVisible, Records
<1>. QED
  BY <1>2, <1>3, <1>4

LEMMA RecordOutputFacts ==
    ASSUME NEW r \in Records, now \in Nat
    PROVE  LET s == RecordOutput(r)
               earned == ~r.visible /\ FinishedHidden(r) /\ ~InRun(r)
           IN /\ s \in Records /\ s.visible = r.visible /\ s.hiddenSince = r.hiddenSince
              /\ s.last = now
              /\ s.start = IF InRun(r) THEN r.start ELSE now
              /\ s.done = IF earned THEN TRUE ELSE r.done
              /\ s.doneAt = IF earned THEN r.last + Quiet ELSE r.doneAt
<1>1. Quiet \in Nat
  BY ActivityAssumption
<1>2. r.last + Quiet \in Int /\ now \in Nat
  BY <1>1 DEF Records
<1>3. CASE InRun(r)
  BY <1>2, <1>3 DEF RecordOutput, Records
<1>4. CASE ~InRun(r) /\ ~r.visible /\ FinishedHidden(r)
  BY <1>2, <1>4 DEF RecordOutput, Records
<1>5. CASE ~InRun(r) /\ ~(~r.visible /\ FinishedHidden(r))
  BY <1>2, <1>5 DEF RecordOutput, Records
<1>. QED
  BY <1>3, <1>4, <1>5

\* Output never changes what the bar shows of its tab.
LEMMA OutputKeepsState ==
    ASSUME NEW r \in Records, now \in Nat, r.last <= now
    PROVE  State(RecordOutput(r)) = State(r)
<1>. DEFINE s == RecordOutput(r)
<1>. SUFFICES State(s) = State(r)
  OBVIOUS
<1>1. MinRun \in Nat \ {0} /\ Quiet \in Nat
  BY ActivityAssumption
<1>2. /\ s \in Records /\ s.visible = r.visible /\ s.last = now
      /\ s.start = IF InRun(r) THEN r.start ELSE now
      /\ ~r.visible /\ FinishedHidden(r) /\ ~InRun(r) => s.done /\ s.doneAt = r.last + Quiet
      /\ ~(~r.visible /\ FinishedHidden(r) /\ ~InRun(r)) => s.done = r.done /\ s.doneAt = r.doneAt
  BY RecordOutputFacts
<1>3. /\ r.start \in Nat /\ r.last \in Nat /\ r.doneAt \in Int
      /\ r.done \in BOOLEAN /\ r.visible \in BOOLEAN
  BY DEF Records
<1>. HIDE DEF s
<1>4. CASE InRun(r)
  <2>1. InRun(s) /\ s.start = r.start /\ s.done = r.done /\ s.doneAt = r.doneAt
    BY <1>1, <1>2, <1>3, <1>4 DEF InRun
  <2>2. DoneAge(s) = DoneAge(r)
    BY <1>2, <1>3, <1>4, <2>1 DEF DoneAge
  <2>. QED
    BY <1>2, <1>4, <2>1, <2>2 DEF State
<1>5. CASE ~InRun(r)
  <2>1. ~FinishedHidden(s) /\ ~(now - s.start >= MinRun)
    BY <1>1, <1>2, <1>5 DEF FinishedHidden
  <2>2. DoneAge(s) = DoneAge(r)
    BY <1>1, <1>2, <1>3, <1>5, <2>1 DEF DoneAge
  <2>. QED
    BY <1>2, <1>5, <2>1, <2>2 DEF State
<1>. QED
  BY <1>4, <1>5

\* Looking up whether a tab is visible keeps what its record says, and so does output.
LEMMA LookingIsSafe ==
    ASSUME NEW r \in Records, NEW v \in BOOLEAN, NEW time \in Nat, now \in Nat,
           TabPast(r, time), v \/ r.visible \/ News(r, time)
    PROVE  LET s == SetVisible(r, v) IN
           TabPast(s, time) /\ (s.visible \/ News(s, time))
<1>. DEFINE s == SetVisible(r, v)
<1>. SUFFICES TabPast(s, time) /\ (s.visible \/ News(s, time))
  OBVIOUS
<1>1. /\ s \in Records /\ (s.visible <=> v)
      /\ s.start = r.start /\ s.last = r.last /\ s.doneAt = r.doneAt
      /\ s.hiddenSince = IF ~v /\ r.visible THEN now ELSE r.hiddenSince
      /\ s.done <=> r.done /\ (v => r.visible)
      /\ (r.visible <=> v) => s = r
  BY SetVisibleFacts
<1>2. r.hiddenSince \in Nat /\ r.visible \in BOOLEAN
  BY DEF Records
<1>. HIDE DEF s
<1>3. TabPast(s, time)
  BY <1>1, <1>2 DEF TabPast
<1>4. CASE ~v /\ r.visible
  BY <1>1, <1>4 DEF News, TabPast
<1>5. CASE ~v /\ ~r.visible
  <2>1. s = r
    BY <1>1, <1>2, <1>5, Zenon
  <2>. QED
    BY <1>5, <2>1
<1>. QED
  BY <1>1, <1>2, <1>3, <1>4, <1>5

LEMMA OutputIsSafe ==
    ASSUME NEW r \in Records, NEW time \in Nat, now \in Nat,
           TabPast(r, time), r.visible \/ News(r, time)
    PROVE  LET s == RecordOutput(r) IN
           TabPast(s, time) /\ (s.visible \/ News(s, time))
<1>. DEFINE s == RecordOutput(r)
            earned == ~r.visible /\ FinishedHidden(r) /\ ~InRun(r)
<1>. SUFFICES TabPast(s, time) /\ (s.visible \/ News(s, time))
  OBVIOUS
<1>1. MinRun \in Nat \ {0} /\ Quiet \in Nat
  BY ActivityAssumption
<1>2. /\ s \in Records /\ s.visible = r.visible /\ s.hiddenSince = r.hiddenSince
      /\ s.last = now
      /\ s.start = IF InRun(r) THEN r.start ELSE now
      /\ earned => s.done /\ s.doneAt = r.last + Quiet
      /\ ~earned => s.done = r.done /\ s.doneAt = r.doneAt
  BY RecordOutputFacts
<1>3. /\ r.start \in Nat /\ r.last \in Nat /\ r.hiddenSince \in Nat /\ r.doneAt \in Int
      /\ r.done \in BOOLEAN /\ r.visible \in BOOLEAN
  BY DEF Records
<1>. HIDE DEF s
<1>4. earned => r.last + Quiet <= now
  BY <1>1, <1>3 DEF FinishedHidden, InRun
<1>5. TabPast(s, time)
  BY <1>1, <1>2, <1>3, <1>4 DEF TabPast
<1>6. ASSUME ~r.visible PROVE News(s, time)
  <2>1. s.hiddenSince >= time \/ s.start >= time
    BY <1>2, <1>3, <1>6 DEF News, Unmarked, TabPast
  <2>2. s.done => s.doneAt - Quiet >= time
    <3>1. CASE earned
      <4>1. r.last >= time
        BY <1>1, <1>3, <1>6, <3>1 DEF News, Unmarked, FinishedHidden
      <4>. QED
        BY <1>1, <1>2, <1>3, <3>1, <4>1
    <3>2. CASE ~earned
      BY <1>2, <1>6, <3>2 DEF News
    <3>. QED
      BY <3>1, <3>2
  <2>. QED
    BY <2>1, <2>2 DEF News
<1>. QED
  BY <1>2, <1>5, <1>6

(***************************************************************************)
(* A mark as a function of time                                            *)
(***************************************************************************)

InRunAt(r, t) == r.last > 0 /\ t - r.last < Quiet

AgeAt(r, t) ==
    IF r.visible THEN -1
    ELSE IF ~InRunAt(r, t) /\ FinishedHidden(r) THEN t - (r.last + Quiet)
    ELSE IF r.done THEN t - r.doneAt ELSE -1

StateAt(r, t) ==
    IF r.visible THEN "none"
    ELSE IF InRunAt(r, t) /\ t - r.start >= MinRun THEN "working"
    ELSE IF AgeAt(r, t) < 0 THEN "none"
    ELSE IF AgeAt(r, t) < Flash THEN "finished" ELSE "done"

ChangeAt(r, t, end) ==
    LET age == AgeAt(r, t)
    IN IF r.visible THEN -1
       ELSE IF InRunAt(r, t) THEN 0
       ELSE IF age < 0 \/ end = "steady" THEN -1
       ELSE IF end = "pulse" \/ age < Flash THEN 0
       ELSE IF end = "flash" THEN -1
       ELSE IF Reflashes(age) THEN 0 ELSE Repeat - (age % Repeat)

\* The age of a mark grows with the clock when there is no output.
LEMMA Ages ==
    ASSUME NEW r \in Records, NEW t \in Nat, r.last <= t, r.done => r.doneAt <= t
    PROVE  /\ AgeAt(r, t) \in Nat \cup {-1}
           /\ ~InRunAt(r, t) =>
                /\ ~InRunAt(r, t + 1)
                /\ AgeAt(r, t + 1) = IF AgeAt(r, t) < 0 THEN -1 ELSE AgeAt(r, t) + 1
<1>1. MinRun \in Nat \ {0} /\ Quiet \in Nat
  BY ActivityAssumption
<1>2. /\ r.start \in Nat /\ r.last \in Nat /\ r.hiddenSince \in Nat /\ r.doneAt \in Int
      /\ r.done \in BOOLEAN /\ r.visible \in BOOLEAN
  BY DEF Records
<1>3. ~InRunAt(r, t) /\ FinishedHidden(r) => r.last + Quiet <= t
  BY <1>1, <1>2 DEF InRunAt, FinishedHidden
<1>4. ~InRunAt(r, t) => ~InRunAt(r, t + 1)
  BY <1>1, <1>2 DEF InRunAt
<1>. QED
  BY <1>1, <1>2, <1>3, <1>4 DEF AgeAt

\* When the timer need not tick, the time to the next change runs down, and the mark
\* stays as it is.
LEMMA Later ==
    ASSUME NEW r \in Records, NEW t \in Nat, NEW end,
           r.last <= t, r.done => r.doneAt <= t, ChangeAt(r, t, end) # 0
    PROVE  /\ ChangeAt(r, t, end) \in Nat \cup {-1}
           /\ ChangeAt(r, t, end) = -1 => ChangeAt(r, t + 1, end) = -1
           /\ ChangeAt(r, t, end) > 1 => ChangeAt(r, t + 1, end) = ChangeAt(r, t, end) - 1
           /\ \/ StateAt(r, t + 1) = StateAt(r, t)
              \/ end = "steady" /\ StateAt(r, t) = "finished" /\ StateAt(r, t + 1) = "done"
<1>. DEFINE age == AgeAt(r, t)
            later == AgeAt(r, t + 1)
<1>1. {Flash, Reflash} \subseteq Nat /\ Repeat \in Nat \ {0}
  BY ActivityAssumption
<1>2. CASE r.visible
  BY <1>2 DEF ChangeAt, StateAt
<1>3. ASSUME ~r.visible
      PROVE  /\ age \in Nat \cup {-1} /\ ~InRunAt(r, t) /\ ~InRunAt(r, t + 1)
             /\ later = IF age < 0 THEN -1 ELSE age + 1
  <2>1. ~InRunAt(r, t)
    BY <1>3 DEF ChangeAt
  <2>. QED
    BY <2>1, Ages
<1>4. CASE ~r.visible /\ age < 0
  BY <1>3, <1>4 DEF ChangeAt, StateAt
<1>5. ASSUME ~r.visible, age >= 0
      PROVE  /\ \/ StateAt(r, t + 1) = StateAt(r, t)
                \/ end = "steady" /\ StateAt(r, t) = "finished" /\ StateAt(r, t + 1) = "done"
             /\ age \in Nat /\ later = age + 1 /\ (end = "steady" \/ age >= Flash)
  <2>1. age \in Nat /\ later = age + 1
    BY <1>3, <1>5
  <2>2. end = "steady" \/ age >= Flash
    BY <1>1, <1>3, <1>5, <2>1 DEF ChangeAt
  <2>3. \/ StateAt(r, t + 1) = StateAt(r, t)
        \/ end = "steady" /\ StateAt(r, t) = "finished" /\ StateAt(r, t + 1) = "done"
    <3>. HIDE DEF age, later
    <3>. QED
      BY <1>1, <1>3, <1>5, <2>1, <2>2 DEF StateAt, age, later
  <2>. QED
    BY <2>1, <2>2, <2>3
<1>6. CASE ~r.visible /\ age >= 0 /\ end \in {"steady", "flash"}
  BY <1>1, <1>3, <1>5, <1>6 DEF ChangeAt
<1>7. CASE ~r.visible /\ age >= 0 /\ end \notin {"steady", "flash"}
  <2>1. age \in Nat /\ later = age + 1 /\ age >= Flash
    BY <1>5, <1>7
  <2>2. ~Reflashes(age) /\ ChangeAt(r, t, end) = Repeat - (age % Repeat)
    BY <1>3, <1>7, <2>1, <1>1 DEF ChangeAt
  <2>3. /\ age % Repeat \in 0 .. Repeat - 1
        /\ age < Repeat => age % Repeat = age
        /\ age % Repeat < Repeat - 1 => (age + 1) % Repeat = (age % Repeat) + 1
    BY <1>1, <2>1, ModNext
  <2>4. ASSUME ChangeAt(r, t, end) > 1 PROVE ~Reflashes(later)
    BY <1>1, <2>1, <2>2, <2>3, <2>4 DEF Reflashes
  <2>5. ASSUME ChangeAt(r, t, end) > 1
        PROVE  ChangeAt(r, t + 1, end) = Repeat - (later % Repeat)
    <3>1. ~Reflashes(later) /\ later >= Flash /\ ~(later < 0)
      BY <1>1, <2>1, <2>4, <2>5
    <3>2. end # "pulse"
      BY <1>3, <1>7, <2>1, <1>1 DEF ChangeAt
    <3>. QED
      BY <1>3, <1>7, <3>1, <3>2, <1>1, <2>1 DEF ChangeAt
  <2>6. ChangeAt(r, t, end) \in Nat /\ ChangeAt(r, t, end) # -1
    BY <1>1, <2>2, <2>3
  <2>. QED
    BY <1>1, <1>5, <1>7, <2>1, <2>2, <2>3, <2>5, <2>6
<1>. QED
  BY <1>2, <1>3, <1>4, <1>5, <1>6, <1>7

LEMMA Changes ==
    ASSUME NEW r \in Records, NEW t \in Nat, NEW end, r.last <= t, r.done => r.doneAt <= t
    PROVE  /\ ChangeAt(r, t, end) \in Nat \cup {-1}
           /\ r.visible => ChangeAt(r, t, end) = -1 /\ StateAt(r, t) = "none"
<1>1. CASE ChangeAt(r, t, end) = 0
  BY <1>1 DEF ChangeAt, StateAt
<1>2. CASE ChangeAt(r, t, end) # 0
  <2>1. ChangeAt(r, t, end) \in Nat \cup {-1}
    BY <1>2, Later
  <2>. QED
    BY <2>1 DEF ChangeAt, StateAt
<1>. QED
  BY <1>1, <1>2

LEMMA AtNow ==
    ASSUME NEW r
    PROVE  NextChange(r) = ChangeAt(r, now, finish) /\ State(r) = StateAt(r, now)
  BY DEF NextChange, ChangeAt, State, StateAt, DoneAge, AgeAt, InRun, InRunAt

LEMMA AtNext ==
    ASSUME NEW tab \in Tabs
    PROVE  /\ Change(tab)' = ChangeAt(Found(tab)', now', finish')
           /\ Mark(tab)' = StateAt(Found(tab)', now')
  BY DEF Change, Mark, NextChange, ChangeAt, State, StateAt, DoneAge, AgeAt, InRun, InRunAt

\* Most steps leave the clock alone.
LEMMA SameClock ==
    ASSUME now' = now, NEW tab \in Tabs
    PROVE  /\ TabPast(run[tab], seen[tab])' <=> TabPast(run'[tab], seen'[tab])
           /\ News(run[tab], seen[tab])' <=> News(run'[tab], seen'[tab])
           /\ Unmarked(run[tab])' <=> Unmarked(run'[tab])
           /\ Found(tab)' = SetVisible(run'[tab], Visible(tab)')
  BY DEF TabPast, News, Unmarked, InRun, FinishedHidden, Found, SetVisible

\* What is known of each tab, whoever is visible
LEMMA TabFacts ==
    ASSUME Types, Past, Looked, NEW tab \in Tabs, NEW v \in BOOLEAN
    PROVE  /\ run[tab] \in Records /\ seen[tab] \in Nat /\ Visible(tab) \in BOOLEAN
           /\ TabPast(run[tab], seen[tab])
           /\ ~split => run[tab].visible \/ News(run[tab], seen[tab])
           /\ LET s == SetVisible(run[tab], v) IN
              /\ s \in Records /\ (s.visible <=> v) /\ SetVisible(s, v) = s
              /\ TabPast(s, seen[tab])
              /\ v \/ ~split => s.visible \/ News(s, seen[tab])
              /\ ChangeAt(s, now, finish) \in Nat \cup {-1}
              /\ v => ChangeAt(s, now, finish) = -1 /\ StateAt(s, now) = "none"
<1>. DEFINE s == SetVisible(run[tab], v)
<1>1. run[tab] \in Records /\ seen[tab] \in Nat /\ now \in Nat
  BY DEF Types
<1>2. Visible(tab) \in BOOLEAN
  BY DEF Visible, Types
<1>3. TabPast(run[tab], seen[tab]) /\ (~split => run[tab].visible \/ News(run[tab], seen[tab]))
  BY DEF Past, Looked
<1>4. s \in Records /\ (s.visible <=> v) /\ SetVisible(s, v) = s /\ s.last = run[tab].last
  BY <1>1, SetVisibleFacts
<1>5. ASSUME v \/ ~split PROVE TabPast(s, seen[tab]) /\ (s.visible \/ News(s, seen[tab]))
  BY <1>1, <1>3, <1>5, LookingIsSafe
<1>6. TabPast(s, seen[tab])
  <2>1. now \in Nat /\ run[tab].hiddenSince \in Nat
    BY <1>1 DEF Records
  <2>. QED
    BY <1>1, <1>3, <2>1, SetVisibleFacts DEF TabPast
<1>7. /\ ChangeAt(s, now, finish) \in Nat \cup {-1}
      /\ s.visible => ChangeAt(s, now, finish) = -1 /\ StateAt(s, now) = "none"
  <2>. HIDE DEF s
  <2>1. s.last <= now /\ (s.done => s.doneAt <= now)
    BY <1>6 DEF TabPast
  <2>. QED
    BY <1>1, <1>4, <2>1, Changes
<1>. QED
  BY <1>1, <1>2, <1>3, <1>4, <1>5, <1>6, <1>7

\* A change below 0 is none at all.
LEMMA Never == ASSUME NEW c \in Nat \cup {-1}, c < 0 PROVE c = -1
  OBVIOUS

LEMMA TickingIsTimely ==
    ASSUME NEW tab \in Tabs, ticking', timer' = 1, Change(tab)' \in Nat \cup {-1}
    PROVE  Timely(tab)'
  BY DEF Timely, Off

(***************************************************************************)
(* The steps                                                               *)
(***************************************************************************)

LEMMA Initially == Init => IInv
<1>. SUFFICES ASSUME Init PROVE IInv
  OBVIOUS
<1>1. MinRun \in Nat \ {0} /\ Quiet \in Nat
  BY ActivityAssumption
<1>2. Types /\ Past
  <2>1. run \in [Tabs -> Records]
    BY DEF Init, Records
  <2>2. /\ active \in Tabs /\ seen \in [Tabs -> Nat] /\ now \in Nat /\ timer \in Nat \cup {Off}
        /\ split \in BOOLEAN /\ ticking \in BOOLEAN /\ dirty \in BOOLEAN
    BY DEF Init, Off
  <2>3. Past
    BY DEF Init, Past, TabPast
  <2>. QED
    BY <2>1, <2>2, <2>3 DEF Types
<1>3. Looked
  BY DEF Init, Looked, News
<1>4. Timed
  <2>1. ASSUME NEW tab \in Tabs PROVE Change(tab) = -1
    <3>1. CASE tab = active
      BY <3>1 DEF Init, Change, Found, Visible, SetVisible, NextChange
    <3>2. CASE tab # active
      <4>1. /\ ~Found(tab).visible /\ Found(tab).last = 0 /\ Found(tab).start = 0
            /\ ~Found(tab).done
        BY <3>2 DEF Init, Found, Visible, SetVisible
      <4>. QED
        BY <1>1, <4>1 DEF Change, NextChange, InRun, DoneAge, FinishedHidden
    <3>. QED
      BY <3>1, <3>2
  <2>. QED
    BY <2>1 DEF Init, Timed, Timely
<1>. QED
  BY <1>2, <1>3, <1>4 DEF IInv

LEMMA OutputStep ==
    ASSUME IInv, NEW tab \in Tabs, TabOnOutput(tab)
    PROVE  IInv'
<1>. DEFINE v  == Visible(tab)
            s == SetVisible(run[tab], v)
            r == RecordOutput(s)
<1>1. now' = now /\ now \in Nat /\ seen' = seen /\ split' = split /\ active' = active
      /\ finish' = finish /\ drawn' = drawn
  BY DEF TabOnOutput, IInv, Types
<1>2. /\ s \in Records /\ (s.visible <=> v) /\ v \in BOOLEAN
      /\ TabPast(s, seen[tab]) /\ (s.visible \/ News(s, seen[tab]))
  <2>1. v \in BOOLEAN /\ (split => v)
    BY DEF Visible, IInv, Types
  <2>. QED
    BY <2>1, TabFacts DEF IInv
<1>3. /\ r \in Records /\ (r.visible <=> v)
      /\ TabPast(r, seen[tab]) /\ (r.visible \/ News(r, seen[tab]))
  <2>. HIDE DEF s, v
  <2>1. seen[tab] \in Nat
    BY DEF IInv, Types
  <2>. QED
    BY <1>1, <1>2, <2>1, OutputIsSafe, RecordOutputFacts
<1>4. /\ run' \in [Tabs -> Records] /\ run'[tab] = r
      /\ \A u \in Tabs \ {tab} : run'[u] = run[u]
  <2>. HIDE DEF r
  <2>1. run' = [run EXCEPT ![tab] = r]
    BY DEF TabOnOutput, r
  <2>. QED
    BY <1>3, <2>1 DEF IInv, Types
<1>5. \/ ~v /\ ~ticking /\ dirty' = TRUE /\ timer' = 1 /\ ticking' = TRUE
      \/ (v \/ ticking) /\ dirty' = dirty /\ timer' = timer /\ ticking' = ticking
  BY DEF TabOnOutput, Arm
<1>. HIDE DEF r, s
<1>6. Types'
  <2>1. /\ dirty \in BOOLEAN /\ ticking \in BOOLEAN /\ timer \in Nat \cup {Off}
        /\ split \in BOOLEAN /\ active \in Tabs /\ seen \in [Tabs -> Nat]
    BY DEF IInv, Types
  <2>2. dirty' \in BOOLEAN /\ ticking' \in BOOLEAN /\ timer' \in Nat \cup {Off}
    <3>1. CASE ~v /\ ~ticking /\ dirty' = TRUE /\ timer' = 1 /\ ticking' = TRUE
      BY <3>1
    <3>2. CASE (v \/ ticking) /\ dirty' = dirty /\ timer' = timer /\ ticking' = ticking
      BY <2>1, <3>2
    <3>. QED
      BY <1>5, <3>1, <3>2
  <2>. QED
    BY <1>1, <1>4, <2>1, <2>2 DEF Types, Off
<1>7. \A u \in Tabs : TabPast(run'[u], seen'[u])
  BY <1>1, <1>3, <1>4 DEF IInv, Past
<1>8. Past'
  BY <1>1, <1>7, SameClock DEF Past
<1>9. \A u \in Tabs : Visible(u)' = Visible(u)
  BY <1>1 DEF Visible
<1>10. Looked'
  <2>1. split => \A u \in Tabs : run'[u].visible \/ Unmarked(run'[u])
    BY <1>3, <1>4 DEF IInv, Looked, Visible
  <2>2. ~split => \A u \in Tabs : run'[u].visible \/ News(run'[u], seen'[u])
    BY <1>1, <1>3, <1>4 DEF IInv, Looked
  <2>3. ~split => \A u \in Tabs : dirty' \/ (run'[u].visible <=> u = active')
    BY <1>1, <1>3, <1>4, <1>5 DEF IInv, Looked, Visible
  <2>4. split => dirty'
    BY <1>5 DEF IInv, Looked
  <2>. QED
    BY <1>1, <2>1, <2>2, <2>3, <2>4, SameClock DEF Looked
<1>11. Found(tab)' = r /\ Found(tab) = s /\ \A u \in Tabs \ {tab} : Found(u)' = Found(u)
  <2>1. Found(tab)' = SetVisible(r, v)
    BY <1>1, <1>4, <1>9, SameClock
  <2>2. SetVisible(r, v) = r
    BY <1>1, <1>2, <1>3, SetVisibleFacts
  <2>3. \A u \in Tabs \ {tab} : Found(u)' = SetVisible(run[u], Visible(u))
    BY <1>1, <1>4, <1>9, SameClock
  <2>. QED
    BY <2>1, <2>2, <2>3 DEF Found, s
<1>12. \A u \in Tabs \ {tab} : Change(u)' = Change(u) /\ Mark(u)' = Mark(u)
  BY <1>1, <1>11, AtNow, AtNext DEF Change, Mark
<1>13. \A u \in Tabs : Change(u)' \in Nat \cup {-1}
  <2>1. Change(tab)' \in Nat \cup {-1}
    <3>1. r.last <= now /\ (r.done => r.doneAt <= now)
      BY <1>3 DEF TabPast
    <3>. QED
      BY <1>1, <1>3, <1>11, <3>1, AtNext, Changes
  <2>2. \A u \in Tabs \ {tab} : Change(u) \in Nat \cup {-1}
    BY TabFacts, AtNow DEF Change, Found, IInv
  <2>. QED
    BY <1>12, <2>1, <2>2
<1>14. Timed'
  <2>1. CASE ticking' /\ timer' = 1 /\ dirty'
    BY <2>1, <1>13, TickingIsTimely DEF Timed
  <2>2. CASE (v \/ ticking) /\ dirty' = dirty /\ timer' = timer /\ ticking' = ticking
    <3>. SUFFICES ASSUME ~split, timer # 0, NEW u \in Tabs
                  PROVE  Timely(u)' /\ (~dirty' => Shown(u)')
      BY <1>1, <2>2 DEF IInv, Timed
    <3>1. Timely(u) /\ (~dirty => Shown(u)) /\ (ticking => timer = 1)
      BY DEF IInv, Timed
    <3>2. CASE u # tab
      BY <1>1, <1>12, <2>2, <3>1, <3>2 DEF Timely, Shown
    <3>3. CASE u = tab
      <4>1. Mark(tab)' = Mark(tab)
        <5>1. State(r) = State(s)
          <6>1. s.last <= now
            BY <1>2 DEF TabPast
          <6>. QED
            BY <1>1, <1>2, <6>1, OutputKeepsState DEF r
        <5>. QED
          BY <1>1, <1>11, <5>1, AtNow, AtNext DEF Mark
      <4>2. Timely(tab)'
        <5>1. CASE ticking
          BY <1>13, <2>2, <3>1, <5>1, TickingIsTimely
        <5>2. CASE v
          <6>1. Change(tab)' = -1
            <7>1. r.last <= now /\ (r.done => r.doneAt <= now)
              BY <1>3 DEF TabPast
            <7>. QED
              BY <1>1, <1>3, <1>11, <5>2, <7>1, AtNext, Changes
          <6>. QED
            BY <6>1 DEF Timely
        <5>. QED
          BY <2>2, <5>1, <5>2
      <4>. QED
        BY <1>1, <2>2, <3>1, <3>3, <4>1, <4>2 DEF Shown
    <3>. QED
      BY <3>2, <3>3
  <2>. QED
    BY <1>5, <2>1, <2>2
<1>. QED
  BY <1>6, <1>8, <1>10, <1>14 DEF IInv

LEMMA SwitchStep ==
    ASSUME Admitted = {}, IInv, NEW tab \in Tabs, DoTabSwitch(tab)
    PROVE  IInv'
<1>1. /\ now' = now /\ now \in Nat /\ seen' = seen /\ split' = split /\ active' = tab
      /\ finish' = finish /\ run' = run /\ timer' = timer /\ ticking' = ticking
      /\ dirty' = TRUE /\ tab # active
  BY DEF DoTabSwitch, IInv, Types
<1>2. Types' /\ Past'
  BY <1>1, SameClock DEF IInv, Types, Past
<1>3. Looked'
  BY <1>1, SameClock DEF IInv, Looked
<1>4. ASSUME NEW u \in Tabs, ~split, timer # 0 PROVE Timely(u)'
  <2>1. ticking => timer' = 1
    BY <1>1, <1>4 DEF IInv, Timed
  <2>2. CASE u # active /\ u # tab
    <3>1. Found(u)' = Found(u)
      BY <1>1, <1>4, <2>2, SameClock DEF Found, Visible
    <3>2. Change(u)' = Change(u)
      BY <1>1, <3>1, AtNow, AtNext DEF Change
    <3>3. Timely(u)
      BY <1>4 DEF IInv, Timed
    <3>. QED
      BY <1>1, <3>2, <3>3 DEF Timely
  <2>3. CASE u = tab
    <3>1. Found(u)' = SetVisible(run[u], TRUE)
      BY <1>1, <1>4, <2>3, SameClock DEF Visible
    <3>2. Change(u)' = -1
      BY <1>1, <3>1, AtNext, TabFacts DEF IInv
    <3>. QED
      BY <3>2 DEF Timely
  <2>4. CASE u = active
    <3>1. Found(u)' = SetVisible(run[u], FALSE)
      <4>1. ~Visible(u)'
        BY <1>1, <1>4, <2>4 DEF Visible
      <4>2. Visible(u)' = FALSE
        BY <4>1 DEF Visible
      <4>. QED
        BY <1>1, <4>2, SameClock
    <3>2. Change(u)' = NextChange(SetVisible(run[u], FALSE)) /\ Change(u)' \in Nat \cup {-1}
      BY <1>1, <3>1, AtNow, AtNext, TabFacts DEF IInv
    <3>3. ticking \/ Change(u)' < 0
      BY <1>4, <2>4, <3>2 DEF DoTabSwitch, Leaves
    <3>4. CASE ticking
      BY <1>1, <2>1, <3>2, <3>4, TickingIsTimely
    <3>5. CASE Change(u)' < 0
      <4>1. Change(u)' = -1
        BY <3>2, <3>5, Never
      <4>. QED
        BY <4>1 DEF Timely
    <3>. QED
      BY <3>3, <3>4, <3>5
  <2>. QED
    BY <2>2, <2>3, <2>4
<1>5. Timed'
  BY <1>1, <1>4 DEF IInv, Timed
<1>. QED
  BY <1>2, <1>3, <1>5 DEF IInv

LEMMA SplitStep ==
    ASSUME Admitted = {}, IInv, TabSplit
    PROVE  IInv'
<1>1. /\ now' = now /\ now \in Nat /\ seen' = seen /\ split' = ~split /\ active' = active
      /\ finish' = finish /\ run' = run /\ timer' = timer /\ ticking' = ticking
      /\ dirty' = TRUE
  BY DEF TabSplit, IInv, Types
<1>2. Types' /\ Past'
  BY <1>1, SameClock DEF IInv, Types, Past
<1>3. CASE ~split
  <2>1. ASSUME NEW u \in Tabs PROVE run[u].visible \/ Unmarked(run[u])
    <3>1. ~InRun(run[u]) /\ DoneAge(run[u]) < 0
      BY <1>3 DEF TabSplit
    <3>2. /\ run[u].last \in Nat /\ run[u].doneAt \in Int /\ run[u].hiddenSince \in Nat
          /\ run[u].last <= now /\ (run[u].done => run[u].doneAt <= now)
      BY DEF IInv, Types, Records, Past, TabPast
    <3>3. ASSUME FinishedHidden(run[u]), ~run[u].visible PROVE FALSE
      <4>1. Quiet \in Nat
        BY ActivityAssumption
      <4>2. run[u].last + Quiet <= now
        BY <1>1, <3>1, <3>2, <3>3, <4>1 DEF InRun, FinishedHidden
      <4>3. DoneAge(run[u]) = now - (run[u].last + Quiet)
        BY <3>1, <3>3 DEF DoneAge
      <4>. QED
        BY <1>1, <3>1, <3>2, <4>1, <4>2, <4>3
    <3>4. ASSUME run[u].done, ~run[u].visible PROVE FALSE
      <4>1. DoneAge(run[u]) = now - run[u].doneAt
        BY <3>3, <3>4 DEF DoneAge
      <4>. QED
        BY <1>1, <3>1, <3>2, <3>4, <4>1
    <3>. QED
      BY <3>1, <3>3, <3>4 DEF Unmarked
  <2>2. Looked'
    BY <1>1, <1>3, <2>1, SameClock DEF Looked
  <2>. QED
    BY <1>1, <1>2, <1>3, <2>2 DEF IInv, Timed
<1>4. CASE split
  <2>1. Looked'
    <3>1. ASSUME NEW u \in Tabs PROVE run[u].visible \/ News(run[u], seen[u])
      <4>1. run[u].visible \/ Unmarked(run[u])
        BY <1>4 DEF IInv, Looked
      <4>. QED
        BY <4>1 DEF Unmarked, News
    <3>. QED
      BY <1>1, <1>4, <3>1, SameClock DEF Looked
  <2>2. ASSUME NEW u \in Tabs, timer # 0 PROVE Timely(u)'
    <3>1. ticking => timer' = 1
      BY <1>1, <2>2 DEF IInv, Timed
    <3>2. CASE u = active
      <4>1. Found(u)' = SetVisible(run[u], TRUE)
        BY <1>1, <1>4, <3>2, SameClock DEF Visible
      <4>2. Change(u)' = -1
        BY <1>1, <4>1, AtNext, TabFacts DEF IInv
      <4>. QED
        BY <4>2 DEF Timely
    <3>3. CASE u # active
      <4>1. Visible(u)' = FALSE
        BY <1>1, <1>4, <3>3 DEF Visible
      <4>2. Found(u)' = SetVisible(run[u], FALSE)
        BY <1>1, <4>1, SameClock
      <4>3. Change(u)' = NextChange(SetVisible(run[u], FALSE)) /\ Change(u)' \in Nat \cup {-1}
        BY <1>1, <4>2, AtNow, AtNext, TabFacts DEF IInv
      <4>4. ticking \/ Change(u)' < 0
        BY <1>4, <3>3, <4>3 DEF TabSplit, Leaves
      <4>5. CASE ticking
        BY <1>1, <3>1, <4>3, <4>5, TickingIsTimely
      <4>6. CASE Change(u)' < 0
        <5>1. Change(u)' = -1
          BY <4>3, <4>6, Never
        <5>. QED
          BY <5>1 DEF Timely
      <4>. QED
        BY <4>4, <4>5, <4>6
    <3>. QED
      BY <3>2, <3>3
  <2>3. Timed'
    BY <1>1, <2>2 DEF IInv, Timed
  <2>. QED
    BY <1>2, <2>1, <2>3 DEF IInv
<1>. QED
  BY <1>3, <1>4

\* Who is visible is looked up for every tab, by the timer and when the bar is drawn.
LEMMA Lookup ==
    ASSUME IInv, run' = Updated(run), UNCHANGED <<active, split, now, finish, seen>>
    PROVE  /\ run' \in [Tabs -> Records] /\ Past'
           /\ \A tab \in Tabs :
                /\ run'[tab] = Found(tab) /\ (run'[tab].visible <=> Visible(tab))
                /\ ~split => run'[tab].visible \/ News(run'[tab], seen'[tab])
                /\ Found(tab)' = Found(tab) /\ Change(tab)' = Change(tab)
                /\ Mark(tab)' = Mark(tab) /\ Change(tab) \in Nat \cup {-1}
<1>1. now \in Nat
  BY DEF IInv, Types
<1>2. ASSUME NEW tab \in Tabs
      PROVE  /\ run'[tab] = Found(tab) /\ Found(tab) \in Records
             /\ (run'[tab].visible <=> Visible(tab))
             /\ TabPast(run'[tab], seen'[tab])
             /\ ~split => run'[tab].visible \/ News(run'[tab], seen'[tab])
             /\ Found(tab)' = Found(tab) /\ Change(tab) \in Nat \cup {-1}
  <2>1. run'[tab] = Found(tab)
    BY DEF Updated, Found
  <2>2. Visible(tab) \in BOOLEAN /\ Visible(tab)' = Visible(tab)
    BY DEF Visible, IInv, Types
  <2>3. /\ Found(tab) \in Records /\ (Found(tab).visible <=> Visible(tab))
        /\ SetVisible(Found(tab), Visible(tab)) = Found(tab)
        /\ TabPast(Found(tab), seen[tab])
        /\ ~split => Found(tab).visible \/ News(Found(tab), seen[tab])
        /\ ChangeAt(Found(tab), now, finish) \in Nat \cup {-1}
    BY <2>2, TabFacts DEF IInv, Found
  <2>4. Found(tab)' = Found(tab)
    BY <2>1, <2>2, <2>3, SameClock
  <2>. QED
    BY <2>1, <2>2, <2>3, <2>4, AtNow DEF Change
<1>3. Past'
  BY <1>2, SameClock DEF Past
<1>4. run' \in [Tabs -> Records]
  BY <1>2 DEF Updated
<1>5. \A tab \in Tabs : Change(tab)' = Change(tab) /\ Mark(tab)' = Mark(tab)
  BY <1>2, AtNow, AtNext DEF Change, Mark
<1>. QED
  BY <1>2, <1>3, <1>4, <1>5

LEMMA PulseStep ==
    ASSUME IInv, FdmPulseTimer
    PROVE  IInv'
<1>1. /\ run' = Updated(run) /\ UNCHANGED <<active, split, now, finish, seen>> /\ dirty' = TRUE
  BY DEF FdmPulseTimer
<1>2. \A tab \in Tabs : Change(tab)' = NextChange(run'[tab]) /\ Change(tab)' \in Nat \cup {-1}
  BY <1>1, Lookup, AtNow, AtNext
<1>. DEFINE changes == {NextChange(run'[tab]) : tab \in Tabs} \ {-1}
<1>3. changes \subseteq Nat
  BY <1>2
<1>4. timer' \in Nat \cup {Off} /\ ticking' \in BOOLEAN /\ (ticking' => timer' = 1)
  <2>1. CASE changes = {}
    BY <2>1 DEF FdmPulseTimer
  <2>2. CASE changes # {}
    <3>1. Min(changes) \in Nat
      BY <1>3, <2>2, Least
    <3>2. Arm(Min(changes))
      BY <2>2 DEF FdmPulseTimer
    <3>. QED
      BY <3>1, <3>2 DEF Arm
  <2>. QED
    BY <2>1, <2>2
<1>5. ASSUME NEW tab \in Tabs PROVE Timely(tab)'
  <2>1. CASE Change(tab)' = -1
    BY <2>1 DEF Timely
  <2>2. CASE Change(tab)' # -1
    <3>1. Change(tab)' \in changes
      BY <1>2, <2>2
    <3>2. Min(changes) \in Nat /\ Min(changes) <= Change(tab)' /\ Change(tab)' \in Nat
      BY <1>3, <3>1, Least
    <3>3. Arm(Min(changes))
      BY <3>1 DEF FdmPulseTimer
    <3>4. /\ timer' = (IF Min(changes) = 0 THEN 1 ELSE Min(changes))
          /\ ticking' = (Min(changes) = 0)
      BY <3>3 DEF Arm
    <3>. HIDE DEF changes
    <3>5. CASE Min(changes) = 0
      BY <1>2, <3>4, <3>5, TickingIsTimely
    <3>6. CASE Min(changes) # 0
      <4>1. Change(tab)' # 0 /\ timer' # Off /\ timer' <= Change(tab)'
        BY <3>2, <3>4, <3>6 DEF Off
      <4>. QED
        BY <4>1 DEF Timely
    <3>. QED
      BY <3>5, <3>6
  <2>. QED
    BY <2>1, <2>2
<1>6. Types'
  BY <1>1, <1>4, Lookup DEF IInv, Types
<1>7. Looked'
  BY <1>1, Lookup, SameClock DEF Looked, Visible
<1>8. Timed'
  BY <1>1, <1>4, <1>5 DEF Timed
<1>. QED
  BY <1>1, <1>6, <1>7, <1>8, Lookup DEF IInv

LEMMA RenderStep ==
    ASSUME IInv, RenderTabBar
    PROVE  IInv'
<1>1. /\ run' = Updated(run) /\ UNCHANGED <<active, split, now, timer, ticking, finish, seen>>
      /\ dirty' = FALSE /\ ~split
      /\ drawn' = [tab \in Tabs |-> State(run'[tab])]
  BY DEF RenderTabBar
<1>2. Types'
  BY <1>1, Lookup DEF IInv, Types
<1>3. Looked'
  BY <1>1, Lookup, SameClock DEF Looked, Visible
<1>4. ASSUME NEW tab \in Tabs PROVE Shown(tab)'
  <2>1. drawn'[tab] = Mark(tab)'
    BY <1>1, Lookup, AtNow, AtNext
  <2>. QED
    BY <2>1 DEF Shown
<1>5. ASSUME NEW tab \in Tabs, timer # 0 PROVE Timely(tab)'
  <2>1. Timely(tab)
    BY <1>1, <1>5 DEF IInv, Timed
  <2>2. Change(tab)' = Change(tab)
    BY <1>1, Lookup
  <2>. QED
    BY <1>1, <2>1, <2>2 DEF Timely
<1>6. Timed'
  BY <1>1, <1>4, <1>5 DEF IInv, Timed
<1>. QED
  BY <1>1, <1>2, <1>3, <1>6, Lookup DEF IInv

LEMMA TickStep ==
    ASSUME IInv, Tick
    PROVE  IInv'
<1>1. /\ now' = now + 1 /\ now \in Nat /\ now' \in Nat /\ run' = run /\ active' = active
      /\ split' = split /\ ticking' = ticking /\ dirty' = dirty /\ drawn' = drawn
      /\ finish' = finish /\ timer # 0 /\ (split \/ ~dirty)
      /\ timer' = IF timer = Off THEN Off ELSE timer - 1
      /\ timer \in Nat \cup {Off}
      /\ seen' = [tab \in Tabs |-> IF Visible(tab) THEN now' ELSE seen[tab]]
  BY DEF Tick, IInv, Types
<1>2. ASSUME NEW u \in Tabs
      PROVE  /\ run[u] \in Records /\ seen[u] \in Nat /\ seen'[u] \in Nat
             /\ seen'[u] = IF Visible(u) THEN now' ELSE seen[u]
             /\ TabPast(run[u], seen[u]) /\ TabPast(run[u], seen[u])'
             /\ Unmarked(run[u]) => Unmarked(run[u])'
  <2>1. run[u] \in Records /\ seen[u] \in Nat /\ TabPast(run[u], seen[u])
    BY TabFacts DEF IInv
  <2>2. seen'[u] = IF Visible(u) THEN now' ELSE seen[u]
    BY <1>1
  <2>3. run[u].last \in Nat /\ run[u].hiddenSince \in Nat /\ run[u].doneAt \in Int
    BY <2>1 DEF Records
  <2>4. TabPast(run[u], seen[u])'
    BY <1>1, <2>1, <2>2, <2>3 DEF TabPast
  <2>5. Unmarked(run[u]) => Unmarked(run[u])'
    <3>1. Quiet \in Nat
      BY ActivityAssumption
    <3>. QED
      BY <1>1, <2>3, <3>1 DEF Unmarked, InRun, FinishedHidden
  <2>. QED
    BY <1>1, <2>1, <2>2, <2>4, <2>5
<1>3. Types'
  <2>1. seen' \in [Tabs -> Nat]
    BY <1>1, <1>2
  <2>2. timer' \in Nat \cup {Off}
    BY <1>1 DEF Off
  <2>. QED
    BY <1>1, <2>1, <2>2 DEF IInv, Types
<1>4. Past'
  BY <1>2 DEF Past
<1>5. CASE split
  <2>1. Looked'
    BY <1>1, <1>2, <1>5 DEF IInv, Looked
  <2>2. Timed'
    BY <1>1, <1>5 DEF IInv, Timed, Off
  <2>. QED
    BY <1>3, <1>4, <2>1, <2>2 DEF IInv
<1>6. CASE ~split
  <2>1. ~dirty
    BY <1>1, <1>6
  <2>2. ASSUME NEW u \in Tabs
        PROVE  (run[u].visible <=> Visible(u)) /\ (run[u].visible \/ News(run[u], seen[u])')
    <3>1. (run[u].visible <=> Visible(u)) /\ (run[u].visible \/ News(run[u], seen[u]))
      BY <1>6, <2>1 DEF IInv, Looked, Visible
    <3>2. ASSUME ~run[u].visible PROVE News(run[u], seen[u])'
      <4>1. seen'[u] = seen[u] /\ News(run[u], seen[u])
        BY <1>2, <3>1, <3>2
      <4>. QED
        BY <1>1, <1>2, <4>1 DEF News
    <3>. QED
      BY <3>1, <3>2
  <2>3. Looked'
    BY <1>1, <1>6, <2>1, <2>2 DEF Looked, Visible
  <2>4. ASSUME NEW u \in Tabs PROVE Found(u) = run[u] /\ Found(u)' = run[u]
    <3>1. Visible(u) \in BOOLEAN /\ Visible(u)' = Visible(u) /\ run[u].visible \in BOOLEAN
      BY <1>1, <1>2 DEF Visible, IInv, Types, Records
    <3>2. Visible(u) = run[u].visible
      BY <2>2, <3>1
    <3>3. Found(u) = run[u]
      BY <3>2 DEF Found, SetVisible
    <3>4. Visible(u)' = run'[u].visible
      BY <1>1, <3>1, <3>2
    <3>5. Found(u)' = run'[u]
      BY <3>4 DEF Found, SetVisible
    <3>. QED
      BY <1>1, <3>3, <3>5
  <2>5. ASSUME NEW u \in Tabs, timer' # 0 PROVE Timely(u)' /\ Shown(u)'
    <3>. DEFINE c == ChangeAt(run[u], now, finish)
    <3>1. ~ticking /\ timer # 1
      BY <1>1, <2>5 DEF IInv, Timed, Off
    <3>2. Timely(u) /\ Shown(u)
      BY <1>1, <1>6, <2>1 DEF IInv, Timed
    <3>3. Change(u) = c /\ Mark(u) = StateAt(run[u], now)
      BY <2>4, AtNow DEF Change, Mark
    <3>4. /\ Change(u)' = ChangeAt(run[u], now + 1, finish)
          /\ Mark(u)' = StateAt(run[u], now + 1)
      BY <1>1, <2>4, AtNext
    <3>5. c # 0
      BY <3>1, <3>2, <3>3 DEF Timely
    <3>6. /\ c \in Nat \cup {-1}
          /\ c = -1 => Change(u)' = -1
          /\ c > 1 => Change(u)' = c - 1
          /\ \/ Mark(u)' = Mark(u)
             \/ finish = "steady" /\ Mark(u) = "finished" /\ Mark(u)' = "done"
      <4>1. run[u].last <= now /\ (run[u].done => run[u].doneAt <= now)
        BY <1>2 DEF TabPast
      <4>. QED
        BY <1>1, <1>2, <3>3, <3>4, <3>5, <4>1, Later
    <3>. HIDE DEF c
    <3>7. Timely(u)'
      <4>1. CASE c = -1
        <5>1. Change(u)' = -1
          BY <3>6, <4>1
        <5>. QED
          BY <5>1 DEF Timely
      <4>2. CASE c > 0
        <5>1. timer # Off /\ timer <= c /\ timer \in Nat
          BY <1>1, <3>2, <3>3, <4>2 DEF Timely
        <5>2. timer > 1 /\ c > 1 /\ timer' = timer - 1
          BY <1>1, <3>1, <5>1, <3>6
        <5>3. Change(u)' = c - 1
          BY <3>6, <5>2
        <5>4. Change(u)' # 0 /\ timer' # Off /\ timer' <= Change(u)'
          BY <3>6, <5>1, <5>2, <5>3 DEF Off
        <5>. QED
          BY <5>4 DEF Timely
      <4>. QED
        BY <3>5, <3>6, <4>1, <4>2
    <3>8. Shown(u)'
      <4>1. drawn'[u] = drawn[u]
        BY <1>1
      <4>. QED
        BY <1>1, <3>2, <3>6, <4>1 DEF Shown
    <3>. QED
      BY <3>7, <3>8
  <2>6. ticking' => timer' \in {0, 1}
    BY <1>1 DEF IInv, Timed, Off
  <2>7. Timed'
    BY <1>1, <2>5, <2>6 DEF Timed
  <2>. QED
    BY <1>3, <1>4, <2>3, <2>7 DEF IInv
<1>. QED
  BY <1>5, <1>6

(***************************************************************************)
(* Theorems                                                                *)
(***************************************************************************)

\* The invariant of the activity marks (tab-activity.c, and what drives them in tab.c), for
\* every number of tabs and every setting of the delays.
THEOREM Invariance ==
    ASSUME Admitted = {}
    PROVE  Spec => []IInv
<1>1. IInv /\ [Next]_vars => IInv'
  <2>. SUFFICES ASSUME IInv, [Next]_vars PROVE IInv'
    OBVIOUS
  <2>1. CASE UNCHANGED vars
    <3>1. IInv' = IInv
      BY <2>1 DEF vars, IInv, Types, Past, TabPast, Looked, News, Unmarked, InRun, FinishedHidden,
                  Timed, Timely, Shown, Change, Mark, NextChange, State, DoneAge, Found,
                  SetVisible, Visible
    <3>. QED
      BY <3>1
  <2>2. ASSUME NEW tab \in Tabs, TabOnOutput(tab) PROVE IInv'
    BY <2>2, OutputStep
  <2>3. ASSUME NEW tab \in Tabs, DoTabSwitch(tab) PROVE IInv'
    BY <2>3, SwitchStep
  <2>4. CASE FdmPulseTimer
    BY <2>4, PulseStep
  <2>5. CASE TabSplit
    BY <2>5, SplitStep
  <2>6. CASE RenderTabBar
    BY <2>6, RenderStep
  <2>7. CASE Tick
    BY <2>7, TickStep
  <2>. QED
    BY <2>1, <2>2, <2>3, <2>4, <2>5, <2>6, <2>7 DEF Next
<1>. QED
  BY <1>1, Initially, PTL DEF Spec

\* A mark means output that nobody saw; and when the loop is idle the bar shows each tab's
\* mark, and the pulse timer fires before one of them changes.
THEOREM MarksTrue ==
    ASSUME Admitted = {}
    PROVE  Spec => []MarksAreTrue
<1>1. IInv => MarkIsNews
  <2>. SUFFICES ASSUME IInv, NEW tab \in Tabs, ~Visible(tab), ~dirty, DoneAge(run[tab]) >= 0
                PROVE  now - DoneAge(run[tab]) - Quiet >= seen[tab]
    BY DEF MarkIsNews
  <2>1. Quiet \in Nat /\ MinRun \in Nat \ {0} /\ now \in Nat
    BY ActivityAssumption DEF IInv, Types
  <2>2. ~split /\ ~run[tab].visible /\ News(run[tab], seen[tab])
    BY DEF IInv, Looked, Visible
  <2>3. /\ run[tab].start \in Nat /\ run[tab].last \in Nat /\ run[tab].hiddenSince \in Nat
        /\ run[tab].doneAt \in Int /\ seen[tab] \in Nat
    BY DEF IInv, Types, Records
  <2>4. CASE ~InRun(run[tab]) /\ FinishedHidden(run[tab])
    <3>1. DoneAge(run[tab]) = now - (run[tab].last + Quiet)
      BY <2>2, <2>4 DEF DoneAge
    <3>2. run[tab].last >= seen[tab]
      BY <2>1, <2>2, <2>3, <2>4 DEF News, Unmarked, FinishedHidden
    <3>. QED
      BY <2>1, <2>3, <3>1, <3>2
  <2>5. CASE ~(~InRun(run[tab]) /\ FinishedHidden(run[tab]))
    <3>1. run[tab].done /\ DoneAge(run[tab]) = now - run[tab].doneAt
      BY <2>2, <2>5 DEF DoneAge
    <3>. QED
      BY <2>1, <2>2, <2>3, <3>1 DEF News
  <2>. QED
    BY <2>4, <2>5
<1>2. IInv => MarksAreCurrent
  BY DEF IInv, Timed, Timely, Shown, Change, Mark, Found, MarksAreCurrent
<1>3. IInv => MarksAreTrue
  BY <1>1, <1>2 DEF MarksAreTrue
<1>. QED
  BY <1>3, Invariance, PTL

\* A click in split mode focuses the pane that the pointer entered, though tabs come and go
\* (wl_pointer_enter(), tab_split_focus(), tab_detach()).
THEOREM HoverPane == Bar!Spec => []HoverIsPane
<1>1. Bar!Init => HoverIsPane
  BY DEF Bar!Init, HoverIsPane, Bar!HoverIsPane
<1>2. HoverIsPane /\ [Bar!Next]_(Bar!vars) => HoverIsPane'
  <2>. SUFFICES ASSUME HoverIsPane, [Bar!Next]_(Bar!vars) PROVE HoverIsPane'
    OBVIOUS
  <2>1. CASE \/ \E t \in Terms : Bar!TabEnds(t)
             \/ Bar!TabCloseActive \/ Bar!TabSplit
    BY <2>1 DEF HoverIsPane, Bar!HoverIsPane, Bar!TabEnds, Bar!TabCloseActive, Bar!TabDetach,
                Bar!TabSplit
  <2>2. CASE Bar!MenuClose
    BY <2>2 DEF HoverIsPane, Bar!HoverIsPane, Bar!MenuClose
  <2>3. CASE Bar!TabTogglePin \/ \E t \in Terms : Bar!TabAttach(t)
    BY <2>3 DEF HoverIsPane, Bar!HoverIsPane, Bar!TabTogglePin, Bar!TabAttach
  <2>4. CASE \E i \in DOMAIN tabs : Bar!PointerEnter(i)
    BY <2>4 DEF HoverIsPane, Bar!HoverIsPane, Bar!PointerEnter
  <2>5. CASE \/ Bar!TabNext \/ Bar!TabPrev \/ Bar!TabSplitFocus \/ Bar!MenuDismiss
             \/ \E i \in DOMAIN tabs : Bar!TabClick(i) \/ Bar!MenuShow(i)
             \/ UNCHANGED Bar!vars
    <3>1. UNCHANGED <<tabs, exposed, hover, pane>>
      BY <2>5 DEF Bar!TabNext, Bar!TabPrev, Bar!TabSplitFocus, Bar!MenuDismiss, Bar!TabClick,
                  Bar!MenuShow, Bar!SwitchTo, Bar!vars
    <3>. QED
      BY <3>1 DEF HoverIsPane, Bar!HoverIsPane
  <2>. QED
    BY <2>1, <2>2, <2>3, <2>4, <2>5 DEF Bar!Next
<1>. QED
  BY <1>1, <1>2, PTL DEF Bar!Spec

(***************************************************************************)
(* Who draws a window                                                      *)
(***************************************************************************)

\* The window's frame callback is either NULL or the active tab's, and in split
\* mode it is NULL: the panes' callbacks are all there is.
FramesMatch ==
    /\ pointer # "dangling"
    /\ pointer = "live" => data = front /\ ~panes
    /\ ~panes => paneCb = {}

FInv == Frames!TypeOK /\ FramesMatch /\ Frames!StaleIsDriven

\* One terminal, no frame, and the terminal asked to be drawn.
LEMMA FramesInit == Frames!Init => FInv
  BY DEF Frames!Init, FInv, Frames!TypeOK, FramesMatch, Frames!StaleIsDriven,
         Frames!Shown

\* Every step keeps the types, and the callbacks with their owners.
LEMMA FramesTyped ==
  ASSUME Frames!TypeOK, FramesMatch, ~SplitsDuringFrame, [Frames!Next]_(Frames!vars)
  PROVE  Frames!TypeOK' /\ FramesMatch'
<1>. USE DEF Frames!TypeOK, FramesMatch
<1>1. CASE Frames!FdmHook
  <2>1. CASE panes
    BY <1>1, <2>1 DEF Frames!FdmHook
  <2>2. CASE ~panes
    BY <1>1, <2>2 DEF Frames!FdmHook, Frames!DrawInWindow
  <2>. QED BY <2>1, <2>2
<1>2. CASE Frames!WindowFrameDone
  BY <1>2 DEF Frames!WindowFrameDone, Frames!DrawInWindow, Frames!Shown
<1>3. CASE Frames!TabSplitEnter
  BY <1>3 DEF Frames!TabSplitEnter
<1>4. CASE Frames!TabSplitExit
  BY <1>4 DEF Frames!TabSplitExit
<1>5. ASSUME NEW t \in Terminals, Frames!PaneFrameDone(t) PROVE Frames!TypeOK' /\ FramesMatch'
  BY <1>5 DEF Frames!PaneFrameDone
<1>6. ASSUME NEW t \in Terminals, Frames!Output(t) PROVE Frames!TypeOK' /\ FramesMatch'
  BY <1>6 DEF Frames!Output
<1>7. ASSUME NEW t \in Terminals, Frames!TabSwitch(t) PROVE Frames!TypeOK' /\ FramesMatch'
  BY <1>7 DEF Frames!TabSwitch, Frames!SwitchTo
<1>8. ASSUME NEW t \in Terminals, Frames!TabAttach(t) PROVE Frames!TypeOK' /\ FramesMatch'
  BY <1>8 DEF Frames!TabAttach
<1>9. ASSUME NEW t \in Terminals, Frames!TabDetach(t) PROVE Frames!TypeOK' /\ FramesMatch'
  BY <1>9 DEF Frames!TabDetach
<1>10. ASSUME NEW t \in Terminals, Frames!TermDestroy(t) PROVE Frames!TypeOK' /\ FramesMatch'
  BY <1>10 DEF Frames!TermDestroy
<1>11. CASE UNCHANGED Frames!vars
  BY <1>11 DEF Frames!vars
<1>. QED
  BY <1>1, <1>2, <1>3, <1>4, <1>5, <1>6, <1>7, <1>8, <1>9, <1>10, <1>11 DEF Frames!Next

\* Every step that makes a shown terminal stale, or shows a stale one, asks for
\* it to be drawn; every step that drops such a request draws the terminal, or
\* leaves it to a callback of its own.
LEMMA FramesDriven ==
  ASSUME Frames!TypeOK, FramesMatch, Frames!StaleIsDriven, ~SplitsDuringFrame,
         [Frames!Next]_(Frames!vars)
  PROVE  Frames!StaleIsDriven'
<1>. USE DEF Frames!TypeOK, FramesMatch, Frames!StaleIsDriven, Frames!Shown
<1>1. CASE Frames!FdmHook
  <2>1. CASE panes
    BY <1>1, <2>1 DEF Frames!FdmHook
  <2>2. CASE ~panes
    BY <1>1, <2>2 DEF Frames!FdmHook, Frames!DrawInWindow
  <2>. QED BY <2>1, <2>2
<1>2. CASE Frames!WindowFrameDone
  BY <1>2 DEF Frames!WindowFrameDone, Frames!DrawInWindow
<1>3. CASE Frames!TabSplitEnter
  BY <1>3 DEF Frames!TabSplitEnter
<1>4. CASE Frames!TabSplitExit
  BY <1>4 DEF Frames!TabSplitExit
<1>5. ASSUME NEW t \in Terminals, Frames!PaneFrameDone(t) PROVE Frames!StaleIsDriven'
  BY <1>5 DEF Frames!PaneFrameDone
<1>6. ASSUME NEW t \in Terminals, Frames!Output(t) PROVE Frames!StaleIsDriven'
  BY <1>6 DEF Frames!Output
<1>7. ASSUME NEW t \in Terminals, Frames!TabSwitch(t) PROVE Frames!StaleIsDriven'
  BY <1>7 DEF Frames!TabSwitch, Frames!SwitchTo
<1>8. ASSUME NEW t \in Terminals, Frames!TabAttach(t) PROVE Frames!StaleIsDriven'
  BY <1>8 DEF Frames!TabAttach
<1>9. ASSUME NEW t \in Terminals, Frames!TabDetach(t) PROVE Frames!StaleIsDriven'
  BY <1>9 DEF Frames!TabDetach
<1>10. ASSUME NEW t \in Terminals, Frames!TermDestroy(t) PROVE Frames!StaleIsDriven'
  BY <1>10 DEF Frames!TermDestroy
<1>11. CASE UNCHANGED Frames!vars
  BY <1>11 DEF Frames!vars
<1>. QED
  BY <1>1, <1>2, <1>3, <1>4, <1>5, <1>6, <1>7, <1>8, <1>9, <1>10, <1>11 DEF Frames!Next

\* FInv is inductive: what the theorems below rest on.
LEMMA FramesInvariant ==
  ASSUME ~SplitsDuringFrame
  PROVE  Frames!Spec => []FInv
<1>1. Frames!Init => FInv
  BY FramesInit
<1>2. FInv /\ [Frames!Next]_(Frames!vars) => FInv'
  BY FramesTyped, FramesDriven DEF FInv
<1>. QED
  BY <1>1, <1>2, PTL DEF Frames!Spec

\* Whatever tabs are switched, split, opened and closed between frames, a shown
\* tab that is out of date is always going to be drawn (do_tab_switch(),
\* frame_callback(), fdm_hook_refresh_pending_terminals()).
THEOREM NoTabIsStranded ==
  ASSUME ~SplitsDuringFrame
  PROVE  Frames!Spec => []StaleIsDriven
<1>1. FInv => StaleIsDriven
  BY DEF FInv, StaleIsDriven
<1>. QED
  BY <1>1, FramesInvariant, PTL

\* frame_callback() is never called for a terminal that has left its window,
\* and win->frame_callback is never a destroyed callback.
THEOREM FramesAreAlive ==
  ASSUME ~SplitsDuringFrame
  PROVE  Frames!Spec => []FrameHasTerminal
<1>1. FInv => FrameHasTerminal
  BY DEF FInv, Frames!TypeOK, FramesMatch, FrameHasTerminal, Frames!FrameHasTerminal
<1>. QED
  BY <1>1, FramesInvariant, PTL

\* Outside split mode only the active tab has a frame in flight.
THEOREM OnlyActiveDraws ==
  ASSUME ~SplitsDuringFrame
  PROVE  Frames!Spec => []Frames!OnlyShownDraw
<1>1. FInv => Frames!OnlyShownDraw
  BY DEF FInv, FramesMatch, Frames!OnlyShownDraw
<1>. QED
  BY <1>1, FramesInvariant, PTL
===============================================================================
