---------------------------- MODULE Windows_proofs ----------------------------
(***************************************************************************)
(* Proofs about MCWindows' clipboard, pointer, keyboard and URL mode, for  *)
(* any number of tabs, buttons, keys, copies, pastes, URLs, letters and    *)
(* events under way: every text that is received is the one that was       *)
(* copied or dragged, no press outlives the button, the finger or the key  *)
(* that was pressed, and every URL that is chosen is the one that opens.   *)
(***************************************************************************)
EXTENDS MCWindows, Sequences, FiniteSetTheorems, SequenceTheorems, WellFoundedInduction, TLAPS

(***************************************************************************)
(* The clipboard                                                           *)
(***************************************************************************)

Mimes == {"plain", "utf8", "uris", "other"}
Types == {"none", "plain", "utf8", "uris"}
Whose == {"none", "foot", "other"}
DataOffers == [n : Nat, mimes : Seq(Mimes), drag : BOOLEAN, by : Whose]

Events ==
    [type : {"selection"}, selection : Selections, offer : DataOffers]
    \cup [type : {"cancelled"}, selection : Selections, n : Nat]
    \cup [type : {"send"}, selection : Selections, n : Nat, paste : Nat]
    \cup [type : {"enter"}, offer : DataOffers]
    \cup [type : {"leave", "drop"}]

Pastes == [id : Nat, term : Tabs, by : Whose, type : Types, offer : DataOffers, expected : Nat,
           got : Seq(Nat), closed : BOOLEAN]

Typed ==
    /\ clip \in [Selections -> [source : Nat, offer : DataOffers, type : Types, window : BOOLEAN]]
    /\ owner \in [Selections -> [n : Nat, by : Whose]]
    /\ queue \in Seq(Events)
    /\ focused \in BOOLEAN
    /\ drag \in [n : Nat, is : {"none", "over", "accepted", "dropped"}]
    /\ pasteTab \in Tabs /\ pasting \in [Tabs -> BOOLEAN]
    /\ pastes \subseteq Pastes /\ writes \subseteq [paste : Nat, text : Nat]
    /\ made \in Nat /\ begun \in Nat
    /\ current \in [Selections -> DataOffers]
    /\ faults = {}

(***************************************************************************)
(* The events under way                                                    *)
(***************************************************************************)

\* A sequence without its first entry, and with others at its end.
LEMMA TailIs ==
    ASSUME NEW S, NEW q \in Seq(S), q # <<>>
    PROVE  /\ Tail(q) \in Seq(S) /\ Len(q) \in Nat \ {0} /\ Len(Tail(q)) = Len(q) - 1
           /\ Head(q) = q[1] /\ q[1] \in S
           /\ \A i \in 1 .. Len(Tail(q)) : i + 1 \in 1 .. Len(q) /\ Tail(q)[i] = q[i + 1]
<1>1. Len(q) \in Nat \ {0}
  BY EmptySeq, LenProperties
<1>. QED
  BY <1>1, HeadTailProperties, ElementOfSeq

LEMMA AppendIs ==
    ASSUME NEW S, NEW q \in Seq(S), NEW es \in Seq(S)
    PROVE  /\ q \o es \in Seq(S) /\ Len(q) \in Nat /\ Len(es) \in Nat
           /\ Len(q \o es) = Len(q) + Len(es)
           /\ \A i \in 1 .. Len(q) : (q \o es)[i] = q[i]
           /\ \A k \in 1 .. Len(es) : (q \o es)[Len(q) + k] = es[k]
BY ConcatProperties

OfDrag(e) == e.type \in {"enter", "leave", "drop"}

\* The compositor says of a drag that it entered, and then that it left or was dropped;
\* what was accepted has been told of already.
Drags(q, d, m) ==
    /\ \A i \in 1 .. Len(q) :
          /\ q[i].type = "enter" => q[i].offer.n \in 1 .. m /\ q[i].offer.drag
          /\ d.is \in {"accepted", "dropped"} => q[i].type \notin {"enter", "leave"}
          /\ q[i].type = "drop" => d.is = "dropped"
    /\ \A i, j \in 1 .. Len(q) :
          i < j /\ OfDrag(q[j]) =>
              /\ q[i].type = "enter" => q[i].offer.n # d.n
              /\ q[i].type # "drop"

LEMMA DragsTail ==
    ASSUME NEW q \in Seq(Events), q # <<>>, NEW d, NEW m, Drags(q, d, m)
    PROVE  Drags(Tail(q), d, m)
<1>1. Len(q) \in Nat /\ Len(Tail(q)) = Len(q) - 1
  BY TailIs
<1>2. \A i \in 1 .. Len(Tail(q)) : i + 1 \in 1 .. Len(q) /\ Tail(q)[i] = q[i + 1]
  BY TailIs
<1>. QED
  BY <1>1, <1>2 DEF Drags

\* What was cancelled is not the source that foot has now.
Cancels(q, own, m) ==
    \A i \in 1 .. Len(q) : q[i].type = "cancelled" =>
        /\ q[i].n \in 1 .. m
        /\ own[q[i].selection].by = "foot" => own[q[i].selection].n # q[i].n

Tells(e, sel) == e.type = "selection" /\ e.selection = sel

\* The last that is told of a selection, or what was told last, is text n.
Latest(q, sel, had, n) ==
    /\ (\A i \in 1 .. Len(q) : ~Tells(q[i], sel)) => had.n = n
    /\ \A i \in 1 .. Len(q) :
          Tells(q[i], sel) /\ (\A j \in i + 1 .. Len(q) : ~Tells(q[j], sel)) => q[i].offer.n = n

LEMMA LatestTail ==
    ASSUME NEW q \in Seq(Events), q # <<>>, NEW sel, NEW had, NEW has, NEW n, Latest(q, sel, had, n),
           Tells(Head(q), sel) => has = Head(q).offer,
           ~Tells(Head(q), sel) => has = had
    PROVE  Latest(Tail(q), sel, has, n)
<1>. DEFINE r == Tail(q)
<1>1. /\ Len(q) \in Nat \ {0} /\ Len(r) = Len(q) - 1 /\ Head(q) = q[1]
      /\ \A i \in 1 .. Len(r) : i + 1 \in 1 .. Len(q) /\ r[i] = q[i + 1]
  BY TailIs
<1>. HIDE DEF r
<1>2. \A i \in 2 .. Len(q) : i - 1 \in 1 .. Len(r) /\ q[i] = r[i - 1]
  <2>. SUFFICES ASSUME NEW i \in 2 .. Len(q) PROVE i - 1 \in 1 .. Len(r) /\ q[i] = r[i - 1]
    OBVIOUS
  <2>1. i - 1 \in 1 .. Len(r) /\ (i - 1) + 1 = i
    BY <1>1
  <2>. QED
    BY <1>1, <2>1
<1>3. ASSUME \A i \in 1 .. Len(r) : ~Tells(r[i], sel) PROVE has.n = n
  <2>1. \A i \in 2 .. Len(q) : ~Tells(q[i], sel)
    BY <1>2, <1>3
  <2>2. CASE Tells(q[1], sel)
    <3>1. 1 \in 1 .. Len(q) /\ \A j \in 1 + 1 .. Len(q) : ~Tells(q[j], sel)
      BY <1>1, <2>1
    <3>2. q[1].offer.n = n
      BY <2>2, <3>1 DEF Latest
    <3>. QED
      BY <1>1, <2>2, <3>2
  <2>3. CASE ~Tells(q[1], sel)
    <3>1. \A i \in 1 .. Len(q) : ~Tells(q[i], sel)
      <4>1. \A i \in 1 .. Len(q) : i = 1 \/ i \in 2 .. Len(q)
        BY <1>1
      <4>. QED
        BY <2>1, <2>3, <4>1
    <3>. QED
      BY <1>1, <2>3, <3>1 DEF Latest
  <2>. QED
    BY <2>2, <2>3
<1>4. ASSUME NEW i \in 1 .. Len(r), Tells(r[i], sel),
             \A j \in i + 1 .. Len(r) : ~Tells(r[j], sel)
      PROVE  r[i].offer.n = n
  <2>1. i + 1 \in 1 .. Len(q) /\ r[i] = q[i + 1]
    BY <1>1
  <2>2. ASSUME NEW j \in (i + 1) + 1 .. Len(q) PROVE ~Tells(q[j], sel)
    <3>1. j \in 2 .. Len(q) /\ j - 1 \in i + 1 .. Len(r)
      BY <1>1
    <3>. QED
      BY <1>2, <1>4, <3>1
  <2>. QED
    BY <1>4, <2>1, <2>2 DEF Latest
<1>5. Latest(r, sel, has, n)
  BY <1>3, <1>4 DEF Latest
<1>. QED
  BY <1>5 DEF r

LEMMA LatestAppend ==
    ASSUME NEW q \in Seq(Events), NEW e \in Events, NEW sel, NEW had, NEW n, NEW m,
           Tells(e, sel) => e.offer.n = m,
           ~Tells(e, sel) => Latest(q, sel, had, n) /\ m = n
    PROVE  Latest(q \o <<e>>, sel, had, m)
<1>. DEFINE r == q \o <<e>>
<1>1. /\ Len(q) \in Nat /\ Len(r) = Len(q) + 1
      /\ \A i \in 1 .. Len(q) : r[i] = q[i]
      /\ r[Len(q) + 1] = e
  <2>1. <<e>> \in Seq(Events) /\ Len(<<e>>) = 1 /\ <<e>>[1] = e
    OBVIOUS
  <2>. QED
    BY <2>1, AppendIs
<1>. HIDE DEF r
<1>2. \A i \in 1 .. Len(r) : i \in 1 .. Len(q) \/ i = Len(q) + 1
  BY <1>1
<1>3. CASE Tells(e, sel)
  <2>1. \A i \in 1 .. Len(q) : Len(q) + 1 \in i + 1 .. Len(r)
    BY <1>1
  <2>2. Len(q) + 1 \in 1 .. Len(r)
    BY <1>1
  <2>. QED
    BY <1>1, <1>2, <1>3, <2>1, <2>2 DEF Latest, r
<1>4. CASE ~Tells(e, sel)
  <2>1. Latest(q, sel, had, m)
    BY <1>4
  <2>2. ASSUME \A i \in 1 .. Len(r) : ~Tells(r[i], sel) PROVE had.n = m
    <3>1. \A i \in 1 .. Len(q) : i \in 1 .. Len(r) /\ r[i] = q[i]
      BY <1>1
    <3>. QED
      BY <2>1, <2>2, <3>1 DEF Latest
  <2>3. ASSUME NEW i \in 1 .. Len(r), Tells(r[i], sel),
               \A j \in i + 1 .. Len(r) : ~Tells(r[j], sel)
        PROVE  r[i].offer.n = m
    <3>1. i \in 1 .. Len(q)
      BY <1>1, <1>2, <1>4, <2>3
    <3>2. \A j \in i + 1 .. Len(q) : j \in i + 1 .. Len(r) /\ r[j] = q[j]
      BY <1>1
    <3>. QED
      BY <1>1, <2>1, <2>3, <3>1, <3>2 DEF Latest
  <2>. QED
    BY <2>2, <2>3 DEF Latest, r
<1>. QED
  BY <1>3, <1>4

\* What others ask for: a paste that has got nothing yet.
Requests(q, ps, top) ==
    /\ \A i \in 1 .. Len(q) : q[i].type = "send" =>
          /\ q[i].paste \in 1 .. top
          /\ \A p \in ps : p.id = q[i].paste => p.by = "foot" /\ p.expected = q[i].n /\ p.got = <<>>
    /\ \A i, j \in 1 .. Len(q) :
          i < j /\ q[i].type = "send" /\ q[j].type = "send" => q[i].paste # q[j].paste

LEMMA RequestsTail ==
    ASSUME NEW q \in Seq(Events), q # <<>>, NEW ps, NEW top, Requests(q, ps, top)
    PROVE  Requests(Tail(q), ps, top)
<1>1. Len(q) \in Nat /\ Len(Tail(q)) = Len(q) - 1
  BY TailIs
<1>2. \A i \in 1 .. Len(Tail(q)) : i + 1 \in 1 .. Len(q) /\ Tail(q)[i] = q[i + 1]
  BY TailIs
<1>. QED
  BY <1>1, <1>2 DEF Requests

LEMMA RequestsPastes ==
    ASSUME NEW q, NEW ps, NEW top \in Nat, Requests(q, ps, top), NEW qs, NEW most \in Nat, top <= most,
           \A p \in qs : p \in ps \/ \A i \in 1 .. Len(q) : q[i].type = "send" => q[i].paste # p.id
    PROVE  Requests(q, qs, most)
BY DEF Requests

LEMMA AppendOne ==
    ASSUME NEW q \in Seq(Events), NEW e \in Events
    PROVE  /\ q \o <<e>> \in Seq(Events) /\ Len(q) \in Nat /\ Len(q \o <<e>>) = Len(q) + 1
           /\ \A i \in 1 .. Len(q) : i \in 1 .. Len(q \o <<e>>) /\ (q \o <<e>>)[i] = q[i]
           /\ (q \o <<e>>)[Len(q) + 1] = e /\ Len(q) + 1 \in 1 .. Len(q \o <<e>>)
           /\ \A i \in 1 .. Len(q \o <<e>>) : i \in 1 .. Len(q) \/ i = Len(q) + 1
<1>1. <<e>> \in Seq(Events) /\ Len(<<e>>) = 1 /\ <<e>>[1] = e
  OBVIOUS
<1>. DEFINE r == q \o <<e>>
<1>2. /\ r \in Seq(Events) /\ Len(q) \in Nat /\ Len(r) = Len(q) + 1
      /\ \A i \in 1 .. Len(q) : r[i] = q[i]
      /\ \A k \in 1 .. 1 : r[Len(q) + k] = <<e>>[k]
  BY <1>1, AppendIs
<1>. HIDE DEF r
<1>3. \A i \in 1 .. Len(r) : i \in 1 .. Len(q) \/ i = Len(q) + 1
  BY <1>2
<1>4. \A i \in 1 .. Len(q) : i \in 1 .. Len(r)
  BY <1>2
<1>5. r[Len(q) + 1] = e /\ Len(q) + 1 \in 1 .. Len(r)
  BY <1>1, <1>2
<1>. QED
  BY <1>2, <1>3, <1>4, <1>5 DEF r

\* A send is of a paste that begins with it.
LEMMA RequestsAppend ==
    ASSUME NEW q \in Seq(Events), NEW e \in Events, NEW ps, NEW top \in Nat, NEW most \in Nat,
           top <= most, Requests(q, ps, top),
           e.type = "send" =>
               /\ e.paste \in top + 1 .. most
               /\ \A p \in ps : p.id = e.paste => p.by = "foot" /\ p.expected = e.n /\ p.got = <<>>
    PROVE  Requests(q \o <<e>>, ps, most)
<1>. DEFINE r == q \o <<e>>
<1>1. /\ Len(q) \in Nat /\ \A i \in 1 .. Len(q) : r[i] = q[i]
      /\ r[Len(q) + 1] = e
      /\ \A i \in 1 .. Len(r) : i \in 1 .. Len(q) \/ i = Len(q) + 1
  BY AppendOne
<1>. HIDE DEF r
<1>2. ASSUME NEW i \in 1 .. Len(r), r[i].type = "send"
      PROVE  /\ r[i].paste \in 1 .. most
             /\ \A p \in ps : p.id = r[i].paste => p.by = "foot" /\ p.expected = r[i].n /\ p.got = <<>>
  <2>1. CASE i \in 1 .. Len(q)
    <3>1. q[i].type = "send" /\ r[i] = q[i]
      BY <1>1, <1>2, <2>1
    <3>2. q[i].paste \in 1 .. top
      BY <2>1, <3>1 DEF Requests
    <3>3. q[i].paste \in 1 .. most
      BY <3>2
    <3>. QED
      BY <2>1, <3>1, <3>3 DEF Requests
  <2>2. CASE i = Len(q) + 1
    BY <1>1, <1>2, <2>2
  <2>. QED
    BY <1>1, <2>1, <2>2
<1>3. ASSUME NEW i \in 1 .. Len(r), NEW j \in 1 .. Len(r), i < j, r[i].type = "send",
             r[j].type = "send"
      PROVE  r[i].paste # r[j].paste
  <2>1. i \in 1 .. Len(q)
    BY <1>1, <1>3
  <2>2. CASE j \in 1 .. Len(q)
    BY <1>1, <1>3, <2>1, <2>2 DEF Requests
  <2>3. CASE j = Len(q) + 1
    <3>1. q[i].paste \in 1 .. top /\ r[i] = q[i] /\ r[j] = e
      BY <1>1, <1>3, <2>1, <2>3 DEF Requests
    <3>. QED
      BY <1>3, <3>1
  <2>. QED
    BY <1>1, <2>2, <2>3
<1>4. Requests(r, ps, most)
  BY <1>2, <1>3 DEF Requests
<1>. QED
  BY <1>4 DEF r

LEMMA DragsAppend ==
    ASSUME NEW q \in Seq(Events), NEW e \in Events, NEW d, NEW m \in Nat, NEW k \in Nat,
           m <= k, Drags(q, d, m), ~OfDrag(e)
    PROVE  Drags(q \o <<e>>, d, k)
<1>. DEFINE r == q \o <<e>>
<1>1. /\ Len(q) \in Nat /\ \A i \in 1 .. Len(q) : r[i] = q[i]
      /\ r[Len(q) + 1] = e
      /\ \A i \in 1 .. Len(r) : i \in 1 .. Len(q) \/ i = Len(q) + 1
  BY AppendOne
<1>. HIDE DEF r
<1>2. \A i \in 1 .. Len(r) : OfDrag(r[i]) => i \in 1 .. Len(q)
  BY <1>1
<1>3. ASSUME NEW i \in 1 .. Len(r)
      PROVE  /\ r[i].type = "enter" => r[i].offer.n \in 1 .. k /\ r[i].offer.drag
             /\ d.is \in {"accepted", "dropped"} => r[i].type \notin {"enter", "leave"}
             /\ r[i].type = "drop" => d.is = "dropped"
  <2>1. CASE i \in 1 .. Len(q)
    <3>1. r[i] = q[i] /\ (q[i].type = "enter" => q[i].offer.n \in 1 .. m /\ q[i].offer.drag)
      BY <1>1, <2>1 DEF Drags
    <3>. QED
      BY <2>1, <3>1 DEF Drags
  <2>. QED
    BY <1>2, <2>1 DEF OfDrag
<1>4. ASSUME NEW i \in 1 .. Len(r), NEW j \in 1 .. Len(r), i < j, OfDrag(r[j])
      PROVE  /\ r[i].type = "enter" => r[i].offer.n # d.n
             /\ r[i].type # "drop"
  <2>1. j \in 1 .. Len(q) /\ i \in 1 .. Len(q)
    BY <1>1, <1>2, <1>4
  <2>2. r[i] = q[i] /\ r[j] = q[j]
    BY <1>1, <2>1
  <2>. QED
    BY <1>4, <2>1, <2>2 DEF Drags
<1>5. Drags(r, d, k)
  BY <1>3, <1>4 DEF Drags
<1>. QED
  BY <1>5 DEF r

LEMMA CancelsTail ==
    ASSUME NEW q \in Seq(Events), q # <<>>, NEW own, NEW m, Cancels(q, own, m)
    PROVE  Cancels(Tail(q), own, m)
BY TailIs DEF Cancels

LEMMA CancelsAppend ==
    ASSUME NEW q \in Seq(Events), NEW e \in Events, NEW own, NEW m, Cancels(q, own, m),
           e.type = "cancelled" =>
               e.n \in 1 .. m /\ (own[e.selection].by = "foot" => own[e.selection].n # e.n)
    PROVE  Cancels(q \o <<e>>, own, m)
<1>. DEFINE r == q \o <<e>>
<1>1. /\ Len(q) \in Nat /\ \A i \in 1 .. Len(q) : r[i] = q[i]
      /\ r[Len(q) + 1] = e
      /\ \A i \in 1 .. Len(r) : i \in 1 .. Len(q) \/ i = Len(q) + 1
  BY AppendOne
<1>. HIDE DEF r
<1>2. Cancels(r, own, m)
  BY <1>1 DEF Cancels
<1>. QED
  BY <1>2 DEF r

LEMMA CancelsMore ==
    ASSUME NEW q, NEW own, NEW m \in Nat, NEW k \in Nat, m <= k, Cancels(q, own, m)
    PROVE  Cancels(q, own, k)
<1>1. \A n \in 1 .. m : n \in 1 .. k
  OBVIOUS
<1>. QED
  BY <1>1 DEF Cancels

\* A cancellation of the source is under way.
Coming(q, sel, n) ==
    \E i \in 1 .. Len(q) : q[i].type = "cancelled" /\ q[i].selection = sel /\ q[i].n = n

LEMMA ComingTail ==
    ASSUME NEW q \in Seq(Events), q # <<>>, NEW sel, NEW n, Coming(q, sel, n)
    PROVE  \/ Coming(Tail(q), sel, n)
           \/ Head(q).type = "cancelled" /\ Head(q).selection = sel /\ Head(q).n = n
<1>1. PICK i \in 1 .. Len(q) : q[i].type = "cancelled" /\ q[i].selection = sel /\ q[i].n = n
  BY DEF Coming
<1>2. CASE i = 1
  BY <1>1, <1>2, TailIs
<1>3. CASE i # 1
  <2>1. Len(q) \in Nat /\ Len(Tail(q)) = Len(q) - 1
    BY TailIs
  <2>2. i - 1 \in 1 .. Len(Tail(q)) /\ (i - 1) + 1 = i
    BY <1>3, <2>1
  <2>3. Tail(q)[i - 1] = q[i]
    BY <2>2, TailIs
  <2>. QED
    BY <1>1, <2>2, <2>3 DEF Coming
<1>. QED
  BY <1>2, <1>3

LEMMA ComingAppend ==
    ASSUME NEW q \in Seq(Events), NEW e \in Events, NEW sel, NEW n
    PROVE  /\ Coming(q, sel, n) => Coming(q \o <<e>>, sel, n)
           /\ e.type = "cancelled" /\ e.selection = sel /\ e.n = n => Coming(q \o <<e>>, sel, n)
BY AppendOne DEF Coming

(***************************************************************************)
(* What is known of the clipboard                                          *)
(***************************************************************************)

\* A drag that was accepted is still what the clipboard has.
Dragged ==
    /\ drag.is = "none" => drag.n = 0
    /\ drag.is # "none" => drag.n \in 1 .. made
    /\ drag.is \in {"accepted", "dropped"} =>
          clip["clipboard"].window /\ clip["clipboard"].offer.drag

\* foot has its source while it is the owner, and until it hears that it no longer is.
Sources == \A sel \in Selections :
    /\ owner[sel].n \in 0 .. made
    /\ owner[sel].by = "foot" => clip[sel].source = owner[sel].n /\ owner[sel].n # 0
    /\ clip[sel].source # 0 => owner[sel].by = "foot" \/ Coming(queue, sel, clip[sel].source)

Told == \A sel \in Selections : focused => Latest(queue, sel, current[sel], owner[sel].n)

\* Better types are listed in an offer only if they were chosen.
Best(p) == \A i \in DOMAIN p.offer.mimes :
    p.offer.mimes[i] # "other" => Copying!Rank(p.offer.mimes[i]) <= Copying!Rank(p.type)

Received(p) ==
    /\ \A i \in DOMAIN p.got : p.got[i] = p.expected
    /\ Len(p.got) <= 2 /\ p.id \in 1 .. begun /\ pasting[p.term]
    /\ p.by = "other" => p.expected = p.offer.n
    /\ Best(p)

\* Each terminal receives one text at most.
Receiving ==
    /\ \A p \in pastes : Received(p)
    /\ \A p, q \in pastes : q # p => q.term # p.term /\ q.id # p.id
    /\ \A t \in Tabs : pasting[t] => \E p \in pastes : p.term = t
    /\ \A w \in writes :
          /\ w.paste \in 1 .. begun
          /\ \A p \in pastes : p.id = w.paste =>
                p.by = "foot" /\ p.expected = w.text /\ Len(p.got) = 1

CInv ==
    /\ Typed
    /\ Drags(queue, drag, made) /\ Dragged
    /\ Cancels(queue, owner, made) /\ Sources
    /\ Told
    /\ Requests(queue, pastes, begun) /\ Receiving

LEMMA CInvIs == CInv => Copying!ClipboardPastesWhatWasCopied
<1>. SUFFICES ASSUME CInv PROVE Copying!ClipboardPastesWhatWasCopied
  OBVIOUS
<1>1. faults = {}
  BY DEF CInv, Typed
<1>2. \A p \in pastes :
          /\ \A i \in DOMAIN p.got : p.got[i] = p.expected
          /\ Len(p.got) <= 2 /\ pasting[p.term]
          /\ \A q \in pastes : q # p => q.term # p.term
          /\ Best(p)
  BY DEF CInv, Receiving, Received
<1>3. \A t \in Tabs : pasting[t] => \E p \in pastes : p.term = t
  BY DEF CInv, Receiving
<1>4. ASSUME NEW sel \in Selections
      PROVE  /\ owner[sel].by = "foot" => clip[sel].source = owner[sel].n
             /\ queue = <<>> => (clip[sel].source # 0 <=> owner[sel].by = "foot")
             /\ queue = <<>> /\ focused => current[sel].n = owner[sel].n
  <2>1. /\ owner[sel].by = "foot" => clip[sel].source = owner[sel].n /\ owner[sel].n # 0
        /\ clip[sel].source # 0 => owner[sel].by = "foot" \/ Coming(queue, sel, clip[sel].source)
    BY DEF CInv, Sources
  <2>2. queue = <<>> => ~Coming(queue, sel, clip[sel].source)
    BY DEF Coming
  <2>3. queue = <<>> /\ focused => current[sel].n = owner[sel].n
    BY DEF CInv, Told, Latest
  <2>. QED
    BY <2>1, <2>2, <2>3
<1>. QED
  BY <1>1, <1>2, <1>3, <1>4 DEF Copying!ClipboardPastesWhatWasCopied, Best

(***************************************************************************)
(* Steps that leave the events under way as they are                       *)
(***************************************************************************)

LEMMA SwitchTabStep ==
    ASSUME CInv, NEW t \in Tabs, Copying!SwitchTab(t)
    PROVE  CInv'
<1>1. UNCHANGED <<clip, owner, queue, focused, drag, pasting, pastes, writes, made, begun, current, faults>>
      /\ pasteTab' \in Tabs
  BY DEF Copying!SwitchTab
<1>2. Typed'
  BY <1>1 DEF CInv, Typed
<1>3. Dragged' /\ Sources' /\ Told'
  BY <1>1 DEF CInv, Dragged, Sources, Told
<1>4. Receiving'
  BY <1>1 DEF CInv, Receiving, Received, Best
<1>. QED
  BY <1>1, <1>2, <1>3, <1>4 DEF CInv

\* One paste has got more: the others are as they were.
LEMMA Replaced ==
    ASSUME CInv, NEW x \in pastes, NEW y, UNCHANGED <<pasting, begun>>,
           pastes' = (pastes \ {x}) \cup {y}, y.id = x.id, y.term = x.term,
           Received(y)',
           \A w \in writes' :
              /\ w \in writes \/ w.paste = x.id
              /\ w.paste = x.id => y.by = "foot" /\ y.expected = w.text /\ Len(y.got) = 1
    PROVE  Receiving'
<1>1. \A q \in pastes' : (q \in pastes /\ q # x) \/ q = y
  OBVIOUS
<1>2. \A q \in pastes : Received(q)'
  BY DEF CInv, Receiving, Received, Best
<1>3. \A p, q \in pastes : q # p => q.term # p.term /\ q.id # p.id
  BY DEF CInv, Receiving
<1>4. \A p, q \in pastes' : q # p => q.term # p.term /\ q.id # p.id
  BY <1>1, <1>3
<1>5. ASSUME NEW t \in Tabs, pasting'[t] PROVE \E q \in pastes' : q.term = t
  <2>1. PICK p \in pastes : p.term = t
    BY <1>5 DEF CInv, Receiving
  <2>2. IF p = x THEN y \in pastes' /\ y.term = t ELSE p \in pastes'
    BY <2>1
  <2>. QED
    BY <2>1, <2>2
<1>6. ASSUME NEW w \in writes'
      PROVE  /\ w.paste \in 1 .. begun'
             /\ \A p \in pastes' : p.id = w.paste =>
                   p.by = "foot" /\ p.expected = w.text /\ Len(p.got) = 1
  <2>1. x.id \in 1 .. begun /\ \A v \in writes : v.paste \in 1 .. begun
    BY DEF CInv, Receiving, Received
  <2>2. w.paste \in 1 .. begun'
    BY <1>6, <2>1
  <2>3. ASSUME NEW p \in pastes', p.id = w.paste
        PROVE  p.by = "foot" /\ p.expected = w.text /\ Len(p.got) = 1
    <3>1. CASE p = y
      BY <1>6, <2>3, <3>1
    <3>2. CASE p # y
      <4>1. p \in pastes /\ p.id # x.id
        BY <1>1, <1>3, <3>2
      <4>. QED
        BY <1>6, <2>3, <4>1 DEF CInv, Receiving
    <3>. QED
      BY <3>1, <3>2
  <2>. QED
    BY <2>2, <2>3
<1>7. \A q \in pastes' : Received(q)'
  BY <1>1, <1>2
<1>. QED
  BY <1>4, <1>5, <1>6, <1>7 DEF Receiving

LEMMA PasteGets ==
    ASSUME NEW p \in Pastes, NEW b \in BOOLEAN, NEW g \in Seq(Nat)
    PROVE  LET q == [p EXCEPT !.got = g, !.closed = b]
               r == [p EXCEPT !.got = g]
           IN /\ q \in Pastes /\ q.id = p.id /\ q.term = p.term /\ q.by = p.by /\ q.type = p.type
              /\ q.offer = p.offer /\ q.expected = p.expected /\ q.got = g
              /\ r \in Pastes /\ r.id = p.id /\ r.term = p.term /\ r.by = p.by /\ r.type = p.type
              /\ r.offer = p.offer /\ r.expected = p.expected /\ r.got = g
BY DEF Pastes

LEMMA Pieces ==
    ASSUME NEW n \in Nat
    PROVE  /\ <<n>> \in Seq(Nat) /\ Len(<<n>>) = 1 /\ \A i \in DOMAIN <<n>> : <<n>>[i] = n
           /\ <<n, n>> \in Seq(Nat) /\ Len(<<n, n>>) = 2
           /\ \A i \in DOMAIN <<n, n>> : <<n, n>>[i] = n
OBVIOUS

\* The owner's text is what was expected.
LEMMA OtherWritesStep ==
    ASSUME CInv, NEW p \in pastes, Copying!OtherWrites(p)
    PROVE  CInv'
<1>. DEFINE n == p.offer.n
            pp == [p EXCEPT !.got = <<n, n>>]
<1>1. /\ UNCHANGED <<clip, owner, queue, focused, drag, pasteTab, pasting, writes, made, begun, current, faults>>
      /\ p.by = "other" /\ p.got = <<>> /\ pastes' = (pastes \ {p}) \cup {pp}
  BY DEF Copying!OtherWrites
<1>2. p \in Pastes /\ n \in Nat
  BY DEF CInv, Typed, Pastes, DataOffers
<1>3. /\ pp \in Pastes /\ pp.id = p.id /\ pp.term = p.term /\ pp.by = p.by /\ pp.type = p.type
      /\ pp.offer = p.offer /\ pp.expected = p.expected /\ pp.got = <<n, n>>
  BY <1>2, PasteGets, Pieces, ZenonT(30)
<1>. HIDE DEF pp
<1>4. Typed'
  BY <1>1, <1>3 DEF CInv, Typed
<1>5. Dragged' /\ Sources' /\ Told'
  BY <1>1 DEF CInv, Dragged, Sources, Told
<1>6. Requests(queue, pastes', begun)
  <2>1. \A i \in 1 .. Len(queue) : queue[i].type = "send" => queue[i].paste # pp.id
    BY <1>1, <1>3 DEF CInv, Requests
  <2>2. Requests(queue, pastes, begun) /\ begun \in Nat
    BY DEF CInv, Typed
  <2>3. \A q \in pastes' : q \in pastes \/ q = pp
    BY <1>1
  <2>. QED
    BY <2>1, <2>2, <2>3, RequestsPastes
<1>7. Received(pp)'
  <2>1. p.expected = n /\ Best(p) /\ pasting[p.term] /\ p.id \in 1 .. begun
    BY <1>1 DEF CInv, Receiving, Received
  <2>. QED
    BY <1>1, <1>2, <1>3, <2>1, Pieces DEF Received, Best
<1>8. Receiving'
  <2>1. \A w \in writes : w.paste # p.id
    BY <1>1 DEF CInv, Receiving
  <2>. QED
    BY <1>1, <1>3, <1>7, <2>1, Replaced
<1>. QED
  BY <1>1, <1>4, <1>5, <1>6, <1>8 DEF CInv

\* receive_offer_done() and receive_dnd_done(): the terminal may receive another text.
LEMMA ReceiveDoneStep ==
    ASSUME CInv, NEW p \in pastes, Copying!ReceiveDone(p)
    PROVE  CInv'
<1>1. /\ UNCHANGED <<clip, owner, queue, focused, drag, pasteTab, made, begun, current, faults>>
      /\ pastes' = pastes \ {p} /\ pasting' = [pasting EXCEPT ![p.term] = FALSE]
      /\ writes' = {w \in writes : w.paste # p.id}
  BY DEF Copying!ReceiveDone
<1>2. Typed'
  BY <1>1 DEF CInv, Typed
<1>3. Dragged' /\ Sources' /\ Told'
  BY <1>1 DEF CInv, Dragged, Sources, Told
<1>4. Requests(queue, pastes', begun)
  <2>1. Requests(queue, pastes, begun) /\ begun \in Nat
    BY DEF CInv, Typed
  <2>. QED
    BY <1>1, <2>1, RequestsPastes
<1>5. p.term \in Tabs /\ pasting \in [Tabs -> BOOLEAN]
  BY DEF CInv, Typed, Pastes
<1>6. \A q \in pastes' : q.term # p.term /\ pasting'[q.term] = pasting[q.term]
  BY <1>1, <1>5 DEF CInv, Receiving, Typed, Pastes
<1>7. \A q \in pastes' : Received(q)'
  BY <1>1, <1>6 DEF CInv, Receiving, Received, Best
<1>8. ASSUME NEW t \in Tabs, pasting'[t] PROVE \E q \in pastes' : q.term = t
  <2>1. t # p.term /\ pasting[t]
    BY <1>1, <1>5, <1>8
  <2>2. PICK q \in pastes : q.term = t
    BY <2>1 DEF CInv, Receiving
  <2>. QED
    BY <1>1, <2>1, <2>2
<1>9. Receiving'
  BY <1>1, <1>7, <1>8 DEF CInv, Receiving
<1>. QED
  BY <1>1, <1>2, <1>3, <1>4, <1>9 DEF CInv

\* Nobody waits for what is written: what is left of the writes fits.
LEMMA FewerWrites ==
    ASSUME CInv, UNCHANGED <<pasting, begun, pastes>>, writes' \subseteq writes
    PROVE  Receiving'
BY DEF CInv, Receiving, Received, Best

\* What remains of the owner's text is written later (fdm_send()).
LEMMA FdmSendStep ==
    ASSUME CInv, NEW w \in writes, Copying!FdmSend(w)
    PROVE  CInv'
<1>1. /\ UNCHANGED <<clip, owner, queue, focused, drag, pasteTab, pasting, made, begun, current, faults>>
      /\ writes' = writes \ {w}
      /\ pastes' = {IF p.id = w.paste THEN [p EXCEPT !.got = p.got \o <<w.text>>, !.closed = TRUE]
                                      ELSE p : p \in pastes}
  BY DEF Copying!FdmSend, Copying!Got
<1>2. w.paste \in Nat /\ w.text \in Nat /\ pastes \subseteq Pastes /\ begun \in Nat
      /\ Requests(queue, pastes, begun)
      /\ writes \subseteq [paste : Nat, text : Nat]
  BY DEF CInv, Typed
<1>3. CASE \A p \in pastes : p.id # w.paste
  <2>1. pastes' = pastes
    BY <1>1, <1>3
  <2>2. Typed'
    BY <1>1, <2>1 DEF CInv, Typed
  <2>3. Dragged' /\ Sources' /\ Told'
    BY <1>1 DEF CInv, Dragged, Sources, Told
  <2>4. Receiving'
    BY <1>1, <2>1, FewerWrites
  <2>. QED
    BY <1>1, <2>1, <2>2, <2>3, <2>4 DEF CInv
<1>4. ASSUME NEW x \in pastes, x.id = w.paste PROVE CInv'
  <2>. DEFINE y == [x EXCEPT !.got = x.got \o <<w.text>>, !.closed = TRUE]
  <2>1. x.by = "foot" /\ x.expected = w.text /\ Len(x.got) = 1 /\ Received(x)
    BY <1>4 DEF CInv, Receiving
  <2>2. x \in Pastes /\ x.got \in Seq(Nat)
    BY <1>2 DEF Pastes
  <2>3. /\ x.got \o <<w.text>> \in Seq(Nat) /\ Len(x.got \o <<w.text>>) = 2
        /\ \A i \in DOMAIN (x.got \o <<w.text>>) : (x.got \o <<w.text>>)[i] = w.text
    <3>1. 1 \in DOMAIN x.got /\ x.got[1] = w.text
      BY <2>1, <2>2, LenProperties DEF Received
    <3>2. <<w.text>> \in Seq(Nat) /\ Len(<<w.text>>) = 1 /\ <<w.text>>[1] = w.text
      BY <1>2
    <3>. DEFINE g == x.got \o <<w.text>>
    <3>3. g \in Seq(Nat) /\ Len(g) = 2 /\ g[1] = x.got[1] /\ g[2] = <<w.text>>[1]
      <4>1. Len(x.got) = 1 /\ Len(<<w.text>>) = 1
        BY <2>1, <3>2
      <4>2. /\ g \in Seq(Nat) /\ Len(g) = Len(x.got) + Len(<<w.text>>)
            /\ \A i \in 1 .. Len(x.got) : g[i] = x.got[i]
            /\ \A k \in 1 .. Len(<<w.text>>) : g[Len(x.got) + k] = <<w.text>>[k]
        BY <2>2, <3>2, AppendIs
      <4>. HIDE DEF g
      <4>3. g \in Seq(Nat) /\ Len(g) = 1 + 1 /\ g[1 + 1] = <<w.text>>[1] /\ g[1] = x.got[1]
        BY <4>1, <4>2
      <4>. QED
        BY <4>3
    <3>4. DOMAIN g = 1 .. 2
      BY <3>3, LenProperties
    <3>5. \A i \in 1 .. 2 : i = 1 \/ i = 2
      OBVIOUS
    <3>6. g[1] = w.text /\ g[2] = w.text
      BY <3>1, <3>2, <3>3
    <3>. QED
      BY <3>3, <3>4, <3>5, <3>6
  <2>4. /\ y \in Pastes /\ y.id = x.id /\ y.term = x.term /\ y.by = x.by /\ y.type = x.type
        /\ y.offer = x.offer /\ y.expected = x.expected /\ y.got = x.got \o <<w.text>>
    BY <2>2, <2>3, PasteGets, ZenonT(30)
  <2>5. pastes' = (pastes \ {x}) \cup {y}
    <3>1. \A p \in pastes : p.id = w.paste <=> p = x
      BY <1>4 DEF CInv, Receiving
    <3>. QED
      BY <1>1, <3>1
  <2>. HIDE DEF y
  <2>6. Typed'
    BY <1>1, <2>4, <2>5 DEF CInv, Typed
  <2>7. Dragged' /\ Sources' /\ Told'
    BY <1>1 DEF CInv, Dragged, Sources, Told
  <2>8. Requests(queue, pastes', begun)
    <3>1. x.got # <<>>
      BY <2>1
    <3>2. \A i \in 1 .. Len(queue) : queue[i].type = "send" => queue[i].paste # y.id
      BY <1>2, <2>4, <3>1 DEF Requests
    <3>. QED
      BY <1>2, <2>5, <3>2, RequestsPastes
  <2>9. Received(y)'
    <3>1. /\ pasting[x.term] /\ x.id \in 1 .. begun /\ x.expected = w.text /\ x.by = "foot"
          /\ Best(x)
      BY <2>1 DEF Received
    <3>2. Best(y)'
      BY <2>4, <3>1 DEF Best
    <3>3. (\A i \in DOMAIN y.got : y.got[i] = y.expected) /\ Len(y.got) <= 2
      BY <2>3, <2>4, <3>1
    <3>. QED
      BY <1>1, <2>4, <3>1, <3>2, <3>3 DEF Received
  <2>10. Receiving'
    <3>1. ASSUME NEW v \in writes' PROVE v.paste # x.id
      <4>1. v \in writes /\ v # w /\ v.text \in Nat /\ v.paste \in Nat
        BY <1>1, <1>2
      <4>2. v.paste = x.id => v.text = x.expected
        BY <4>1 DEF CInv, Receiving
      <4>. QED
        BY <1>2, <1>4, <2>1, <4>1, <4>2
    <3>. QED
      BY <1>1, <2>4, <2>5, <2>9, <3>1, Replaced
  <2>. QED
    BY <1>1, <2>6, <2>7, <2>8, <2>10 DEF CInv
<1>. QED
  BY <1>3, <1>4

(***************************************************************************)
(* The next of the events is handled                                       *)
(***************************************************************************)

LEMMA EventsAre ==
    ASSUME NEW e \in Events
    PROVE  /\ e.type = "selection" => e.selection \in Selections /\ e.offer \in DataOffers
           /\ e.type = "cancelled" => e.selection \in Selections /\ e.n \in Nat
           /\ e.type = "send" => e.selection \in Selections /\ e.n \in Nat /\ e.paste \in Nat
           /\ e.type = "enter" => e.offer \in DataOffers
BY DEF Events

LEMMA NextIs ==
    ASSUME CInv, queue # <<>>
    PROVE  /\ Head(queue) \in Events /\ Tail(queue) \in Seq(Events)
           /\ Head(queue) = queue[1] /\ Len(queue) \in Nat \ {0}
           /\ Drags(Tail(queue), drag, made) /\ Cancels(Tail(queue), owner, made)
           /\ Requests(Tail(queue), pastes, begun)
<1>1. queue \in Seq(Events)
  BY DEF CInv, Typed
<1>2. Drags(queue, drag, made) /\ Cancels(queue, owner, made) /\ Requests(queue, pastes, begun)
  BY DEF CInv
<1>3. Drags(Tail(queue), drag, made)
  BY <1>1, <1>2, DragsTail
<1>4. Cancels(Tail(queue), owner, made)
  BY <1>1, <1>2, CancelsTail
<1>5. Requests(Tail(queue), pastes, begun)
  BY <1>1, <1>2, RequestsTail
<1>. QED
  BY <1>1, <1>3, <1>4, <1>5, TailIs

\* What does not tell of a selection leaves what is told of them as it is.
LEMMA ToldTail ==
    ASSUME CInv, queue # <<>>, Head(queue).type # "selection", queue' = Tail(queue),
           UNCHANGED <<focused, current, owner>>
    PROVE  Told'
<1>. SUFFICES ASSUME NEW sel \in Selections, focused
              PROVE  Latest(Tail(queue), sel, current[sel], owner[sel].n)
  BY DEF Told
<1>1. queue \in Seq(Events) /\ Latest(queue, sel, current[sel], owner[sel].n)
  BY DEF CInv, Typed, Told
<1>2. ~Tells(Head(queue), sel)
  BY DEF Tells
<1>. QED
  BY <1>1, <1>2, LatestTail

LEMMA SourcesTail ==
    ASSUME CInv, queue # <<>>, Head(queue).type # "cancelled", queue' = Tail(queue),
           UNCHANGED <<made, owner>>, \A sel \in Selections : clip'[sel].source = clip[sel].source
    PROVE  Sources'
<1>1. \A sel \in Selections :
          Coming(queue, sel, clip[sel].source) => Coming(Tail(queue), sel, clip[sel].source)
  BY ComingTail DEF CInv, Typed
<1>. QED
  BY <1>1 DEF CInv, Sources

\* What is sent for a paste is handled: it may have got something.
LEMMA Sent ==
    ASSUME CInv, queue # <<>>, Head(queue).type = "send", queue' = Tail(queue),
           UNCHANGED <<begun, pasting>>,
           NEW x \in pastes, x.id = Head(queue).paste,
           NEW y, y.id = x.id, y.term = x.term, pastes' = (pastes \ {x}) \cup {y},
           Received(y)',
           \A w \in writes' :
              w \in writes \/ (w.paste = x.id /\ w.text = y.expected /\ y.by = "foot" /\ Len(y.got) = 1)
    PROVE  Requests(queue, pastes, begun)' /\ Receiving'
<1>1. Requests(queue, pastes, begun) /\ begun \in Nat
  BY DEF CInv, Typed
<1>2. queue \in Seq(Events)
  BY DEF CInv, Typed
<1>3. /\ Len(queue) \in Nat \ {0} /\ Len(Tail(queue)) = Len(queue) - 1 /\ Head(queue) = queue[1]
      /\ \A i \in 1 .. Len(Tail(queue)) : i + 1 \in 1 .. Len(queue) /\ Tail(queue)[i] = queue[i + 1]
  BY <1>2, TailIs
<1>4. 1 \in 1 .. Len(queue)
  BY <1>3
<1>5. x.got = <<>>
  BY <1>1, <1>3, <1>4 DEF Requests
<1>6. \A i \in 1 .. Len(Tail(queue)) : Tail(queue)[i].type = "send" => Tail(queue)[i].paste # y.id
  <2>. SUFFICES ASSUME NEW i \in 1 .. Len(Tail(queue)), Tail(queue)[i].type = "send"
                PROVE  Tail(queue)[i].paste # y.id
    OBVIOUS
  <2>1. i + 1 \in 1 .. Len(queue) /\ queue[i + 1] = Tail(queue)[i] /\ 1 < i + 1
    BY <1>3
  <2>. QED
    BY <1>1, <1>3, <1>4, <2>1 DEF Requests
<1>7. Requests(Tail(queue), pastes', begun)
  <2>1. Requests(Tail(queue), pastes, begun)
    BY NextIs
  <2>2. \A p \in pastes' : p \in pastes \/ p = y
    OBVIOUS
  <2>. QED
    <3>. DEFINE q == Tail(queue)
    <3>1. /\ Requests(q, pastes, begun) /\ begun <= begun
          /\ \A i \in 1 .. Len(q) : q[i].type = "send" => q[i].paste # y.id
      BY <1>1, <1>6, <2>1
    <3>. HIDE DEF q
    <3>2. \A p \in pastes' : p \in pastes \/ \A i \in 1 .. Len(q) : q[i].type = "send" => q[i].paste # p.id
      BY <2>2, <3>1
    <3>3. Requests(q, pastes', begun)
      BY <1>1, <3>1, <3>2, RequestsPastes
    <3>. QED
      BY <3>3 DEF q
<1>8. \A w \in writes : w.paste # x.id
  BY <1>5 DEF CInv, Receiving
<1>9. Receiving'
  BY <1>8, Replaced
<1>. QED
  BY <1>7, <1>9

\* send() and primary_send(): what is written is the text that was asked for, as
\* foot has no other under that source.
LEMMA SendStep ==
    ASSUME CInv, NEW all \in BOOLEAN, Copying!Send(all)
    PROVE  CInv'
<1>. DEFINE e == Head(queue)
            source == clip[e.selection].source
<1>1. /\ UNCHANGED <<clip, owner, focused, drag, pasteTab, pasting, made, begun, current, faults>>
      /\ queue # <<>> /\ e.type = "send" /\ queue' = Tail(queue)
      /\ IF source = e.n
         THEN /\ pastes' = {IF p.id # e.paste THEN p
                            ELSE IF all THEN [p EXCEPT !.got = <<source, source>>, !.closed = TRUE]
                            ELSE [p EXCEPT !.got = <<source>>] : p \in pastes}
              /\ writes' = IF all THEN writes ELSE writes \cup {[paste |-> e.paste, text |-> source]}
         ELSE /\ pastes' = {IF p.id = e.paste THEN [p EXCEPT !.got = p.got \o <<>>, !.closed = TRUE]
                            ELSE p : p \in pastes}
              /\ writes' = writes
  BY DEF Copying!Send, Copying!IsNext, Copying!Handled, Copying!SendClipboardOrPrimary, Copying!Got
<1>2. /\ e \in Events /\ Tail(queue) \in Seq(Events) /\ e = queue[1] /\ 1 \in 1 .. Len(queue)
      /\ Drags(Tail(queue), drag, made) /\ Cancels(Tail(queue), owner, made)
      /\ Requests(Tail(queue), pastes, begun) /\ Requests(queue, pastes, begun)
  <2>1. e = queue[1] /\ Len(queue) \in Nat \ {0}
    BY <1>1, NextIs
  <2>2. 1 \in 1 .. Len(queue)
    BY <2>1
  <2>3. Requests(queue, pastes, begun)
    BY DEF CInv
  <2>. QED
    BY <1>1, <2>1, <2>2, <2>3, NextIs
<1>. HIDE DEF e
<1>3. e.selection \in Selections /\ e.n \in Nat /\ e.paste \in Nat
  BY <1>1, <1>2, EventsAre
<1>4. e.paste \in 1 .. begun
  BY <1>1, <1>2 DEF Requests
<1>5. source \in Nat
  BY <1>3 DEF CInv, Typed
<1>. HIDE DEF source
<1>6. writes' \subseteq [paste : Nat, text : Nat]
  <2>1. writes \subseteq [paste : Nat, text : Nat]
    BY DEF CInv, Typed
  <2>2. [paste |-> e.paste, text |-> source] \in [paste : Nat, text : Nat]
    BY <1>3, <1>5
  <2>3. writes' \subseteq writes \cup {[paste |-> e.paste, text |-> source]}
    BY <1>1
  <2>. QED
    BY <2>1, <2>2, <2>3
<1>10. \A w \in writes' : w \in writes \/ (w.paste = e.paste /\ w.text = source)
  <2>1. \A w \in writes' : w \in writes \/ w = [paste |-> e.paste, text |-> source]
    BY <1>1
  <2>. QED
    BY <2>1
<1>7. Dragged' /\ Sources' /\ Told'
  <2>1. e.type # "cancelled" /\ e.type # "selection"
    BY <1>1
  <2>2. Sources'
    BY <1>1, <2>1, SourcesTail DEF e
  <2>3. Told'
    BY <1>1, <2>1, ToldTail DEF e
  <2>. QED
    BY <1>1, <2>2, <2>3 DEF CInv, Dragged
<1>8. CASE \A p \in pastes : p.id # e.paste
  <2>1. pastes' = pastes
    BY <1>1, <1>8
  <2>2. \A w \in writes' : w \in writes \/ w.paste = e.paste
    BY <1>10
  <2>3. Receiving'
    BY <1>1, <1>4, <1>8, <2>1, <2>2 DEF CInv, Receiving, Received, Best
  <2>4. Typed'
    BY <1>1, <1>2, <1>6, <2>1 DEF CInv, Typed
  <2>. QED
    BY <1>1, <1>2, <1>7, <2>1, <2>3, <2>4 DEF CInv
<1>9. ASSUME NEW x \in pastes, x.id = e.paste PROVE CInv'
  <2>1. x.by = "foot" /\ x.expected = e.n /\ x.got = <<>>
    BY <1>1, <1>2, <1>9 DEF Requests
  <2>2. x \in Pastes
    BY DEF CInv, Typed
  <2>3. \A p \in pastes : p.id = e.paste <=> p = x
    BY <1>9 DEF CInv, Receiving
  <2>4. Received(x)
    BY DEF CInv, Receiving
  <2>5. ASSUME NEW y \in Pastes, NEW g \in Seq(Nat), y.id = x.id, y.term = x.term, y.by = x.by,
               y.type = x.type, y.offer = x.offer, y.expected = x.expected, y.got = g,
               \A i \in DOMAIN g : g[i] = x.expected, Len(g) <= 2,
               pastes' = (pastes \ {x}) \cup {y},
               \A w \in writes' : w \in writes \/ (w.paste = e.paste /\ w.text = e.n /\ Len(g) = 1)
        PROVE  CInv'
    <3>1. /\ pasting[x.term] /\ x.id \in 1 .. begun /\ Best(x)
      BY <2>4 DEF Received
    <3>2. Best(y)'
      BY <2>5, <3>1 DEF Best
    <3>3. Received(y)'
      BY <1>1, <2>1, <2>5, <3>1, <3>2 DEF Received
    <3>4. Requests(queue, pastes, begun)' /\ Receiving'
      BY <1>1, <1>9, <2>1, <2>5, <3>3, Sent DEF e
    <3>5. Typed'
      BY <1>1, <1>2, <1>6, <2>5 DEF CInv, Typed
    <3>. QED
      BY <1>1, <1>2, <1>7, <3>4, <3>5 DEF CInv
  <2>6. CASE source # e.n
    <3>. DEFINE g == x.got \o <<>>
                y == [x EXCEPT !.got = x.got \o <<>>, !.closed = TRUE]
    <3>1. g \in Seq(Nat) /\ Len(g) <= 2 /\ \A i \in DOMAIN g : g[i] = x.expected
      BY <2>1
    <3>2. /\ y \in Pastes /\ y.id = x.id /\ y.term = x.term /\ y.by = x.by /\ y.type = x.type
          /\ y.offer = x.offer /\ y.expected = x.expected /\ y.got = g
      BY <2>2, <3>1, PasteGets, ZenonT(30)
    <3>3. pastes' = (pastes \ {x}) \cup {y}
      BY <1>1, <2>3, <2>6
    <3>4. \A w \in writes' : w \in writes \/ (w.paste = e.paste /\ w.text = e.n /\ Len(g) = 1)
      BY <1>1, <2>6
    <3>. HIDE DEF y, g
    <3>. QED
      BY <2>5, <3>1, <3>2, <3>3, <3>4
  <2>7. CASE source = e.n /\ all
    <3>. DEFINE g == <<e.n, e.n>>
                y == [x EXCEPT !.got = <<e.n, e.n>>, !.closed = TRUE]
    <3>1. g \in Seq(Nat) /\ Len(g) <= 2 /\ \A i \in DOMAIN g : g[i] = x.expected
      BY <1>3, <2>1, Pieces
    <3>2. /\ y \in Pastes /\ y.id = x.id /\ y.term = x.term /\ y.by = x.by /\ y.type = x.type
          /\ y.offer = x.offer /\ y.expected = x.expected /\ y.got = g
      BY <2>2, <3>1, PasteGets, ZenonT(30)
    <3>3. pastes' = (pastes \ {x}) \cup {y}
      BY <1>1, <2>3, <2>7
    <3>4. \A w \in writes' : w \in writes \/ (w.paste = e.paste /\ w.text = e.n /\ Len(g) = 1)
      BY <1>1, <2>7
    <3>. HIDE DEF y, g
    <3>. QED
      BY <2>5, <3>1, <3>2, <3>3, <3>4
  <2>8. CASE source = e.n /\ ~all
    <3>. DEFINE g == <<e.n>>
                y == [x EXCEPT !.got = <<e.n>>]
    <3>1. g \in Seq(Nat) /\ Len(g) <= 2 /\ Len(g) = 1 /\ \A i \in DOMAIN g : g[i] = x.expected
      BY <1>3, <2>1, Pieces
    <3>2. /\ y \in Pastes /\ y.id = x.id /\ y.term = x.term /\ y.by = x.by /\ y.type = x.type
          /\ y.offer = x.offer /\ y.expected = x.expected /\ y.got = g
      BY <2>2, <3>1, PasteGets
    <3>3. pastes' = (pastes \ {x}) \cup {y}
      BY <1>1, <2>3, <2>8
    <3>4. \A w \in writes' : w \in writes \/ (w.paste = e.paste /\ w.text = e.n /\ Len(g) = 1)
      BY <1>10, <2>8, <3>1
    <3>. HIDE DEF y, g
    <3>. QED
      BY <2>5, <3>1, <3>2, <3>3, <3>4
  <2>. QED
    BY <2>6, <2>7, <2>8
<1>. QED
  BY <1>8, <1>9

(***************************************************************************)
(* The best type of an offer                                               *)
(***************************************************************************)

\* A set of natural numbers that is not empty has a least element.
LEMMA LeastExists ==
    ASSUME NEW S, S \subseteq Nat, S # {}
    PROVE  \E x \in S : \A y \in S : x <= y
<1>. DEFINE Less == {ss \in Nat \X Nat : ss[1] < ss[2]}
<1>1. IsWellFoundedOn(Less, Nat)
  BY NatLessThanWellFounded DEF OpToRel
<1>2. \A x, y \in Nat : x < y => <<x, y>> \in Less
  OBVIOUS
<1>. HIDE DEF Less
<1>3. \E x \in S : \A y \in S : <<y, x>> \notin Less
  BY <1>1, WFMin, Zenon
<1>4. PICK x \in S : \A y \in S : <<y, x>> \notin Less
  BY <1>3
<1>5. \A y \in S : ~(y < x)
  BY <1>2, <1>4
<1>. QED
  BY <1>5

\* Mathematical induction, for the set of the numbers that something holds for
LEMMA Inductive ==
    ASSUME NEW S, S \subseteq Nat, 0 \in S, \A n \in S : n + 1 \in S
    PROVE  S = Nat
<1>. DEFINE Rest == Nat \ S
<1>. SUFFICES ASSUME Rest # {} PROVE FALSE
  OBVIOUS
<1>1. PICK x \in Rest : \A y \in Rest : x <= y
  <2>1. Rest \subseteq Nat
    OBVIOUS
  <2>. HIDE DEF Rest
  <2>. QED
    BY <2>1, LeastExists
<1>2. x - 1 \in Nat /\ x - 1 < x /\ (x - 1) + 1 = x
  BY <1>1
<1>3. x - 1 \in S
  BY <1>1, <1>2
<1>. QED
  BY <1>1, <1>2, <1>3

Chosen(mimes, n, f) ==
    f = [k \in 0 .. n |-> IF k = 0 THEN "none" ELSE Copying!SelectMimeType(f[k - 1], mimes[k])]

LEMMA ChosenExist ==
    ASSUME NEW mimes
    PROVE  \A n \in Nat : \E f : Chosen(mimes, n, f)
<1>. DEFINE Have == {n \in Nat : \E f : Chosen(mimes, n, f)}
            G(f, k) == IF k = 0 THEN "none" ELSE Copying!SelectMimeType(f[k - 1], mimes[k])
<1>1. 0 \in Have
  <2>. DEFINE f == [k \in 0 .. 0 |-> "none"]
  <2>1. \A k \in 0 .. 0 : k = 0
    OBVIOUS
  <2>2. f = [k \in 0 .. 0 |-> G(f, k)]
    BY <2>1
  <2>. QED
    BY <2>2 DEF Chosen
<1>2. ASSUME NEW n \in Have PROVE n + 1 \in Have
  <2>1. n \in Nat /\ n + 1 \in Nat /\ n \in 0 .. n
    OBVIOUS
  <2>2. PICK f : f = [k \in 0 .. n |-> G(f, k)]
    BY DEF Chosen
  <2>. DEFINE last == Copying!SelectMimeType(f[n], mimes[n + 1])
              g == [k \in 0 .. n + 1 |-> IF k = n + 1 THEN last ELSE f[k]]
  <2>. HIDE DEF last
  <2>3. \A k \in 0 .. n : g[k] = f[k]
    BY <2>1
  <2>4. g[n + 1] = last
    BY <2>1
  <2>5. ASSUME NEW k \in 0 .. n + 1 PROVE g[k] = G(g, k)
    <3>1. CASE k = 0
      BY <2>1, <2>2, <2>3, <3>1
    <3>2. CASE k # 0 /\ k \in 0 .. n
      <4>1. k - 1 \in 0 .. n
        BY <2>1, <3>2
      <4>2. g[k] = f[k] /\ g[k - 1] = f[k - 1]
        BY <2>3, <3>2, <4>1
      <4>3. f[k] = G(f, k)
        BY <2>2, <3>2
      <4>. QED
        BY <3>2, <4>2, <4>3
    <3>3. CASE k = n + 1
      <4>1. k # 0 /\ k - 1 = n
        BY <2>1, <3>3
      <4>. QED
        BY <2>1, <2>3, <2>4, <3>3, <4>1 DEF last
    <3>. QED
      BY <2>1, <3>1, <3>2, <3>3
  <2>6. g = [k \in 0 .. n + 1 |-> G(g, k)]
    BY <2>5
  <2>. HIDE DEF g
  <2>. QED
    BY <2>1, <2>6 DEF Chosen
<1>. HIDE DEF Have
<1>3. Have \subseteq Nat
  BY DEF Have
<1>4. Have = Nat
  BY <1>1, <1>2, <1>3, Inductive
<1>. QED
  BY <1>4 DEF Have

\* select_mime_type_for_offer(): what is chosen is as good as what was, and as what is offered.
LEMMA SelectIs ==
    ASSUME NEW type \in Types, NEW mime \in Mimes
    PROVE  /\ Copying!SelectMimeType(type, mime) \in Types
           /\ Copying!Rank(type) <= Copying!Rank(Copying!SelectMimeType(type, mime))
           /\ mime # "other" =>
                Copying!Rank(mime) <= Copying!Rank(Copying!SelectMimeType(type, mime))
           /\ Copying!Rank(type) \in Nat
BY DEF Types, Mimes, Copying!SelectMimeType, Copying!Rank, Copying!None

LEMMA MimeTypeIs ==
    ASSUME NEW offer \in DataOffers
    PROVE  /\ Copying!MimeType(offer) \in Types
           /\ \A i \in DOMAIN offer.mimes : offer.mimes[i] # "other" =>
                 Copying!Rank(offer.mimes[i]) <= Copying!Rank(Copying!MimeType(offer))
<1>. DEFINE mimes == offer.mimes
            f == CHOOSE g : Chosen(mimes, Len(mimes), g)
            R(x) == Copying!Rank(x)
<1>1. mimes \in Seq(Mimes) /\ Len(mimes) \in Nat /\ DOMAIN mimes = 1 .. Len(mimes)
  BY LenProperties DEF DataOffers
<1>2. Chosen(mimes, Len(mimes), f)
  BY <1>1, ChosenExist, Zenon
<1>3. Copying!MimeType(offer) = f[Len(mimes)]
  BY Zenon DEF Copying!MimeType, Chosen, Copying!None
<1>. HIDE DEF f
<1>4. \A k \in 0 .. Len(mimes) : f[k] = IF k = 0 THEN "none"
                                        ELSE Copying!SelectMimeType(f[k - 1], mimes[k])
  BY <1>2 DEF Chosen
<1>. HIDE DEF mimes
<1>. DEFINE Good(n) == /\ f[n] \in Types
                       /\ \A i \in 1 .. n : mimes[i] # "other" => R(mimes[i]) <= R(f[n])
            Have == {n \in Nat : n <= Len(mimes) => Good(n)}
<1>5. 0 \in Have
  <2>1. f[0] = "none"
    BY <1>1, <1>4
  <2>. QED
    BY <2>1 DEF Types
<1>6. ASSUME NEW n \in Have PROVE n + 1 \in Have
  <2>. SUFFICES ASSUME n + 1 <= Len(mimes) PROVE Good(n + 1)
    OBVIOUS
  <2>1. n \in Nat /\ n + 1 \in 1 .. Len(mimes) /\ (n + 1) - 1 = n /\ n <= Len(mimes)
    BY <1>1
  <2>2. f[n + 1] = Copying!SelectMimeType(f[n], mimes[n + 1])
    BY <1>4, <2>1
  <2>3. f[n] \in Types /\ \A i \in 1 .. n : mimes[i] # "other" => R(mimes[i]) <= R(f[n])
    BY <2>1
  <2>4. \A i \in 1 .. Len(mimes) : mimes[i] \in Mimes
    BY <1>1, ElementOfSeq
  <2>5. mimes[n + 1] \in Mimes
    BY <2>1, <2>4
  <2>6. /\ f[n + 1] \in Types /\ R(f[n]) <= R(f[n + 1])
        /\ mimes[n + 1] # "other" => R(mimes[n + 1]) <= R(f[n + 1])
    BY <2>2, <2>3, <2>5, SelectIs
  <2>7. \A x \in Types \cup (Mimes \ {"other"}) : R(x) \in Nat
    BY DEF Types, Mimes, Copying!Rank, Copying!None
  <2>8. ASSUME NEW i \in 1 .. n + 1, mimes[i] # "other" PROVE R(mimes[i]) <= R(f[n + 1])
    <3>1. CASE i \in 1 .. n
      <4>1. mimes[i] \in Mimes
        BY <1>1, <2>1, <2>4, <3>1
      <4>2. R(mimes[i]) \in Nat /\ R(f[n]) \in Nat /\ R(f[n + 1]) \in Nat
        BY <2>3, <2>6, <2>7, <2>8, <4>1
      <4>3. R(mimes[i]) <= R(f[n])
        BY <2>3, <2>8, <3>1
      <4>. HIDE DEF R
      <4>. QED
        BY <2>6, <4>2, <4>3
    <3>2. CASE i = n + 1
      BY <2>6, <2>8, <3>2
    <3>. QED
      BY <2>1, <3>1, <3>2
  <2>. QED
    BY <2>6, <2>8
<1>. HIDE DEF Have
<1>7. Have = Nat
  <2>1. Have \subseteq Nat
    BY DEF Have
  <2>. QED
    BY <1>5, <1>6, <2>1, Inductive
<1>8. Good(Len(mimes))
  BY <1>1, <1>7 DEF Have
<1>. QED
  BY <1>1, <1>3, <1>8 DEF mimes

(***************************************************************************)
(* Steps of the compositor's events                                        *)
(***************************************************************************)

\* cancelled() and primary_cancelled(): foot's own source is never one that is cancelled.
LEMMA CancelledStep ==
    ASSUME CInv, Copying!Cancelled
    PROVE  CInv'
<1>. DEFINE e == Head(queue)
<1>1. /\ UNCHANGED <<owner, focused, drag, pasteTab, pasting, pastes, writes, made, begun, current, faults>>
      /\ queue # <<>> /\ e.type = "cancelled" /\ queue' = Tail(queue)
      /\ clip' = IF clip[e.selection].source = e.n THEN [clip EXCEPT ![e.selection].source = 0] ELSE clip
  BY DEF Copying!Cancelled, Copying!IsNext, Copying!Handled
<1>2. /\ e \in Events /\ Tail(queue) \in Seq(Events) /\ e = queue[1] /\ Len(queue) \in Nat \ {0}
      /\ Drags(Tail(queue), drag, made) /\ Cancels(Tail(queue), owner, made)
      /\ Requests(Tail(queue), pastes, begun)
  BY <1>1, NextIs
<1>3. e.selection \in Selections /\ e.n \in Nat
  BY <1>1, <1>2, EventsAre
<1>4. owner[e.selection].by = "foot" => owner[e.selection].n # e.n
  <2>1. 1 \in 1 .. Len(queue)
    BY <1>2
  <2>. QED
    BY <1>1, <1>2, <2>1 DEF CInv, Cancels
<1>5. \A sel \in Selections :
          Coming(queue, sel, clip[sel].source) =>
              Coming(Tail(queue), sel, clip[sel].source) \/ (sel = e.selection /\ clip[sel].source = e.n)
  <2>. SUFFICES ASSUME NEW sel \in Selections, Coming(queue, sel, clip[sel].source)
                PROVE  Coming(Tail(queue), sel, clip[sel].source) \/ (sel = e.selection /\ clip[sel].source = e.n)
    OBVIOUS
  <2>1. queue \in Seq(Events)
    BY DEF CInv, Typed
  <2>. QED
    BY <1>1, <2>1, ComingTail
<1>. HIDE DEF e
<1>6. clip \in [Selections -> [source : Nat, offer : DataOffers, type : Types, window : BOOLEAN]]
  BY DEF CInv, Typed
<1>7. /\ clip' \in [Selections -> [source : Nat, offer : DataOffers, type : Types, window : BOOLEAN]]
      /\ \A sel \in Selections :
            /\ clip'[sel].window = clip[sel].window /\ clip'[sel].offer = clip[sel].offer
            /\ clip'[sel].source = IF sel = e.selection /\ clip[sel].source = e.n THEN 0 ELSE clip[sel].source
  BY <1>1, <1>3, <1>6
<1>8. Typed'
  BY <1>1, <1>2, <1>7 DEF CInv, Typed
<1>9. Dragged'
  BY <1>1, <1>7, ClipboardAssumption DEF CInv, Dragged
<1>10. Sources'
  BY <1>1, <1>4, <1>5, <1>7 DEF CInv, Sources
<1>11. Told'
  BY <1>1, ToldTail DEF e
<1>12. Receiving'
  BY <1>1, FewerWrites
<1>. QED
  BY <1>1, <1>2, <1>8, <1>9, <1>10, <1>11, <1>12 DEF CInv

\* selection() and primary_selection(): it is told what is selected.
LEMMA SelectionStep ==
    ASSUME CInv, Copying!Selection, Admitted = {}
    PROVE  CInv'
<1>. DEFINE e == Head(queue)
            type == Copying!MimeType(e.offer)
<1>1. /\ UNCHANGED <<owner, focused, drag, pasteTab, pasting, pastes, writes, made, begun, faults>>
      /\ queue # <<>> /\ e.type = "selection" /\ queue' = Tail(queue)
      /\ ~(clip[e.selection].window /\ clip[e.selection].offer.drag)
      /\ clip' = [clip EXCEPT ![e.selection].offer = e.offer, ![e.selection].type = type,
                              ![e.selection].window = FALSE]
      /\ current' = [current EXCEPT ![e.selection] = e.offer]
  BY DEF Copying!Selection, Copying!IsNext, Copying!Handled, Copying!Offers
<1>2. /\ e \in Events /\ Tail(queue) \in Seq(Events) /\ queue \in Seq(Events)
      /\ Drags(Tail(queue), drag, made) /\ Cancels(Tail(queue), owner, made)
      /\ Requests(Tail(queue), pastes, begun)
  BY <1>1, NextIs DEF CInv, Typed
<1>3. e.selection \in Selections /\ e.offer \in DataOffers
  BY <1>1, <1>2, EventsAre
<1>4. type \in Types
  BY <1>3, MimeTypeIs
<1>. HIDE DEF type
<1>5. clip \in [Selections -> [source : Nat, offer : DataOffers, type : Types, window : BOOLEAN]]
      /\ current \in [Selections -> DataOffers]
  BY DEF CInv, Typed
<1>6. \A sel \in Selections :
          focused => Latest(Tail(queue), sel, current'[sel], owner[sel].n)
  <2>. SUFFICES ASSUME NEW sel \in Selections, focused
                PROVE  Latest(Tail(queue), sel, current'[sel], owner[sel].n)
    OBVIOUS
  <2>1. Latest(queue, sel, current[sel], owner[sel].n)
    BY DEF CInv, Told
  <2>2. Tells(Head(queue), sel) => current'[sel] = Head(queue).offer
    BY <1>1, <1>3, <1>5 DEF Tells
  <2>3. ~Tells(Head(queue), sel) => current'[sel] = current[sel]
    BY <1>1, <1>3, <1>5 DEF Tells
  <2>. QED
    BY <1>1, <1>2, <2>1, <2>2, <2>3, LatestTail
<1>7. Sources'
  <2>1. \A sel \in Selections : clip'[sel].source = clip[sel].source
    BY <1>1, <1>3, <1>5
  <2>. QED
    BY <1>1, <2>1, SourcesTail
<1>. HIDE DEF e
<1>8. /\ clip' \in [Selections -> [source : Nat, offer : DataOffers, type : Types, window : BOOLEAN]]
      /\ current' \in [Selections -> DataOffers]
      /\ \A sel \in Selections \ {e.selection} : clip'[sel] = clip[sel]
  BY <1>1, <1>3, <1>4, <1>5
<1>9. Typed'
  BY <1>1, <1>2, <1>8 DEF CInv, Typed
<1>10. Dragged'
  BY <1>1, <1>8, ClipboardAssumption DEF CInv, Dragged
<1>11. Told'
  BY <1>1, <1>6 DEF Told
<1>12. Receiving'
  BY <1>1, FewerWrites
<1>. QED
  BY <1>1, <1>2, <1>7, <1>9, <1>10, <1>11, <1>12 DEF CInv

\* enter(): nothing is under way that would undo what it accepts.
LEMMA EnterStep ==
    ASSUME CInv, Copying!Enter
    PROVE  CInv'
<1>. DEFINE e == Head(queue)
            type == Copying!MimeType(e.offer)
            accepts == type # "none" /\ \E t \in Tabs : ~pasting[t]
<1>1. /\ UNCHANGED <<owner, focused, pasteTab, pasting, pastes, writes, made, begun, current, faults>>
      /\ queue # <<>> /\ e.type = "enter" /\ queue' = Tail(queue)
      /\ clip' = [clip EXCEPT !["clipboard"] =
                     [clip["clipboard"] EXCEPT !.offer = e.offer, !.type = type, !.window = accepts]]
      /\ drag' = IF drag.n = e.offer.n /\ accepts THEN [drag EXCEPT !.is = "accepted"] ELSE drag
  BY DEF Copying!Enter, Copying!IsNext, Copying!Handled, Copying!None
<1>2. /\ e \in Events /\ Tail(queue) \in Seq(Events) /\ queue \in Seq(Events)
      /\ e = queue[1] /\ Len(queue) \in Nat \ {0}
      /\ Drags(Tail(queue), drag, made) /\ Cancels(Tail(queue), owner, made)
      /\ Requests(Tail(queue), pastes, begun)
  BY <1>1, NextIs DEF CInv, Typed
<1>3. e.offer \in DataOffers
  BY <1>1, <1>2, EventsAre
<1>4. type \in Types /\ accepts \in BOOLEAN
  BY <1>3, MimeTypeIs
<1>5. clip \in [Selections -> [source : Nat, offer : DataOffers, type : Types, window : BOOLEAN]]
      /\ drag \in [n : Nat, is : {"none", "over", "accepted", "dropped"}] /\ "clipboard" \in Selections
  BY ClipboardAssumption DEF CInv, Typed
<1>6. 1 \in 1 .. Len(queue) /\ Drags(queue, drag, made)
  BY <1>2 DEF CInv
<1>7. e.offer.n \in 1 .. made /\ e.offer.drag /\ drag.is \notin {"accepted", "dropped"}
  BY <1>1, <1>2, <1>6 DEF Drags
<1>8. Told'
  BY <1>1, ToldTail
<1>9. Sources'
  <2>1. \A sel \in Selections : clip'[sel].source = clip[sel].source
    BY <1>1, <1>5
  <2>. QED
    BY <1>1, <2>1, SourcesTail
<1>. DEFINE q == Tail(queue)
<1>10. ASSUME drag.n = e.offer.n PROVE \A i \in 1 .. Len(q) : ~OfDrag(q[i])
  <2>. SUFFICES ASSUME NEW i \in 1 .. Len(q), OfDrag(q[i]) PROVE FALSE
    OBVIOUS
  <2>1. i + 1 \in 1 .. Len(queue) /\ q[i] = queue[i + 1]
    BY <1>1, <1>2, TailIs
  <2>2. 1 < i + 1
    BY <2>1
  <2>. QED
    BY <1>1, <1>2, <1>6, <1>10, <2>1, <2>2 DEF Drags
<1>. HIDE DEF e, q, accepts, type
<1>11. /\ clip' \in [Selections -> [source : Nat, offer : DataOffers, type : Types, window : BOOLEAN]]
       /\ clip'["clipboard"].offer = e.offer /\ clip'["clipboard"].window = accepts
  BY <1>1, <1>3, <1>4, <1>5
<1>12. /\ drag' \in [n : Nat, is : {"none", "over", "accepted", "dropped"}] /\ drag'.n = drag.n
       /\ drag'.is = IF drag.n = e.offer.n /\ accepts THEN "accepted" ELSE drag.is
  BY <1>1, <1>5
<1>13. Typed'
  BY <1>1, <1>2, <1>11, <1>12 DEF CInv, Typed
<1>14. Drags(q, drag', made)
  <2>1. Drags(q, drag, made)
    BY <1>2 DEF q
  <2>2. CASE drag.n = e.offer.n /\ accepts
    <3>1. \A i \in 1 .. Len(q) : ~OfDrag(q[i])
      BY <1>10, <2>2
    <3>. QED
      BY <1>12, <2>1, <3>1 DEF Drags, OfDrag
  <2>3. CASE ~(drag.n = e.offer.n /\ accepts)
    BY <1>12, <2>1, <2>3 DEF Drags
  <2>. QED
    BY <2>2, <2>3
<1>15. Dragged'
  <2>1. /\ drag.is = "none" => drag.n = 0
        /\ drag.is # "none" => drag.n \in 1 .. made
    BY DEF CInv, Dragged
  <2>2. made \in Nat
    BY DEF CInv, Typed
  <2>. QED
    BY <1>1, <1>7, <1>11, <1>12, <2>1, <2>2 DEF Dragged
<1>16. Receiving'
  BY <1>1, FewerWrites
<1>. QED
  BY <1>1, <1>2, <1>8, <1>9, <1>13, <1>14, <1>15, <1>16 DEF CInv, q

\* leave(): what was accepted has not left.
LEMMA LeaveStep ==
    ASSUME CInv, Copying!Leave
    PROVE  CInv'
<1>1. /\ UNCHANGED <<owner, focused, drag, pasteTab, pasting, pastes, writes, made, begun, current, faults>>
      /\ queue # <<>> /\ Head(queue).type = "leave" /\ queue' = Tail(queue)
      /\ clip' = [clip EXCEPT !["clipboard"].window = FALSE]
  BY DEF Copying!Leave, Copying!IsNext, Copying!Handled
<1>2. /\ Tail(queue) \in Seq(Events) /\ Head(queue) = queue[1] /\ Len(queue) \in Nat \ {0}
      /\ Drags(Tail(queue), drag, made) /\ Cancels(Tail(queue), owner, made)
      /\ Requests(Tail(queue), pastes, begun)
  BY <1>1, NextIs
<1>3. clip \in [Selections -> [source : Nat, offer : DataOffers, type : Types, window : BOOLEAN]]
  BY DEF CInv, Typed
<1>4. /\ clip' \in [Selections -> [source : Nat, offer : DataOffers, type : Types, window : BOOLEAN]]
      /\ \A sel \in Selections : clip'[sel].source = clip[sel].source
  BY <1>1, <1>3
<1>5. drag.is \notin {"accepted", "dropped"}
  <2>1. 1 \in 1 .. Len(queue)
    BY <1>2
  <2>. QED
    BY <1>1, <1>2, <2>1 DEF CInv, Drags
<1>6. Typed'
  BY <1>1, <1>2, <1>4 DEF CInv, Typed
<1>7. Dragged'
  BY <1>1, <1>5 DEF CInv, Dragged
<1>8. Sources'
  BY <1>1, <1>4, SourcesTail
<1>9. Told'
  BY <1>1, ToldTail
<1>10. Receiving'
  BY <1>1, FewerWrites
<1>. QED
  BY <1>1, <1>2, <1>6, <1>7, <1>8, <1>9, <1>10 DEF CInv

(***************************************************************************)
(* A terminal begins to receive a text                                     *)
(***************************************************************************)

LEMMA ReceivesStep ==
    ASSUME CInv, NEW t \in Tabs, ~pasting[t], NEW offer \in DataOffers, NEW expected \in Nat, NEW sel,
           offer.by = "other" => expected = offer.n,
           Copying!Receives(t, sel, offer, expected), UNCHANGED writes
    PROVE  /\ pastes' \subseteq Pastes /\ begun' = begun + 1 /\ begun \in Nat
           /\ pasting' \in [Tabs -> BOOLEAN]
           /\ \A p \in pastes' : p.id = begun + 1 => p.by = offer.by /\ p.expected = expected /\ p.got = <<>>
           /\ \A q : Requests(q, pastes, begun) => Requests(q, pastes', begun)
           /\ Receiving'
<1>0. PICK new : new = [id |-> begun + 1, term |-> t, by |-> offer.by, type |-> Copying!MimeType(offer),
                        offer |-> offer, expected |-> expected, got |-> <<>>,
                        closed |-> offer.by = "other"]
  OBVIOUS
<1>1. /\ begun' = begun + 1 /\ pasting' = [pasting EXCEPT ![t] = TRUE] /\ pastes' = pastes \cup {new}
      /\ writes' = writes
  BY <1>0 DEF Copying!Receives
<1>2. pastes \subseteq Pastes /\ begun \in Nat /\ pasting \in [Tabs -> BOOLEAN]
  BY DEF CInv, Typed
<1>3. /\ new.id = begun + 1 /\ new.term = t /\ new.by = offer.by /\ new.type = Copying!MimeType(offer)
      /\ new.offer = offer /\ new.expected = expected /\ new.got = <<>>
  BY <1>0
<1>4. new \in Pastes
  <2>1. Copying!MimeType(offer) \in Types /\ offer.by \in Whose
    BY MimeTypeIs DEF DataOffers
  <2>2. <<>> \in Seq(Nat) /\ (offer.by = "other") \in BOOLEAN /\ begun + 1 \in Nat
    BY <1>2
  <2>. QED
    BY <1>0, <2>1, <2>2 DEF Pastes
<1>5. Best(new)
  BY <1>3, MimeTypeIs DEF Best
<1>6. pastes' \subseteq Pastes /\ pasting' \in [Tabs -> BOOLEAN]
  BY <1>1, <1>2, <1>4
<1>7. \A p \in pastes : Received(p) /\ p.id \in 1 .. begun /\ pasting[p.term] /\ p.term # t
  BY DEF CInv, Receiving, Received
<1>8. \A p \in pastes' : p.id = begun + 1 => p = new
  BY <1>1, <1>2, <1>7
<1>9. \A q : Requests(q, pastes, begun) => Requests(q, pastes', begun)
  <2>. SUFFICES ASSUME NEW q, Requests(q, pastes, begun) PROVE Requests(q, pastes', begun)
    OBVIOUS
  <2>1. \A i \in 1 .. Len(q) : q[i].type = "send" => q[i].paste # new.id
    BY <1>2, <1>3 DEF Requests
  <2>2. \A p \in pastes' : p \in pastes \/ \A i \in 1 .. Len(q) : q[i].type = "send" => q[i].paste # p.id
    BY <1>1, <2>1
  <2>3. begun <= begun
    BY <1>2
  <2>. QED
    BY <1>2, <2>2, <2>3, RequestsPastes
<1>10. \A p \in pastes' : Received(p)'
  <2>1. ASSUME NEW p \in pastes PROVE Received(p)'
    <3>1. Received(p) /\ p.term # t /\ p.id \in 1 .. begun'
      BY <1>1, <1>2, <1>7
    <3>2. p.term \in Tabs
      BY <1>2 DEF Pastes
    <3>3. pasting'[p.term]
      BY <1>1, <1>2, <3>1, <3>2 DEF Received
    <3>4. Best(p)'
      BY <3>1 DEF Received, Best
    <3>. QED
      BY <3>1, <3>3, <3>4 DEF Received
  <2>2. Received(new)'
    <3>1. Len(new.got) <= 2 /\ \A i \in DOMAIN new.got : new.got[i] = new.expected
      BY <1>3
    <3>2. new.id \in 1 .. begun' /\ pasting'[new.term]
      BY <1>1, <1>2, <1>3
    <3>3. Best(new)'
      BY <1>5 DEF Best
    <3>. QED
      BY <1>3, <3>1, <3>2, <3>3 DEF Received
  <2>. QED
    BY <1>1, <2>1, <2>2
<1>11. \A p, q \in pastes' : q # p => q.term # p.term /\ q.id # p.id
  <2>1. \A p, q \in pastes : q # p => q.term # p.term /\ q.id # p.id
    BY DEF CInv, Receiving
  <2>2. \A p \in pastes : p.id # new.id /\ p.term # new.term
    BY <1>2, <1>3, <1>7
  <2>. QED
    BY <1>1, <2>1, <2>2
<1>12. ASSUME NEW u \in Tabs, pasting'[u] PROVE \E p \in pastes' : p.term = u
  <2>1. CASE u = t
    BY <1>1, <1>3, <2>1
  <2>2. CASE u # t
    <3>1. pasting[u]
      BY <1>1, <1>2, <1>12, <2>2
    <3>. QED
      BY <1>1, <3>1 DEF CInv, Receiving
  <2>. QED
    BY <2>1, <2>2
<1>13. ASSUME NEW w \in writes'
       PROVE  /\ w.paste \in 1 .. begun'
              /\ \A p \in pastes' : p.id = w.paste =>
                    p.by = "foot" /\ p.expected = w.text /\ Len(p.got) = 1
  <2>1. /\ w.paste \in 1 .. begun
        /\ \A p \in pastes : p.id = w.paste => p.by = "foot" /\ p.expected = w.text /\ Len(p.got) = 1
    BY <1>1, <1>13 DEF CInv, Receiving
  <2>2. w.paste # new.id /\ w.paste \in 1 .. begun'
    BY <1>1, <1>2, <1>3, <2>1
  <2>. QED
    BY <1>1, <2>1, <2>2
<1>14. Receiving'
  BY <1>10, <1>11, <1>12, <1>13 DEF Receiving
<1>. QED
  BY <1>1, <1>2, <1>3, <1>6, <1>8, <1>9, <1>14

\* Every new paste is of a higher number than those that were sent for.
LEMMA RequestsMore ==
    ASSUME NEW q, NEW ps, NEW top \in Nat, Requests(q, ps, top)
    PROVE  Requests(q, ps, top + 1)
BY RequestsPastes

\* drop(): what was accepted is what is dropped.
LEMMA DropStep ==
    ASSUME CInv, Copying!Drop, Admitted = {}
    PROVE  CInv'
<1>. DEFINE offer == clip["clipboard"].offer
<1>1. /\ UNCHANGED <<owner, focused, pasteTab, writes, made, current>>
      /\ queue # <<>> /\ Head(queue).type = "drop" /\ queue' = Tail(queue)
      /\ ~pasting[pasteTab]
      /\ faults' = faults \cup ((IF ~clip["clipboard"].window THEN {"dropped nowhere"} ELSE {})
                                \cup (IF ~offer.drag THEN {"not what was dragged"} ELSE {}))
      /\ \/ UNCHANGED <<clip, pasting, pastes, begun>>
         \/ /\ Copying!Receives(pasteTab, "clipboard", offer, offer.n)
            /\ clip' = [clip EXCEPT !["clipboard"] =
                           [clip["clipboard"] EXCEPT !.offer = Copying!NoOffer, !.type = "none"]]
      /\ drag' = Copying!NoDrag
  BY DEF Copying!Drop, Copying!IsNext, Copying!Handled, Copying!Fault, Copying!None
<1>2. /\ Tail(queue) \in Seq(Events) /\ Head(queue) = queue[1] /\ Len(queue) \in Nat \ {0}
      /\ queue \in Seq(Events)
      /\ Drags(Tail(queue), drag, made) /\ Cancels(Tail(queue), owner, made)
      /\ Requests(Tail(queue), pastes, begun) /\ Drags(queue, drag, made)
  BY <1>1, NextIs DEF CInv, Typed
<1>3. 1 \in 1 .. Len(queue)
  BY <1>2
<1>4. drag.is = "dropped"
  <2>1. queue[1].type = "drop"
    BY <1>1, <1>2
  <2>. QED
    BY <1>2, <1>3, <2>1 DEF Drags
<1>5. clip["clipboard"].window /\ offer.drag
  BY <1>4 DEF CInv, Dragged
<1>6. faults' = {}
  BY <1>1, <1>5 DEF CInv, Typed
<1>7. clip \in [Selections -> [source : Nat, offer : DataOffers, type : Types, window : BOOLEAN]]
      /\ begun \in Nat /\ "clipboard" \in Selections /\ pasteTab \in Tabs
  BY ClipboardAssumption DEF CInv, Typed
<1>8. offer \in DataOffers /\ offer.n \in Nat
  BY <1>7 DEF DataOffers
<1>. DEFINE q == Tail(queue)
<1>9. \A i \in 1 .. Len(q) : ~OfDrag(q[i])
  <2>. SUFFICES ASSUME NEW i \in 1 .. Len(q), OfDrag(q[i]) PROVE FALSE
    OBVIOUS
  <2>1. i + 1 \in 1 .. Len(queue) /\ q[i] = queue[i + 1]
    BY <1>1, <1>2, TailIs
  <2>2. 1 < i + 1
    BY <2>1
  <2>. QED
    BY <1>1, <1>2, <1>3, <2>1, <2>2 DEF Drags
<1>. HIDE DEF q, offer
<1>10. Drags(q, drag', made')
  BY <1>9 DEF Drags, OfDrag
<1>11. drag' \in [n : Nat, is : {"none", "over", "accepted", "dropped"}] /\ Dragged'
  BY <1>1 DEF Copying!NoDrag, Copying!None, Dragged
<1>12. Copying!NoOffer \in DataOffers
  <2>1. <<>> \in Seq(Mimes)
    OBVIOUS
  <2>. QED
    BY <2>1 DEF Copying!NoOffer, Copying!None, DataOffers, Whose
<1>13. /\ clip' \in [Selections -> [source : Nat, offer : DataOffers, type : Types, window : BOOLEAN]]
       /\ \A sel \in Selections : clip'[sel].source = clip[sel].source
  <2>1. CASE clip' = clip
    BY <1>7, <2>1
  <2>2. CASE clip' = [clip EXCEPT !["clipboard"] =
                         [clip["clipboard"] EXCEPT !.offer = Copying!NoOffer, !.type = "none"]]
    <3>. DEFINE c == [clip["clipboard"] EXCEPT !.offer = Copying!NoOffer, !.type = "none"]
    <3>1. /\ c \in [source : Nat, offer : DataOffers, type : Types, window : BOOLEAN]
          /\ c.source = clip["clipboard"].source
      BY <1>7, <1>12 DEF Types
    <3>. HIDE DEF c
    <3>2. clip' = [clip EXCEPT !["clipboard"] = c]
      BY <2>2 DEF c
    <3>. QED
      BY <1>7, <3>1, <3>2
  <2>. QED
    BY <1>1, <2>1, <2>2
<1>14. Sources' /\ Told'
  BY <1>1, <1>13, SourcesTail, ToldTail
<1>15. /\ pastes' \subseteq Pastes /\ begun' \in Nat /\ pasting' \in [Tabs -> BOOLEAN]
       /\ Requests(q, pastes', begun') /\ Receiving'
  <2>1. CASE UNCHANGED <<clip, pasting, pastes, begun>>
    <3>1. Receiving'
      BY <1>1, <2>1, FewerWrites
    <3>. QED
      BY <1>2, <2>1, <3>1 DEF CInv, Typed, q
  <2>2. CASE Copying!Receives(pasteTab, "clipboard", offer, offer.n)
    <3>1. /\ pastes' \subseteq Pastes /\ begun' = begun + 1 /\ pasting' \in [Tabs -> BOOLEAN]
          /\ \A r : Requests(r, pastes, begun) => Requests(r, pastes', begun)
          /\ Receiving'
      BY <1>1, <1>7, <1>8, <2>2, ReceivesStep
    <3>2. Requests(q, pastes', begun)
      BY <1>2, <3>1 DEF q
    <3>. QED
      BY <1>7, <3>1, <3>2, RequestsMore
  <2>. QED
    BY <1>1, <2>1, <2>2
<1>16. Typed'
  BY <1>1, <1>2, <1>6, <1>11, <1>13, <1>15 DEF CInv, Typed
<1>17. queue' = q /\ Cancels(q, owner', made')
  BY <1>1, <1>2 DEF q
<1>. QED
  BY <1>10, <1>11, <1>14, <1>15, <1>16, <1>17 DEF CInv

(***************************************************************************)
(* What is added to the events                                             *)
(***************************************************************************)

LEMMA Joined ==
    ASSUME NEW q \in Seq(Events), NEW a \in Seq(Events), NEW b \in Seq(Events)
    PROVE  q \o (a \o b) = (q \o a) \o b /\ q \o <<>> = q /\ <<>> \o q = q
BY ConcatAssociative, ConcatEmptySeq

LEMMA One ==
    ASSUME NEW e \in Events PROVE <<e>> \in Seq(Events) /\ <<>> \in Seq(Events)
OBVIOUS

\* The events fit whose the selections are, and what there is.
Fits(q, own, m) ==
    q \in Seq(Events) /\ Drags(q, drag, m) /\ Cancels(q, own, m) /\ Requests(q, pastes, begun)

LEMMA FitsAppend ==
    ASSUME CInv, NEW q, NEW own, NEW m \in Nat, Fits(q, own, m), NEW e \in Events,
           \/ e.type = "selection"
           \/ /\ e.type = "cancelled" /\ e.n \in 1 .. m
              /\ own[e.selection].by = "foot" => own[e.selection].n # e.n
    PROVE  Fits(q \o <<e>>, own, m) /\ \A sel, n : Coming(q, sel, n) => Coming(q \o <<e>>, sel, n)
<1>1. q \in Seq(Events) /\ q \o <<e>> \in Seq(Events) /\ begun \in Nat
  BY AppendOne DEF Fits, CInv, Typed
<1>2. Drags(q \o <<e>>, drag, m)
  <2>1. ~OfDrag(e) /\ Drags(q, drag, m) /\ m <= m
    BY DEF OfDrag, Fits
  <2>. QED
    BY <1>1, <2>1, DragsAppend
<1>3. Cancels(q \o <<e>>, own, m)
  <2>1. Cancels(q, own, m)
    BY DEF Fits
  <2>. QED
    BY <1>1, <2>1, CancelsAppend
<1>4. Requests(q \o <<e>>, pastes, begun)
  <2>1. Requests(q, pastes, begun) /\ begun <= begun /\ e.type # "send"
    BY <1>1 DEF Fits
  <2>. QED
    BY <1>1, <2>1, RequestsAppend
<1>. QED
  BY <1>1, <1>2, <1>3, <1>4, ComingAppend DEF Fits

\* The events that there are still fit when a source or an offer is made.
LEMMA FitsMore ==
    ASSUME CInv, NEW own, NEW m \in Nat, made <= m,
           \A sel \in Selections :
              own[sel] = owner[sel] \/ own[sel].by # "foot" \/ own[sel].n \notin 1 .. made
    PROVE  Fits(queue, own, m)
<1>1. queue \in Seq(Events) /\ made \in Nat
  BY DEF CInv, Typed
<1>2. Drags(queue, drag, made) /\ Cancels(queue, owner, made) /\ Requests(queue, pastes, begun)
  BY DEF CInv
<1>3. Drags(queue, drag, m)
  BY <1>1, <1>2 DEF Drags
<1>4. Cancels(queue, own, m)
  <2>1. \A i \in 1 .. Len(queue) : queue[i] \in Events
    BY <1>1, ElementOfSeq
  <2>2. \A i \in 1 .. Len(queue) : queue[i].type = "cancelled" => queue[i].selection \in Selections
    BY <2>1, EventsAre
  <2>. QED
    BY <1>1, <1>2, <2>2 DEF Cancels
<1>. QED
  BY <1>1, <1>2, <1>3, <1>4 DEF Fits

LEMMA Announcement ==
    ASSUME NEW sel \in Selections, NEW offer \in DataOffers
    PROVE  [type |-> "selection", selection |-> sel, offer |-> offer] \in Events
BY DEF Events

LEMMA Cancellation ==
    ASSUME NEW sel \in Selections, NEW n \in Nat
    PROVE  [type |-> "cancelled", selection |-> sel, n |-> n] \in Events
BY DEF Events

LEMMA NoOfferIs ==
    /\ Copying!NoOffer \in DataOffers /\ Copying!NoOffer.n = 0
    /\ Copying!NoOwner \in [n : Nat, by : Whose] /\ Copying!NoOwner.n = 0 /\ Copying!NoOwner.by = "none"
<1>1. <<>> \in Seq(Mimes)
  OBVIOUS
<1>. QED
  BY <1>1 DEF Copying!NoOffer, Copying!NoOwner, Copying!None, DataOffers, Whose

\* Another client copies a text: foot hears of it if it was the owner, or has the focus.
LEMMA OtherCopiesStep ==
    ASSUME CInv, NEW sel \in Selections, NEW mimes \in Offered, Copying!OtherCopies(sel, mimes)
    PROVE  CInv'
<1>. DEFINE own == [n |-> made + 1, by |-> "other"]
            cancel == [type |-> "cancelled", selection |-> sel, n |-> owner[sel].n]
            tell == [type |-> "selection", selection |-> sel, offer |-> Copying!OfferOf(own, mimes)]
            first == IF owner[sel].by = "foot" THEN <<cancel>> ELSE <<>>
            second == IF ~focused THEN <<>> ELSE <<tell>>
            r == queue \o first
<1>1. /\ UNCHANGED <<clip, focused, drag, pasteTab, pasting, pastes, writes, begun, current, faults>>
      /\ made' = made + 1 /\ owner' = [owner EXCEPT ![sel] = own]
      /\ queue' = queue \o (first \o second)
  BY DEF Copying!OtherCopies, Copying!Sends, Copying!Makes, Copying!Announced
<1>2. /\ made \in Nat /\ owner \in [Selections -> [n : Nat, by : Whose]] /\ queue \in Seq(Events)
  BY DEF CInv, Typed
<1>3. mimes \in Seq(Mimes)
  BY ClipboardAssumption DEF Mimes
<1>4. own \in [n : Nat, by : Whose] /\ own.n = made + 1 /\ own.by = "other"
  BY <1>2 DEF Whose
<1>5. Copying!OfferOf(own, mimes) \in DataOffers /\ Copying!OfferOf(own, mimes).n = made + 1
  BY <1>3, <1>4 DEF Copying!OfferOf, DataOffers
<1>6. /\ tell \in Events /\ tell.type = "selection" /\ tell.selection = sel
      /\ tell.offer.n = made + 1
  BY <1>5, Announcement
<1>7. /\ cancel \in Events /\ cancel.type = "cancelled" /\ cancel.selection = sel
      /\ cancel.n = owner[sel].n
  <2>1. owner[sel].n \in Nat
    BY <1>2
  <2>. QED
    BY <2>1, Cancellation
<1>. HIDE DEF own, tell, cancel
<1>8. /\ owner' \in [Selections -> [n : Nat, by : Whose]] /\ owner'[sel] = own
      /\ \A x \in Selections : x # sel => owner'[x] = owner[x]
  BY <1>1, <1>2, <1>4
<1>9. Fits(queue, owner', made')
  <2>1. \A x \in Selections :
            owner'[x] = owner[x] \/ owner'[x].by # "foot" \/ owner'[x].n \notin 1 .. made
    BY <1>4, <1>8
  <2>2. made' \in Nat /\ made <= made'
    BY <1>1, <1>2
  <2>. QED
    BY <2>1, <2>2, FitsMore
<1>10. first \in Seq(Events) /\ second \in Seq(Events)
  BY <1>6, <1>7, One
<1>11. /\ Fits(r, owner', made') /\ r \in Seq(Events)
       /\ \A x, n : Coming(queue, x, n) => Coming(r, x, n)
       /\ owner[sel].by = "foot" => Coming(r, sel, owner[sel].n)
  <2>1. CASE owner[sel].by = "foot"
    <3>1. r = queue \o <<cancel>>
      BY <2>1
    <3>2. cancel.n \in 1 .. made' /\ owner'[cancel.selection].by # "foot"
      <4>1. owner[sel].n \in 1 .. made
        BY <1>2, <2>1 DEF CInv, Sources
      <4>. QED
        BY <1>1, <1>2, <1>4, <1>7, <1>8, <4>1
    <3>3. /\ Fits(queue \o <<cancel>>, owner', made')
          /\ \A x, n : Coming(queue, x, n) => Coming(queue \o <<cancel>>, x, n)
      <4>1. made' \in Nat
        BY <1>1, <1>2
      <4>. QED
        BY <1>7, <1>9, <3>2, <4>1, FitsAppend
    <3>4. Coming(queue \o <<cancel>>, sel, owner[sel].n)
      BY <1>2, <1>7, ComingAppend
    <3>. QED
      BY <3>1, <3>3, <3>4 DEF Fits
  <2>2. CASE owner[sel].by # "foot"
    <3>1. r = queue
      BY <1>2, <2>2, Joined
    <3>. QED
      BY <1>9, <2>2, <3>1 DEF Fits
  <2>. QED
    BY <2>1, <2>2
<1>12. queue' = r \o second
  <2>. HIDE DEF first, second
  <2>1. queue \o (first \o second) = (queue \o first) \o second
    BY <1>2, <1>10, Joined, ZenonT(30)
  <2>. QED
    BY <1>1, <2>1, Zenon
<1>13. \A x \in Selections : focused /\ x # sel => Latest(r, x, current[x], owner[x].n)
  <2>. SUFFICES ASSUME NEW x \in Selections, focused, x # sel
                PROVE  Latest(r, x, current[x], owner[x].n)
    OBVIOUS
  <2>1. Latest(queue, x, current[x], owner[x].n)
    BY DEF CInv, Told
  <2>2. CASE owner[sel].by = "foot"
    <3>1. ~Tells(cancel, x)
      BY <1>7 DEF Tells
    <3>. QED
      BY <1>2, <1>7, <2>1, <2>2, <3>1, LatestAppend
  <2>3. CASE owner[sel].by # "foot"
    <3>1. r = queue
      BY <1>2, <2>3, Joined
    <3>. QED
      BY <2>1, <3>1
  <2>. QED
    BY <2>2, <2>3
<1>. HIDE DEF r, first
<1>14. Fits(queue', owner', made') /\ \A x, n : Coming(r, x, n) => Coming(queue', x, n)
  <2>1. CASE focused
    <3>1. made' \in Nat /\ queue' = r \o <<tell>>
      BY <1>1, <1>2, <1>12, <2>1
    <3>. QED
      BY <1>6, <1>11, <3>1, FitsAppend
  <2>2. CASE ~focused
    <3>1. queue' = r
      BY <1>11, <1>12, <2>2, Joined
    <3>. QED
      BY <1>11, <3>1
  <2>. QED
    BY <2>1, <2>2
<1>15. Told'
  <2>. SUFFICES ASSUME NEW x \in Selections, focused
                PROVE  Latest(queue', x, current[x], owner'[x].n)
    BY <1>1 DEF Told
  <2>1. queue' = r \o <<tell>>
    BY <1>12
  <2>2. CASE x = sel
    <3>1. Tells(tell, x) /\ tell.offer.n = owner'[x].n
      BY <1>4, <1>6, <1>8, <2>2 DEF Tells
    <3>. QED
      BY <1>6, <1>11, <2>1, <3>1, LatestAppend
  <2>3. CASE x # sel
    <3>1. ~Tells(tell, x) /\ Latest(r, x, current[x], owner'[x].n)
      BY <1>6, <1>8, <1>13, <2>3 DEF Tells
    <3>. QED
      BY <1>6, <1>11, <2>1, <3>1, LatestAppend
  <2>. QED
    BY <2>2, <2>3
<1>16. Sources'
  <2>. SUFFICES ASSUME NEW x \in Selections
                PROVE  /\ owner'[x].n \in 0 .. made'
                       /\ owner'[x].by = "foot" => clip[x].source = owner'[x].n /\ owner'[x].n # 0
                       /\ clip[x].source # 0 => owner'[x].by = "foot" \/ Coming(queue', x, clip[x].source)
    BY <1>1 DEF Sources
  <2>1. /\ owner[x].n \in 0 .. made
        /\ owner[x].by = "foot" => clip[x].source = owner[x].n /\ owner[x].n # 0
        /\ clip[x].source # 0 => owner[x].by = "foot" \/ Coming(queue, x, clip[x].source)
    BY DEF CInv, Sources
  <2>2. CASE x = sel
    <3>1. owner'[x].n = made + 1 /\ owner'[x].by = "other"
      BY <1>4, <1>8, <2>2
    <3>2. clip[x].source # 0 => Coming(queue', x, clip[x].source)
      BY <1>11, <1>14, <2>1, <2>2
    <3>. QED
      BY <1>1, <1>2, <3>1, <3>2
  <2>3. CASE x # sel
    <3>1. owner'[x] = owner[x]
      BY <1>8, <2>3
    <3>2. owner'[x].n \in 0 .. made'
      BY <1>1, <1>2, <2>1, <3>1
    <3>. QED
      BY <1>11, <1>14, <2>1, <3>1, <3>2
  <2>. QED
    BY <2>2, <2>3
<1>17. Dragged'
  BY <1>1, <1>2 DEF CInv, Dragged
<1>18. Typed'
  BY <1>1, <1>2, <1>8, <1>14 DEF CInv, Typed, Fits
<1>19. Receiving'
  BY <1>1, FewerWrites
<1>. QED
  BY <1>1, <1>14, <1>15, <1>16, <1>17, <1>18, <1>19 DEF CInv, Fits

\* text_to_clipboard() and text_to_primary(): foot has the focus, and is told of its own text last.
LEMMA TextToStep ==
    ASSUME CInv, NEW sel \in Selections, Copying!TextTo(sel)
    PROVE  CInv'
<1>. DEFINE own == [n |-> made + 1, by |-> "foot"]
            none == [type |-> "selection", selection |-> sel, offer |-> Copying!NoOffer]
            tell == [type |-> "selection", selection |-> sel,
                     offer |-> Copying!OfferOf(own, <<"utf8", "plain">>)]
            killed == owner[sel].by # "other" /\ clip[sel].source # 0 /\ owner[sel].by = "foot"
            first == IF killed THEN <<none>> ELSE <<>>
            r == queue \o first
<1>1. /\ UNCHANGED <<focused, drag, pasteTab, pasting, pastes, writes, begun, current, faults>>
      /\ focused /\ made' = made + 1 /\ owner' = [owner EXCEPT ![sel] = own]
      /\ clip' = [clip EXCEPT ![sel].source = made + 1]
      /\ queue' = queue \o (first \o <<tell>>)
  BY DEF Copying!TextTo, Copying!Sends, Copying!Makes, Copying!Announced
<1>2. /\ made \in Nat /\ owner \in [Selections -> [n : Nat, by : Whose]] /\ queue \in Seq(Events)
      /\ clip \in [Selections -> [source : Nat, offer : DataOffers, type : Types, window : BOOLEAN]]
  BY DEF CInv, Typed
<1>3. <<"utf8", "plain">> \in Seq(Mimes)
  BY DEF Mimes
<1>4. own \in [n : Nat, by : Whose] /\ own.n = made + 1 /\ own.by = "foot"
  BY <1>2 DEF Whose
<1>5. /\ Copying!OfferOf(own, <<"utf8", "plain">>) \in DataOffers
      /\ Copying!OfferOf(own, <<"utf8", "plain">>).n = made + 1
  BY <1>3, <1>4 DEF Copying!OfferOf, DataOffers
<1>6. /\ tell \in Events /\ tell.type = "selection" /\ tell.selection = sel
      /\ tell.offer.n = made + 1
  BY <1>5, Announcement
<1>7. none \in Events /\ none.type = "selection" /\ none.selection = sel
  BY NoOfferIs, Announcement
<1>. HIDE DEF own, tell, none
<1>8. /\ owner' \in [Selections -> [n : Nat, by : Whose]] /\ owner'[sel] = own
      /\ \A x \in Selections : x # sel => owner'[x] = owner[x]
  BY <1>1, <1>2, <1>4
<1>9. /\ clip' \in [Selections -> [source : Nat, offer : DataOffers, type : Types, window : BOOLEAN]]
      /\ clip'[sel].source = made + 1
      /\ \A x \in Selections : x # sel => clip'[x].source = clip[x].source
      /\ \A x \in Selections : clip'[x].window = clip[x].window /\ clip'[x].offer = clip[x].offer
  <2>. DEFINE c == [clip[sel] EXCEPT !.source = made + 1]
  <2>1. clip[sel] \in [source : Nat, offer : DataOffers, type : Types, window : BOOLEAN] /\ made + 1 \in Nat
    BY <1>2
  <2>2. /\ c \in [source : Nat, offer : DataOffers, type : Types, window : BOOLEAN]
        /\ c.source = made + 1 /\ c.window = clip[sel].window /\ c.offer = clip[sel].offer
    BY <2>1
  <2>3. clip' = [clip EXCEPT ![sel] = c]
    BY <1>1
  <2>. HIDE DEF c
  <2>. QED
    BY <1>2, <2>2, <2>3
<1>10. made' \in Nat /\ Fits(queue, owner', made')
  <2>1. \A x \in Selections :
            owner'[x] = owner[x] \/ owner'[x].by # "foot" \/ owner'[x].n \notin 1 .. made
    BY <1>2, <1>4, <1>8
  <2>2. made' \in Nat /\ made <= made'
    BY <1>1, <1>2
  <2>. QED
    BY <2>1, <2>2, FitsMore
<1>11. first \in Seq(Events) /\ <<tell>> \in Seq(Events)
  BY <1>6, <1>7, One
<1>12. /\ Fits(r, owner', made') /\ r \in Seq(Events)
       /\ \A x, n : Coming(queue, x, n) => Coming(r, x, n)
       /\ \A x \in Selections : x # sel => Latest(r, x, current[x], owner[x].n)
  <2>0. \A x \in Selections : Latest(queue, x, current[x], owner[x].n)
    BY <1>1 DEF CInv, Told
  <2>1. CASE killed
    <3>1. r = queue \o <<none>>
      BY <2>1
    <3>2. /\ Fits(queue \o <<none>>, owner', made')
          /\ \A x, n : Coming(queue, x, n) => Coming(queue \o <<none>>, x, n)
      BY <1>7, <1>10, FitsAppend
    <3>3. ASSUME NEW x \in Selections, x # sel
          PROVE  Latest(queue \o <<none>>, x, current[x], owner[x].n)
      <4>1. ~Tells(none, x)
        BY <1>7, <3>3 DEF Tells
      <4>. QED
        BY <1>2, <1>7, <2>0, <4>1, LatestAppend
    <3>. QED
      BY <3>1, <3>2, <3>3 DEF Fits
  <2>2. CASE ~killed
    <3>1. r = queue
      BY <1>2, <2>2, Joined
    <3>. QED
      BY <1>10, <2>0, <3>1 DEF Fits
  <2>. QED
    BY <2>1, <2>2
<1>13. queue' = r \o <<tell>>
  <2>. HIDE DEF first
  <2>1. queue \o (first \o <<tell>>) = (queue \o first) \o <<tell>>
    BY <1>2, <1>11, Joined, Zenon
  <2>. QED
    BY <1>1, <2>1, Zenon
<1>. HIDE DEF r, first
<1>14. Fits(queue', owner', made') /\ \A x, n : Coming(r, x, n) => Coming(queue', x, n)
  BY <1>6, <1>10, <1>12, <1>13, FitsAppend
<1>15. Told'
  <2>. SUFFICES ASSUME NEW x \in Selections
                PROVE  Latest(r \o <<tell>>, x, current[x], owner'[x].n)
    BY <1>1, <1>13 DEF Told
  <2>2. CASE x = sel
    <3>1. Tells(tell, x) /\ tell.offer.n = owner'[x].n
      BY <1>4, <1>6, <1>8, <2>2 DEF Tells
    <3>. QED
      BY <1>6, <1>12, <3>1, LatestAppend
  <2>3. CASE x # sel
    <3>1. ~Tells(tell, x) /\ Latest(r, x, current[x], owner'[x].n)
      BY <1>6, <1>8, <1>12, <2>3 DEF Tells
    <3>. QED
      BY <1>6, <1>12, <3>1, LatestAppend
  <2>. QED
    BY <2>2, <2>3
<1>16. Sources'
  <2>. SUFFICES ASSUME NEW x \in Selections
                PROVE  /\ owner'[x].n \in 0 .. made'
                       /\ owner'[x].by = "foot" => clip'[x].source = owner'[x].n /\ owner'[x].n # 0
                       /\ clip'[x].source # 0 => owner'[x].by = "foot" \/ Coming(queue', x, clip'[x].source)
    BY DEF Sources
  <2>1. /\ owner[x].n \in 0 .. made
        /\ owner[x].by = "foot" => clip[x].source = owner[x].n /\ owner[x].n # 0
        /\ clip[x].source # 0 => owner[x].by = "foot" \/ Coming(queue, x, clip[x].source)
    BY DEF CInv, Sources
  <2>2. CASE x = sel
    BY <1>1, <1>2, <1>4, <1>8, <1>9, <2>2
  <2>3. CASE x # sel
    <3>1. owner'[x] = owner[x] /\ clip'[x].source = clip[x].source
      BY <1>8, <1>9, <2>3
    <3>2. owner'[x].n \in 0 .. made'
      BY <1>1, <1>2, <2>1, <3>1
    <3>. QED
      BY <1>12, <1>14, <2>1, <3>1, <3>2
  <2>. QED
    BY <2>2, <2>3
<1>17. Dragged'
  BY <1>1, <1>2, <1>9, ClipboardAssumption DEF CInv, Dragged
<1>18. Typed'
  BY <1>1, <1>2, <1>8, <1>9, <1>14 DEF CInv, Typed, Fits
<1>19. Receiving'
  BY <1>1, FewerWrites
<1>. QED
  BY <1>1, <1>14, <1>15, <1>16, <1>17, <1>18, <1>19 DEF CInv, Fits

\* selection_clipboard_unset() and selection_primary_unset(): foot is told that there is
\* nothing, if the selection was its own.
LEMMA UnsetStep ==
    ASSUME CInv, NEW sel \in Selections, Copying!Unset(sel)
    PROVE  CInv'
<1>. DEFINE none == [type |-> "selection", selection |-> sel, offer |-> Copying!NoOffer]
<1>1. /\ UNCHANGED <<focused, drag, pasteTab, pasting, pastes, writes, made, begun, current, faults>>
      /\ focused /\ clip' = [clip EXCEPT ![sel].source = 0]
      /\ owner' = [owner EXCEPT ![sel] = IF owner[sel].by = "foot" THEN Copying!NoOwner ELSE owner[sel]]
      /\ queue' = queue \o (IF owner[sel].by = "foot" THEN <<none>> ELSE <<>>)
  BY DEF Copying!Unset, Copying!Sends, Copying!Announced
<1>2. /\ made \in Nat /\ owner \in [Selections -> [n : Nat, by : Whose]] /\ queue \in Seq(Events)
      /\ clip \in [Selections -> [source : Nat, offer : DataOffers, type : Types, window : BOOLEAN]]
  BY DEF CInv, Typed
<1>3. none \in Events /\ none.type = "selection" /\ none.selection = sel /\ none.offer.n = 0
  BY NoOfferIs, Announcement
<1>. HIDE DEF none
<1>4. /\ owner' \in [Selections -> [n : Nat, by : Whose]]
      /\ owner[sel].by = "foot" => owner'[sel].n = 0 /\ owner'[sel].by = "none"
      /\ owner[sel].by # "foot" => owner'[sel] = owner[sel]
      /\ \A x \in Selections : x # sel => owner'[x] = owner[x]
  BY <1>1, <1>2, NoOfferIs
<1>5. /\ clip' \in [Selections -> [source : Nat, offer : DataOffers, type : Types, window : BOOLEAN]]
      /\ clip'[sel].source = 0
      /\ \A x \in Selections : x # sel => clip'[x].source = clip[x].source
      /\ \A x \in Selections : clip'[x].window = clip[x].window /\ clip'[x].offer = clip[x].offer
  BY <1>1, <1>2
<1>6. Fits(queue, owner', made)
  <2>1. \A x \in Selections :
            owner'[x] = owner[x] \/ owner'[x].by # "foot" \/ owner'[x].n \notin 1 .. made
    BY <1>4
  <2>. QED
    BY <1>2, <2>1, FitsMore
<1>7. \A x \in Selections : Latest(queue, x, current[x], owner[x].n)
  BY <1>1 DEF CInv, Told
<1>8. /\ Fits(queue', owner', made)
      /\ \A x, n : Coming(queue, x, n) => Coming(queue', x, n)
      /\ \A x \in Selections : Latest(queue', x, current[x], owner'[x].n)
  <2>1. CASE owner[sel].by = "foot"
    <3>1. queue' = queue \o <<none>>
      BY <1>1, <2>1
    <3>2. /\ Fits(queue \o <<none>>, owner', made)
          /\ \A x, n : Coming(queue, x, n) => Coming(queue \o <<none>>, x, n)
      BY <1>2, <1>3, <1>6, FitsAppend
    <3>3. ASSUME NEW x \in Selections
          PROVE  Latest(queue \o <<none>>, x, current[x], owner'[x].n)
      <4>1. CASE x = sel
        <5>1. Tells(none, x) /\ none.offer.n = owner'[x].n
          BY <1>3, <1>4, <2>1, <4>1 DEF Tells
        <5>. QED
          BY <1>2, <1>3, <5>1, LatestAppend
      <4>2. CASE x # sel
        <5>1. ~Tells(none, x) /\ Latest(queue, x, current[x], owner'[x].n)
          BY <1>3, <1>4, <1>7, <4>2 DEF Tells
        <5>. QED
          BY <1>2, <1>3, <5>1, LatestAppend
      <4>. QED
        BY <4>1, <4>2
    <3>. QED
      BY <3>1, <3>2, <3>3
  <2>2. CASE owner[sel].by # "foot"
    <3>1. queue' = queue
      BY <1>1, <1>2, <2>2, Joined
    <3>2. \A x \in Selections : owner'[x] = owner[x]
      BY <1>4, <2>2
    <3>. QED
      BY <1>6, <1>7, <3>1, <3>2
  <2>. QED
    BY <2>1, <2>2
<1>9. Told'
  BY <1>1, <1>8 DEF Told
<1>10. Sources'
  <2>. SUFFICES ASSUME NEW x \in Selections
                PROVE  /\ owner'[x].n \in 0 .. made
                       /\ owner'[x].by = "foot" => clip'[x].source = owner'[x].n /\ owner'[x].n # 0
                       /\ clip'[x].source # 0 => owner'[x].by = "foot" \/ Coming(queue', x, clip'[x].source)
    BY <1>1 DEF Sources
  <2>1. /\ owner[x].n \in 0 .. made
        /\ owner[x].by = "foot" => clip[x].source = owner[x].n /\ owner[x].n # 0
        /\ clip[x].source # 0 => owner[x].by = "foot" \/ Coming(queue, x, clip[x].source)
    BY DEF CInv, Sources
  <2>2. CASE x = sel
    BY <1>2, <1>4, <1>5, <2>1, <2>2
  <2>3. CASE x # sel
    BY <1>4, <1>5, <1>8, <2>1, <2>3
  <2>. QED
    BY <2>2, <2>3
<1>11. Dragged'
  BY <1>1, <1>5, ClipboardAssumption DEF CInv, Dragged
<1>12. Typed'
  BY <1>1, <1>4, <1>5, <1>8 DEF CInv, Typed, Fits
<1>13. Receiving'
  BY <1>1, FewerWrites
<1>. QED
  BY <1>1, <1>8, <1>9, <1>10, <1>11, <1>12, <1>13 DEF CInv, Fits

\* The same for what is told all at once when foot gets the focus.
LEMMA FitsAppendAll ==
    ASSUME CInv, NEW q, NEW own, NEW m, Fits(q, own, m), NEW es \in Seq(Events),
           \A k \in 1 .. Len(es) : es[k].type = "selection"
    PROVE  Fits(q \o es, own, m) /\ \A sel, n : Coming(q, sel, n) => Coming(q \o es, sel, n)
<1>. DEFINE r == q \o es
<1>1. /\ q \in Seq(Events) /\ Drags(q, drag, m) /\ Cancels(q, own, m) /\ Requests(q, pastes, begun)
  BY DEF Fits
<1>2. /\ r \in Seq(Events) /\ Len(q) \in Nat /\ Len(es) \in Nat /\ Len(r) = Len(q) + Len(es)
      /\ \A i \in 1 .. Len(q) : r[i] = q[i]
      /\ \A k \in 1 .. Len(es) : r[Len(q) + k] = es[k]
  BY <1>1, AppendIs
<1>. HIDE DEF r
<1>3. \A i \in 1 .. Len(r) : r[i].type # "selection" => i \in 1 .. Len(q) /\ r[i] = q[i]
  <2>. SUFFICES ASSUME NEW i \in 1 .. Len(r), i \notin 1 .. Len(q) PROVE r[i].type = "selection"
    BY <1>2
  <2>1. i - Len(q) \in 1 .. Len(es) /\ i = Len(q) + (i - Len(q))
    BY <1>2
  <2>. QED
    BY <1>2, <2>1
<1>4. Drags(r, drag, m)
  <2>1. \A i \in 1 .. Len(r) : OfDrag(r[i]) => i \in 1 .. Len(q) /\ r[i] = q[i]
    BY <1>3 DEF OfDrag
  <2>2. ASSUME NEW i \in 1 .. Len(r), NEW j \in 1 .. Len(r), i < j, OfDrag(r[j])
        PROVE  /\ r[i].type = "enter" => r[i].offer.n # drag.n
               /\ r[i].type # "drop"
    <3>1. j \in 1 .. Len(q) /\ r[j] = q[j]
      BY <2>1, <2>2
    <3>2. i \in 1 .. Len(q) /\ r[i] = q[i]
      BY <1>2, <2>2, <3>1
    <3>. QED
      BY <1>1, <2>2, <3>1, <3>2 DEF Drags
  <2>3. ASSUME NEW i \in 1 .. Len(r)
        PROVE  /\ r[i].type = "enter" => r[i].offer.n \in 1 .. m /\ r[i].offer.drag
               /\ drag.is \in {"accepted", "dropped"} => r[i].type \notin {"enter", "leave"}
               /\ r[i].type = "drop" => drag.is = "dropped"
    <3>1. CASE OfDrag(r[i])
      BY <1>1, <2>1, <2>3, <3>1 DEF Drags
    <3>2. CASE ~OfDrag(r[i])
      BY <3>2 DEF OfDrag
    <3>. QED
      BY <3>1, <3>2
  <2>. QED
    BY <2>2, <2>3 DEF Drags
<1>5. Cancels(r, own, m)
  BY <1>1, <1>3 DEF Cancels
<1>6. Requests(r, pastes, begun)
  BY <1>1, <1>3, SMTT(30) DEF Requests
<1>7. \A sel, n : Coming(q, sel, n) => Coming(r, sel, n)
  <2>1. \A i \in 1 .. Len(q) : i \in 1 .. Len(r) /\ r[i] = q[i]
    BY <1>2
  <2>. QED
    BY <2>1 DEF Coming
<1>. QED
  BY <1>2, <1>4, <1>5, <1>6, <1>7 DEF Fits, r

LEMMA LatestAppendAll ==
    ASSUME NEW q \in Seq(Events), NEW es \in Seq(Events), NEW sel, NEW had, NEW n,
           \A k \in 1 .. Len(es) : Tells(es[k], sel) => es[k].offer.n = n,
           \E k \in 1 .. Len(es) : Tells(es[k], sel)
    PROVE  Latest(q \o es, sel, had, n)
<1>. DEFINE r == q \o es
<1>1. /\ r \in Seq(Events) /\ Len(q) \in Nat /\ Len(es) \in Nat /\ Len(r) = Len(q) + Len(es)
      /\ \A k \in 1 .. Len(es) : r[Len(q) + k] = es[k]
  BY AppendIs
<1>. HIDE DEF r
<1>2. PICK k \in 1 .. Len(es) : Tells(es[k], sel)
  OBVIOUS
<1>3. Len(q) + k \in 1 .. Len(r) /\ Tells(r[Len(q) + k], sel)
  BY <1>1, <1>2
<1>4. ASSUME NEW i \in 1 .. Len(r), Tells(r[i], sel), \A j \in i + 1 .. Len(r) : ~Tells(r[j], sel)
      PROVE  r[i].offer.n = n
  <2>1. Len(q) + k \notin i + 1 .. Len(r)
    BY <1>3, <1>4
  <2>2. i - Len(q) \in 1 .. Len(es) /\ i = Len(q) + (i - Len(q))
    BY <1>1, <1>3, <2>1
  <2>3. r[i] = es[i - Len(q)]
    BY <1>1, <2>2
  <2>. QED
    BY <1>4, <2>2, <2>3
<1>5. Latest(r, sel, had, n)
  BY <1>3, <1>4 DEF Latest
<1>. QED
  BY <1>5 DEF r

\* The window gets the keyboard's focus, and is told of every selection, or loses it.
LEMMA FocusStep ==
    ASSUME CInv, Copying!Focus
    PROVE  CInv'
<1>. DEFINE n == Cardinality(Selections)
            Tell(o, i) == [type |-> "selection", selection |-> o[i],
                           offer |-> IF owner[o[i]] = Copying!NoOwner THEN Copying!NoOffer
                                     ELSE Copying!OfferOf(owner[o[i]], <<"utf8">>)]
<1>1. PICK order \in [1 .. n -> Selections] :
          /\ \A i, j \in DOMAIN order : order[i] = order[j] => i = j
          /\ queue' = queue \o (IF focused THEN <<>> ELSE [i \in DOMAIN order |-> Tell(order, i)])
  <2>1. \E order \in {f \in [1 .. n -> Selections] : \A i, j \in DOMAIN f : f[i] = f[j] => i = j} :
            Copying!Sends(IF focused THEN <<>> ELSE [i \in DOMAIN order |-> Tell(order, i)])
    <3>1. Copying!Cardinality(Selections) = Cardinality(Selections)
      BY Zenon DEF Copying!Cardinality, Cardinality
    <3>. QED
      BY <3>1, Zenon DEF Copying!Focus
  <2>. HIDE DEF Tell, n
  <2>2. PICK order \in {f \in [1 .. n -> Selections] : \A i, j \in DOMAIN f : f[i] = f[j] => i = j} :
            Copying!Sends(IF focused THEN <<>> ELSE [i \in DOMAIN order |-> Tell(order, i)])
    BY <2>1, Zenon
  <2>3. queue' = queue \o (IF focused THEN <<>> ELSE [i \in DOMAIN order |-> Tell(order, i)])
    BY <2>2, Zenon DEF Copying!Sends
  <2>4. order \in [1 .. n -> Selections] /\ \A i, j \in DOMAIN order : order[i] = order[j] => i = j
    BY <2>2
  <2>. QED
    BY <2>3, <2>4, Zenon
<1>2. /\ UNCHANGED <<clip, owner, drag, pasteTab, pasting, pastes, writes, made, begun, current, faults>>
      /\ focused' = ~focused
  BY DEF Copying!Focus
<1>3. /\ made \in Nat /\ owner \in [Selections -> [n : Nat, by : Whose]] /\ queue \in Seq(Events)
      /\ focused \in BOOLEAN
  BY DEF CInv, Typed
<1>4. n \in Nat /\ DOMAIN order = 1 .. n /\ \A sel \in Selections : \E i \in 1 .. n : order[i] = sel
  <2>1. CASE Selections = {"clipboard"}
    <3>1. n = 1
      BY <2>1, FS_Singleton
    <3>. QED
      BY <2>1, <3>1
  <2>2. CASE Selections = {"clipboard", "primary"}
    <3>1. Cardinality({"clipboard"}) = 1 /\ IsFiniteSet({"clipboard"})
      BY FS_Singleton
    <3>2. n = 2
      <4>1. Selections = {"clipboard"} \cup {"primary"}
        BY <2>2
      <4>2. "primary" \notin {"clipboard"}
            /\ Cardinality({"clipboard"} \cup {"primary"}) = Cardinality({"clipboard"}) + 1
        BY <3>1, FS_AddElement
      <4>. QED
        BY <3>1, <4>1, <4>2
    <3>3. DOMAIN order = 1 .. 2 /\ order[1] \in Selections /\ order[2] \in Selections /\ order[1] # order[2]
      BY <1>1, <3>2
    <3>. QED
      BY <2>2, <3>2, <3>3
  <2>. QED
    BY <2>1, <2>2, ClipboardAssumption
<1>. HIDE DEF n
<1>5. Fits(queue, owner, made)
  BY <1>3 DEF CInv, Fits
<1>6. CASE focused
  <2>1. queue' = queue
    BY <1>1, <1>3, <1>6, Joined
  <2>2. Typed' /\ Dragged' /\ Sources'
    BY <1>2, <1>3, <2>1 DEF CInv, Typed, Dragged, Sources
  <2>3. Told'
    BY <1>2, <1>6 DEF Told
  <2>4. Receiving'
    BY <1>2, FewerWrites
  <2>. QED
    BY <1>2, <1>5, <2>1, <2>2, <2>3, <2>4 DEF CInv, Fits
<1>7. CASE ~focused
  <2>. DEFINE es == [i \in 1 .. n |-> Tell(order, i)]
  <2>1. queue' = queue \o es
    BY <1>1, <1>4, <1>7
  <2>2. ASSUME NEW i \in 1 .. n
        PROVE  /\ Tell(order, i) \in Events /\ Tell(order, i).type = "selection"
               /\ Tell(order, i).selection = order[i] /\ Tell(order, i).offer.n = owner[order[i]].n
    <3>1. order[i] \in Selections /\ owner[order[i]] \in [n : Nat, by : Whose]
      BY <1>3
    <3>2. <<"utf8">> \in Seq(Mimes)
      BY DEF Mimes
    <3>3. /\ Copying!OfferOf(owner[order[i]], <<"utf8">>) \in DataOffers
          /\ Copying!OfferOf(owner[order[i]], <<"utf8">>).n = owner[order[i]].n
      BY <3>1, <3>2 DEF Copying!OfferOf, DataOffers
    <3>. DEFINE offer == IF owner[order[i]] = Copying!NoOwner THEN Copying!NoOffer
                         ELSE Copying!OfferOf(owner[order[i]], <<"utf8">>)
    <3>4. offer \in DataOffers /\ offer.n = owner[order[i]].n
      BY <3>3, NoOfferIs
    <3>. HIDE DEF offer
    <3>5. Tell(order, i) = [type |-> "selection", selection |-> order[i], offer |-> offer]
      BY DEF offer
    <3>. QED
      BY <3>1, <3>4, <3>5, Announcement
  <2>. HIDE DEF Tell
  <2>3. es \in Seq(Events) /\ Len(es) = n /\ \A i \in 1 .. n : es[i] = Tell(order, i)
    BY <1>4, <2>2
  <2>. HIDE DEF es
  <2>4. /\ Fits(queue \o es, owner, made)
        /\ \A sel, k : Coming(queue, sel, k) => Coming(queue \o es, sel, k)
    BY <1>5, <2>2, <2>3, FitsAppendAll
  <2>5. ASSUME NEW sel \in Selections PROVE Latest(queue \o es, sel, current[sel], owner[sel].n)
    <3>1. \A k \in 1 .. Len(es) : Tells(es[k], sel) => es[k].offer.n = owner[sel].n
      BY <2>2, <2>3 DEF Tells
    <3>2. \E k \in 1 .. Len(es) : Tells(es[k], sel)
      <4>1. PICK i \in 1 .. n : order[i] = sel
        BY <1>4
      <4>. QED
        BY <2>2, <2>3, <4>1 DEF Tells
    <3>. QED
      BY <1>3, <2>3, <3>1, <3>2, LatestAppendAll
  <2>6. Told'
    BY <1>2, <2>1, <2>5 DEF Told
  <2>7. Sources'
    BY <1>2, <2>1, <2>4 DEF CInv, Sources
  <2>8. Typed' /\ Dragged'
    BY <1>2, <1>3, <2>1, <2>4 DEF CInv, Typed, Dragged, Fits
  <2>9. Receiving'
    BY <1>2, FewerWrites
  <2>. QED
    BY <1>2, <2>1, <2>4, <2>6, <2>7, <2>8, <2>9 DEF CInv, Fits
<1>. QED
  BY <1>6, <1>7

(***************************************************************************)
(* Drags                                                                   *)
(***************************************************************************)

\* The events that there are fit when one of a drag is added: only the drag differs.
LEMMA DragAdds ==
    ASSUME CInv, NEW e \in Events, OfDrag(e), queue' = queue \o <<e>>,
           drag' \in [n : Nat, is : {"none", "over", "accepted", "dropped"}],
           made' \in Nat, made <= made', UNCHANGED <<clip, owner, focused, pastes, begun, current>>,
           Drags(queue \o <<e>>, drag', made'), Dragged'
    PROVE  /\ queue' \in Seq(Events) /\ Drags(queue', drag', made') /\ Cancels(queue', owner', made')
           /\ Requests(queue', pastes', begun') /\ Sources' /\ Told'
<1>1. /\ queue \in Seq(Events) /\ begun \in Nat /\ made \in Nat
      /\ Cancels(queue, owner, made) /\ Requests(queue, pastes, begun)
  BY DEF CInv, Typed
<1>2. e.type \notin {"selection", "cancelled", "send"}
  BY DEF OfDrag
<1>3. Cancels(queue \o <<e>>, owner, made)
  BY <1>1, <1>2, CancelsAppend
<1>4. Cancels(queue \o <<e>>, owner, made')
  BY <1>1, <1>3, CancelsMore
<1>5. Requests(queue \o <<e>>, pastes, begun)
  <2>1. begun <= begun
    BY <1>1
  <2>. QED
    BY <1>1, <1>2, <2>1, RequestsAppend
<1>6. Sources'
  <2>1. \A sel, n : Coming(queue, sel, n) => Coming(queue \o <<e>>, sel, n)
    BY <1>1, ComingAppend
  <2>2. \A sel \in Selections : owner[sel].n \in 0 .. made'
    BY <1>1 DEF CInv, Sources
  <2>. QED
    BY <2>1, <2>2 DEF CInv, Sources
<1>7. Told'
  <2>. SUFFICES ASSUME NEW sel \in Selections, focused
                PROVE  Latest(queue \o <<e>>, sel, current[sel], owner[sel].n)
    BY DEF Told
  <2>1. ~Tells(e, sel) /\ Latest(queue, sel, current[sel], owner[sel].n)
    BY <1>2 DEF Tells, CInv, Told
  <2>. QED
    BY <1>1, <2>1, LatestAppend
<1>8. queue \o <<e>> \in Seq(Events)
  BY <1>1, AppendOne
<1>. QED
  BY <1>4, <1>5, <1>6, <1>7, <1>8

LEMMA DragEntersStep ==
    ASSUME CInv, NEW mimes \in Offered, Copying!DragEnters(mimes)
    PROVE  CInv'
<1>. DEFINE offer == [n |-> made + 1, mimes |-> mimes, drag |-> TRUE, by |-> "other"]
            e == [type |-> "enter", offer |-> offer]
<1>1. /\ UNCHANGED <<clip, owner, focused, pasteTab, pasting, pastes, writes, begun, current, faults>>
      /\ drag = Copying!NoDrag /\ made' = made + 1 /\ drag' = [n |-> made + 1, is |-> "over"]
      /\ queue' = queue \o <<e>>
  BY DEF Copying!DragEnters, Copying!Makes, Copying!Sends
<1>2. queue \in Seq(Events) /\ made \in Nat /\ Drags(queue, drag, made)
  BY DEF CInv, Typed
<1>3. offer \in DataOffers /\ offer.n = made + 1 /\ offer.drag
  <2>1. mimes \in Seq(Mimes)
    BY ClipboardAssumption DEF Mimes
  <2>. QED
    BY <1>2, <2>1 DEF DataOffers, Whose
<1>4. e \in Events /\ e.type = "enter" /\ e.offer = offer
  BY <1>3 DEF Events
<1>. HIDE DEF e, offer
<1>5. drag.is = "none"
  BY <1>1 DEF Copying!NoDrag, Copying!None
<1>6. /\ drag' \in [n : Nat, is : {"none", "over", "accepted", "dropped"}]
      /\ drag'.n = made + 1 /\ drag'.is = "over" /\ made' \in Nat /\ made <= made'
  BY <1>1, <1>2
<1>. DEFINE r == queue \o <<e>>
<1>7. /\ Len(queue) \in Nat /\ \A i \in 1 .. Len(queue) : r[i] = queue[i]
      /\ r[Len(queue) + 1] = e
      /\ \A i \in 1 .. Len(r) : i \in 1 .. Len(queue) \/ i = Len(queue) + 1
  BY <1>2, <1>4, AppendOne
<1>. HIDE DEF r
<1>8. Drags(r, drag', made')
  <2>1. ASSUME NEW i \in 1 .. Len(r)
        PROVE  /\ r[i].type = "enter" => r[i].offer.n \in 1 .. made' /\ r[i].offer.drag
               /\ r[i].type # "drop"
               /\ i \in 1 .. Len(queue) /\ r[i].type = "enter" => r[i].offer.n \in 1 .. made
    <3>1. CASE i \in 1 .. Len(queue)
      <4>1. r[i] = queue[i]
        BY <1>7, <3>1
      <4>2. /\ queue[i].type = "enter" => queue[i].offer.n \in 1 .. made /\ queue[i].offer.drag
            /\ queue[i].type # "drop"
        BY <1>2, <1>5, <3>1 DEF Drags
      <4>. QED
        BY <1>1, <1>2, <4>1, <4>2
    <3>2. CASE i = Len(queue) + 1
      BY <1>1, <1>2, <1>3, <1>4, <1>7, <3>2
    <3>. QED
      BY <1>7, <3>1, <3>2
  <2>2. \A i, j \in 1 .. Len(r) : i < j => i \in 1 .. Len(queue)
    BY <1>7
  <2>3. \A n \in 1 .. made : n # made + 1
    BY <1>2
  <2>. QED
    BY <1>6, <2>1, <2>2, <2>3 DEF Drags
<1>9. Dragged'
  BY <1>1, <1>2, <1>6 DEF Dragged
<1>10. OfDrag(e)
  BY <1>4 DEF OfDrag
<1>11. /\ queue' \in Seq(Events) /\ Drags(queue', drag', made') /\ Cancels(queue', owner', made')
       /\ Requests(queue', pastes', begun') /\ Sources' /\ Told'
  BY <1>1, <1>4, <1>6, <1>8, <1>9, <1>10, DragAdds DEF r
<1>12. Typed'
  BY <1>1, <1>6, <1>11 DEF CInv, Typed
<1>13. Receiving'
  BY <1>1, FewerWrites
<1>. QED
  BY <1>9, <1>11, <1>12, <1>13 DEF CInv

LEMMA DragLeavesStep ==
    ASSUME CInv, Copying!DragLeaves
    PROVE  CInv'
<1>. DEFINE e == [type |-> "leave"]
            r == queue \o <<e>>
<1>1. /\ UNCHANGED <<clip, owner, focused, pasteTab, pasting, pastes, writes, made, begun, current, faults>>
      /\ drag.is \in {"over", "accepted"} /\ drag' = Copying!NoDrag /\ queue' = r
  BY DEF Copying!DragLeaves, Copying!Sends
<1>2. queue \in Seq(Events) /\ made \in Nat /\ Drags(queue, drag, made)
  BY DEF CInv, Typed
<1>3. e \in Events /\ e.type = "leave"
  BY DEF Events
<1>. HIDE DEF e
<1>4. /\ drag' \in [n : Nat, is : {"none", "over", "accepted", "dropped"}]
      /\ drag'.n = 0 /\ drag'.is = "none"
  BY <1>1 DEF Copying!NoDrag, Copying!None
<1>5. /\ Len(queue) \in Nat /\ \A i \in 1 .. Len(queue) : r[i] = queue[i]
      /\ r[Len(queue) + 1] = e
      /\ \A i \in 1 .. Len(r) : i \in 1 .. Len(queue) \/ i = Len(queue) + 1
  BY <1>2, <1>3, AppendOne
<1>. HIDE DEF r
<1>6. Drags(r, drag', made)
  <2>1. ASSUME NEW i \in 1 .. Len(r)
        PROVE  /\ r[i].type = "enter" => r[i].offer.n \in 1 .. made /\ r[i].offer.drag
               /\ r[i].type # "drop"
    <3>1. CASE i \in 1 .. Len(queue)
      <4>1. r[i] = queue[i]
        BY <1>5, <3>1
      <4>2. /\ queue[i].type = "enter" => queue[i].offer.n \in 1 .. made /\ queue[i].offer.drag
            /\ queue[i].type # "drop"
        BY <1>1, <1>2, <3>1 DEF Drags
      <4>. QED
        BY <4>1, <4>2
    <3>2. CASE i = Len(queue) + 1
      BY <1>3, <1>5, <3>2
    <3>. QED
      BY <1>5, <3>1, <3>2
  <2>2. \A n \in 1 .. made : n # 0
    BY <1>2
  <2>. QED
    BY <1>4, <2>1, <2>2 DEF Drags
<1>7. Dragged'
  BY <1>4 DEF Dragged
<1>8. OfDrag(e)
  BY <1>3 DEF OfDrag
<1>9. /\ queue' \in Seq(Events) /\ Drags(queue', drag', made') /\ Cancels(queue', owner', made')
      /\ Requests(queue', pastes', begun') /\ Sources' /\ Told'
  BY <1>1, <1>2, <1>3, <1>4, <1>6, <1>7, <1>8, DragAdds DEF r
<1>10. Typed'
  BY <1>1, <1>4, <1>9 DEF CInv, Typed
<1>11. Receiving'
  BY <1>1, FewerWrites
<1>. QED
  BY <1>7, <1>9, <1>10, <1>11 DEF CInv

\* Only what was accepted is dropped: no event of a drag is under way then.
LEMMA DragDropsStep ==
    ASSUME CInv, Copying!DragDrops
    PROVE  CInv'
<1>. DEFINE e == [type |-> "drop"]
            r == queue \o <<e>>
<1>1. /\ UNCHANGED <<clip, owner, focused, pasteTab, pasting, pastes, writes, made, begun, current, faults>>
      /\ drag.is = "accepted" /\ drag' = [drag EXCEPT !.is = "dropped"] /\ queue' = r
  BY DEF Copying!DragDrops, Copying!Sends
<1>2. queue \in Seq(Events) /\ made \in Nat /\ Drags(queue, drag, made)
      /\ drag \in [n : Nat, is : {"none", "over", "accepted", "dropped"}]
  BY DEF CInv, Typed
<1>3. e \in Events /\ e.type = "drop"
  BY DEF Events
<1>. HIDE DEF e
<1>4. /\ drag' \in [n : Nat, is : {"none", "over", "accepted", "dropped"}]
      /\ drag'.n = drag.n /\ drag'.is = "dropped"
  BY <1>1, <1>2
<1>5. /\ Len(queue) \in Nat /\ \A i \in 1 .. Len(queue) : r[i] = queue[i]
      /\ r[Len(queue) + 1] = e
      /\ \A i \in 1 .. Len(r) : i \in 1 .. Len(queue) \/ i = Len(queue) + 1
  BY <1>2, <1>3, AppendOne
<1>. HIDE DEF r
<1>6. Drags(r, drag', made)
  <2>1. \A i \in 1 .. Len(queue) : ~OfDrag(r[i])
    BY <1>1, <1>2, <1>5 DEF Drags, OfDrag
  <2>2. \A i, j \in 1 .. Len(r) : i < j => i \in 1 .. Len(queue)
    BY <1>5
  <2>3. \A i \in 1 .. Len(r) : r[i].type \notin {"enter", "leave"}
    BY <1>3, <1>5, <2>1 DEF OfDrag
  <2>4. \A i \in 1 .. Len(queue) : r[i].type # "drop"
    BY <2>1 DEF OfDrag
  <2>. QED
    BY <1>4, <2>2, <2>3, <2>4 DEF Drags
<1>7. Dragged'
  BY <1>1, <1>4 DEF CInv, Dragged
<1>8. OfDrag(e)
  BY <1>3 DEF OfDrag
<1>9. /\ queue' \in Seq(Events) /\ Drags(queue', drag', made') /\ Cancels(queue', owner', made')
      /\ Requests(queue', pastes', begun') /\ Sources' /\ Told'
  BY <1>1, <1>2, <1>3, <1>4, <1>6, <1>7, <1>8, DragAdds DEF r
<1>10. Typed'
  BY <1>1, <1>4, <1>9 DEF CInv, Typed
<1>11. Receiving'
  BY <1>1, FewerWrites
<1>. QED
  BY <1>7, <1>9, <1>10, <1>11 DEF CInv

(***************************************************************************)
(* Pasting                                                                 *)
(***************************************************************************)

\* selection_from_clipboard() and selection_from_primary(): what is asked for is what was
\* told last.
LEMMA FromStep ==
    ASSUME CInv, NEW sel \in Selections, Copying!From(sel), Admitted = {}
    PROVE  CInv'
<1>. DEFINE offer == clip[sel].offer
            e == [type |-> "send", selection |-> sel, n |-> offer.n, paste |-> begun + 1]
<1>1. /\ UNCHANGED <<clip, owner, focused, drag, pasteTab, writes, made, current>>
      /\ current[sel] = offer /\ faults' = faults
      /\ \/ /\ ~pasting[pasteTab] /\ Copying!Receives(pasteTab, sel, offer, current[sel].n)
            /\ queue' = queue \o (IF offer.by = "foot" THEN <<e>> ELSE <<>>)
         \/ UNCHANGED <<begun, pasting, pastes, queue>>
  BY DEF Copying!From, Copying!Fault, Copying!Sends
<1>2. /\ queue \in Seq(Events) /\ made \in Nat /\ begun \in Nat /\ pasteTab \in Tabs
      /\ clip \in [Selections -> [source : Nat, offer : DataOffers, type : Types, window : BOOLEAN]]
      /\ Drags(queue, drag, made) /\ Cancels(queue, owner, made) /\ Requests(queue, pastes, begun)
  BY DEF CInv, Typed
<1>3. offer \in DataOffers /\ offer.n \in Nat
  BY <1>2 DEF DataOffers
<1>4. CASE UNCHANGED <<begun, pasting, pastes, queue>>
  <2>1. Typed'
    BY <1>1, <1>4 DEF CInv, Typed
  <2>2. Dragged' /\ Sources' /\ Told'
    BY <1>1, <1>4 DEF CInv, Dragged, Sources, Told
  <2>3. Receiving'
    BY <1>1, <1>4, FewerWrites
  <2>. QED
    BY <1>1, <1>2, <1>4, <2>1, <2>2, <2>3 DEF CInv
<1>5. CASE /\ ~pasting[pasteTab] /\ Copying!Receives(pasteTab, sel, offer, current[sel].n)
           /\ queue' = queue \o (IF offer.by = "foot" THEN <<e>> ELSE <<>>)
  <2>1. e \in Events /\ e.type = "send" /\ e.paste = begun + 1 /\ e.n = offer.n
    BY <1>2, <1>3 DEF Events
  <2>. HIDE DEF e, offer
  <2>2. /\ pastes' \subseteq Pastes /\ begun' = begun + 1 /\ pasting' \in [Tabs -> BOOLEAN]
        /\ \A p \in pastes' : p.id = begun + 1 => p.by = offer.by /\ p.expected = offer.n /\ p.got = <<>>
        /\ \A q : Requests(q, pastes, begun) => Requests(q, pastes', begun)
        /\ Receiving'
    <3>1. Copying!Receives(pasteTab, sel, offer, offer.n)
      BY <1>1, <1>5
    <3>. QED
      BY <1>1, <1>2, <1>3, <1>5, <3>1, ReceivesStep
  <2>3. Requests(queue, pastes', begun)
    BY <1>2, <2>2
  <2>4. CASE offer.by = "foot"
    <3>1. queue' = queue \o <<e>>
      BY <1>5, <2>4
    <3>2. Requests(queue \o <<e>>, pastes', begun + 1)
      <4>1. begun + 1 \in Nat /\ begun <= begun + 1 /\ e.paste \in begun + 1 .. begun + 1
        BY <1>2, <2>1
      <4>2. \A p \in pastes' : p.id = e.paste => p.by = "foot" /\ p.expected = e.n /\ p.got = <<>>
        BY <2>1, <2>2, <2>4
      <4>. QED
        BY <1>2, <2>1, <2>3, <4>1, <4>2, RequestsAppend
    <3>3. /\ queue \o <<e>> \in Seq(Events) /\ Drags(queue \o <<e>>, drag, made)
          /\ Cancels(queue \o <<e>>, owner, made)
      <4>1. ~OfDrag(e) /\ made <= made /\ e.type # "cancelled"
        BY <1>2, <2>1 DEF OfDrag
      <4>. QED
        BY <1>2, <2>1, <4>1, AppendOne, DragsAppend, CancelsAppend
    <3>4. \A x \in Selections, n \in Nat : Coming(queue, x, n) => Coming(queue \o <<e>>, x, n)
      BY <1>2, <2>1, ComingAppend
    <3>5. ASSUME NEW x \in Selections, focused PROVE Latest(queue \o <<e>>, x, current[x], owner[x].n)
      <4>1. ~Tells(e, x) /\ Latest(queue, x, current[x], owner[x].n)
        BY <2>1, <3>5 DEF Tells, CInv, Told
      <4>. QED
        BY <1>2, <2>1, <4>1, LatestAppend
    <3>6. Told'
      BY <1>1, <3>1, <3>5 DEF Told
    <3>7. Sources'
      <4>1. \A x \in Selections : clip[x].source \in Nat
        BY <1>2
      <4>. QED
        BY <1>1, <3>1, <3>4, <4>1 DEF CInv, Sources
    <3>8. Dragged'
      BY <1>1 DEF CInv, Dragged
    <3>9. Typed'
      BY <1>1, <1>2, <2>2, <3>1, <3>3 DEF CInv, Typed
    <3>. QED
      BY <1>1, <2>2, <3>1, <3>2, <3>3, <3>6, <3>7, <3>8, <3>9 DEF CInv
  <2>5. CASE offer.by # "foot"
    <3>1. queue' = queue
      BY <1>2, <1>5, <2>5, Joined
    <3>2. Requests(queue, pastes', begun + 1)
      BY <1>2, <2>3, RequestsMore
    <3>3. Dragged' /\ Sources' /\ Told'
      BY <1>1, <3>1 DEF CInv, Dragged, Sources, Told
    <3>4. Typed'
      BY <1>1, <1>2, <2>2, <3>1 DEF CInv, Typed
    <3>. QED
      BY <1>1, <1>2, <2>2, <3>1, <3>2, <3>3, <3>4 DEF CInv
  <2>. QED
    BY <2>4, <2>5
<1>. QED
  BY <1>1, <1>4, <1>5

(***************************************************************************)
(* All of the steps                                                        *)
(***************************************************************************)

LEMMA CInvInit == Copying!Init => CInv
<1>. SUFFICES ASSUME Copying!Init PROVE CInv
  OBVIOUS
<1>1. /\ clip = [sel \in Selections |->
                    [source |-> 0, offer |-> Copying!NoOffer, type |-> "none", window |-> FALSE]]
      /\ owner = [sel \in Selections |-> Copying!NoOwner]
      /\ queue = <<>> /\ focused = TRUE /\ drag = Copying!NoDrag /\ pasteTab \in Tabs
      /\ pasting = [t \in Tabs |-> FALSE] /\ pastes = {} /\ writes = {} /\ made = 0 /\ begun = 0
      /\ current = [sel \in Selections |-> Copying!NoOffer] /\ faults = {}
  BY DEF Copying!Init, Copying!None
<1>2. queue \in Seq(Events) /\ Len(queue) = 0 /\ 1 .. Len(queue) = {}
  BY <1>1
<1>3. drag \in [n : Nat, is : {"none", "over", "accepted", "dropped"}] /\ drag.n = 0 /\ drag.is = "none"
  BY <1>1 DEF Copying!NoDrag, Copying!None
<1>4. Typed
  BY <1>1, <1>2, <1>3, NoOfferIs DEF Typed, Types
<1>5. Drags(queue, drag, made) /\ Cancels(queue, owner, made) /\ Requests(queue, pastes, begun)
  BY <1>2 DEF Drags, Cancels, Requests
<1>6. Dragged
  BY <1>3 DEF Dragged
<1>7. Sources
  BY <1>1, NoOfferIs DEF Sources
<1>8. Told
  BY <1>1, <1>2, NoOfferIs DEF Told, Latest
<1>9. Receiving
  BY <1>1 DEF Receiving
<1>. QED
  BY <1>4, <1>5, <1>6, <1>7, <1>8, <1>9 DEF CInv

LEMMA CInvStep ==
    ASSUME CInv, Copying!Next, Admitted = {}
    PROVE  CInv'
<1>1. CASE \E sel \in Selections, mimes \in Offered : Copying!OtherCopies(sel, mimes)
  BY <1>1, OtherCopiesStep
<1>2. CASE \E mimes \in Offered : Copying!DragEnters(mimes)
  BY <1>2, DragEntersStep
<1>3. CASE Copying!Focus
  BY <1>3, FocusStep
<1>4. CASE Copying!DragLeaves
  BY <1>4, DragLeavesStep
<1>5. CASE Copying!DragDrops
  BY <1>5, DragDropsStep
<1>6. CASE Copying!TextToClipboard
  BY <1>6, TextToStep DEF Copying!TextToClipboard
<1>7. CASE Copying!TextToPrimary
  BY <1>7, TextToStep DEF Copying!TextToPrimary
<1>8. CASE Copying!SelectionClipboardUnset
  BY <1>8, UnsetStep DEF Copying!SelectionClipboardUnset
<1>9. CASE Copying!SelectionPrimaryUnset
  BY <1>9, UnsetStep DEF Copying!SelectionPrimaryUnset
<1>10. CASE Copying!SelectionFromClipboard
  BY <1>10, FromStep DEF Copying!SelectionFromClipboard
<1>11. CASE Copying!SelectionFromPrimary
  BY <1>11, FromStep DEF Copying!SelectionFromPrimary
<1>12. CASE Copying!Cancelled
  BY <1>12, CancelledStep
<1>13. CASE Copying!Selection
  BY <1>13, SelectionStep
<1>14. CASE Copying!Enter
  BY <1>14, EnterStep
<1>15. CASE Copying!Leave
  BY <1>15, LeaveStep
<1>16. CASE Copying!Drop
  BY <1>16, DropStep
<1>17. CASE \E all \in BOOLEAN : Copying!Send(all)
  BY <1>17, SendStep
<1>18. CASE \E w \in writes : Copying!FdmSend(w)
  BY <1>18, FdmSendStep
<1>19. CASE \E p \in pastes : Copying!OtherWrites(p) \/ Copying!ReceiveDone(p)
  BY <1>19, OtherWritesStep, ReceiveDoneStep
<1>20. CASE \E t \in Tabs : Copying!SwitchTab(t)
  BY <1>20, SwitchTabStep
<1>. QED
  BY <1>1, <1>2, <1>3, <1>4, <1>5, <1>6, <1>7, <1>8, <1>9, <1>10, <1>11, <1>12, <1>13, <1>14,
     <1>15, <1>16, <1>17, <1>18, <1>19, <1>20 DEF Copying!Next

LEMMA Unchanged ==
    ASSUME CInv, UNCHANGED clipVars
    PROVE  CInv'
<1>1. UNCHANGED <<clip, owner, queue, focused, drag, pasteTab, pasting, pastes, writes, made, begun,
                  current, faults>>
  BY DEF clipVars
<1>2. Typed' /\ Dragged' /\ Sources' /\ Told'
  BY <1>1 DEF CInv, Typed, Dragged, Sources, Told
<1>3. Receiving'
  BY <1>1, FewerWrites
<1>. QED
  BY <1>1, <1>2, <1>3 DEF CInv

\* A paste or a drop receives the text that was copied or dragged, of the best type there is and
\* once, and foot keeps its own text while it is the owner, however copies, drags, pastes, the
\* compositor's events and the tabs' switches interleave (selection.c), when what is known to go
\* wrong is left out as in the run (Clipboard's Defects).
THEOREM PastesAreWhatWasCopied ==
    Admitted = {} => (MCSpec => []ClipboardPastesWhatWasCopied)
<1>. DEFINE Inv == part = "clipboard" => CInv
<1>. SUFFICES ASSUME Admitted = {} PROVE MCSpec => []ClipboardPastesWhatWasCopied
  OBVIOUS
<1>1. MCInit => Inv
  BY CInvInit DEF MCInit
<1>2. Inv /\ [MCNext]_<<part, vars, mouseVars, keyVars, urlVars, clipVars>> => Inv'
  <2>. SUFFICES ASSUME Inv, [MCNext]_<<part, vars, mouseVars, keyVars, urlVars, clipVars>>,
                       part' = "clipboard"
                PROVE  CInv'
    OBVIOUS
  <2>1. CASE part = "clipboard" /\ Copying!Next
    BY <2>1, CInvStep
  <2>2. CASE part' = part /\ UNCHANGED clipVars
    BY <2>2, Unchanged
  <2>. QED
    BY <2>1, <2>2 DEF MCNext
<1>3. Inv => ClipboardPastesWhatWasCopied
  BY CInvIs DEF ClipboardPastesWhatWasCopied
<1>. QED
  BY <1>1, <1>2, <1>3, PTL DEF MCSpec

(***************************************************************************)
(* The keyboard                                                            *)
(***************************************************************************)

\* What took the press of a key that is down
Strokes == {"mode", "application", "shortcut", "composing"}

Seats ==
    [kbd : [focus : Tabs \cup {"none"}, repeat : Keys \cup {"none"},
            compose : {"nothing", "composing", "composed", "cancelled"},
            shortcut : Keys \cup {"none"}, plugged : BOOLEAN],
     win : [term : Tabs, menu : BOOLEAN, reports : [Tabs -> BOOLEAN], mode : [Tabs -> Keyb!Modes]],
     down : UNION {[D -> Strokes] : D \in SUBSET Keys},
     told : [Tabs -> SUBSET Keys],
     stray : {FALSE}]

\* While keys are composed, nothing is sent and no release is reported.
Composing(x) == x.kbd.compose \in {"composing", "cancelled"}

\* What is remembered of a key says what its release will do: an application that reports
\* releases was told of the press, or the release is not reported.
Taken(x, k) ==
    /\ x.down[k] = "application" /\ x.win.reports[x.kbd.focus] => k \in x.told[x.kbd.focus]
    /\ x.down[k] = "shortcut" => x.kbd.shortcut = k
    /\ x.down[k] = "composing" => k = "dead" /\ Composing(x)

\* Only the tab in focus has been told of keys, and it will be told of their releases.
Telling(x) ==
    \A t \in Tabs : x.told[t] # {} =>
        /\ t = x.kbd.focus /\ x.win.reports[t] /\ ~Composing(x)
        /\ \A k \in x.told[t] : k \in DOMAIN x.down /\ x.down[k] = "application" /\ x.kbd.shortcut # k

KInv(x) ==
    /\ x \in Seats
    /\ x.kbd.focus \in {"none", x.win.term}
    /\ x.kbd.focus = "none" => DOMAIN x.down = {}
    /\ x.kbd.repeat # "none" => x.kbd.repeat \in DOMAIN x.down
    /\ \A k \in DOMAIN x.down : Taken(x, k)
    /\ Telling(x)

\* The fields of a seat.
LEMMA SeatIs ==
    ASSUME NEW x \in Seats
    PROVE  /\ x.kbd \in [focus : Tabs \cup {"none"}, repeat : Keys \cup {"none"},
                         compose : {"nothing", "composing", "composed", "cancelled"},
                         shortcut : Keys \cup {"none"}, plugged : BOOLEAN]
           /\ x.win \in [term : Tabs, menu : BOOLEAN, reports : [Tabs -> BOOLEAN], mode : [Tabs -> Keyb!Modes]]
           /\ DOMAIN x.down \subseteq Keys /\ x.down = [j \in DOMAIN x.down |-> x.down[j]]
           /\ \A j \in DOMAIN x.down : x.down[j] \in Strokes
           /\ x.told \in [Tabs -> SUBSET Keys] /\ x.stray = FALSE
<1>1. x.down \in UNION {[D -> Strokes] : D \in SUBSET Keys}
  BY DEF Seats
<1>2. PICK D \in SUBSET Keys : x.down \in [D -> Strokes]
  BY <1>1
<1>. QED
  BY <1>2 DEF Seats

\* A seat that is made of other parts.
LEMMA SeatMade ==
    ASSUME NEW x \in Seats, NEW y,
           y = [kbd |-> y.kbd, win |-> y.win, down |-> y.down, told |-> y.told, stray |-> y.stray],
           y.kbd \in [focus : Tabs \cup {"none"}, repeat : Keys \cup {"none"},
                      compose : {"nothing", "composing", "composed", "cancelled"},
                      shortcut : Keys \cup {"none"}, plugged : BOOLEAN],
           y.win \in [term : Tabs, menu : BOOLEAN, reports : [Tabs -> BOOLEAN], mode : [Tabs -> Keyb!Modes]],
           NEW D \in SUBSET Keys, y.down \in [D -> Strokes],
           y.told \in [Tabs -> SUBSET Keys], y.stray = FALSE
    PROVE  y \in Seats
<1>1. y.down \in UNION {[E -> Strokes] : E \in SUBSET Keys}
  OBVIOUS
<1>. QED
  BY <1>1 DEF Seats

Wins == [term : Tabs, menu : BOOLEAN, reports : [Tabs -> BOOLEAN], mode : [Tabs -> Keyb!Modes]]
Kbds == [focus : Tabs \cup {"none"}, repeat : Keys \cup {"none"},
            compose : {"nothing", "composing", "composed", "cancelled"},
            shortcut : Keys \cup {"none"}, plugged : BOOLEAN]

LEMMA WindowChanges ==
    ASSUME NEW x, KInv(x), NEW w \in Wins, w.term = x.win.term, w.reports = x.win.reports
    PROVE  KInv([x EXCEPT !.win = w])
<1>. DEFINE y == [x EXCEPT !.win = w]
<1>1. x \in Seats
  BY DEF KInv
<1>2. y \in Seats
  BY <1>1 DEF Seats, Wins
<1>3. y.kbd = x.kbd /\ y.win = w /\ y.down = x.down /\ y.told = x.told /\ y.stray = x.stray
  BY <1>1 DEF Seats
<1>. HIDE DEF y
<1>4. KInv(y)
  BY <1>2, <1>3 DEF KInv, Taken, Telling, Composing
<1>. QED
  BY <1>4 DEF y

LEMMA RepeatChanges ==
    ASSUME NEW x, KInv(x), NEW k \in DOMAIN x.down \cup {"none"}
    PROVE  KInv([x EXCEPT !.kbd.repeat = k])
<1>. DEFINE y == [x EXCEPT !.kbd.repeat = k]
<1>1. x \in Seats /\ k \in Keys \cup {"none"}
  BY SeatIs DEF KInv
<1>2. y \in Seats
  BY <1>1 DEF Seats
<1>3. /\ y.kbd.repeat = k /\ y.kbd.focus = x.kbd.focus /\ y.kbd.compose = x.kbd.compose
      /\ y.kbd.shortcut = x.kbd.shortcut /\ y.win = x.win /\ y.down = x.down /\ y.told = x.told
  BY <1>1 DEF Seats
<1>. HIDE DEF y
<1>4. KInv(y)
  BY <1>2, <1>3, <1>1 DEF KInv, Taken, Telling, Composing
<1>. QED
  BY <1>4 DEF y

\* A press is fed to the state of dead keys, and is taken by the mode until it is known who takes it.
FedBy(x, k, repeating) ==
    [x EXCEPT !.kbd.shortcut = "none", !.kbd.compose = Keyb!Fed(@, k),
              !.down = [j \in DOMAIN @ \cup {k} |->
                  IF j = k /\ ~(repeating /\ @[j] = "application") THEN "mode" ELSE @[j]]]

LEMMA FedIs ==
    ASSUME NEW x \in Seats, NEW k \in Keys, NEW repeating \in BOOLEAN,
           repeating => k \in DOMAIN x.down
    PROVE  LET y == FedBy(x, k, repeating)
           IN /\ y \in Seats
              /\ y.kbd.focus = x.kbd.focus /\ y.kbd.repeat = x.kbd.repeat
              /\ y.kbd.compose = Keyb!Fed(x.kbd.compose, k) /\ y.kbd.shortcut = "none"
              /\ y.win = x.win /\ y.told = x.told
              /\ DOMAIN y.down = DOMAIN x.down \cup {k}
              /\ \A j \in DOMAIN x.down : j # k => y.down[j] = x.down[j]
              /\ y.down[k] = IF repeating /\ x.down[k] = "application" THEN "application" ELSE "mode"
<1>. DEFINE d == [j \in DOMAIN x.down \cup {k} |->
                    IF j = k /\ ~(repeating /\ x.down[j] = "application") THEN "mode" ELSE x.down[j]]
            c == Keyb!Fed(x.kbd.compose, k)
            y == FedBy(x, k, repeating)
<1>1. /\ DOMAIN x.down \subseteq Keys /\ \A j \in DOMAIN x.down : x.down[j] \in Strokes
  BY SeatIs
<1>2. d \in [DOMAIN x.down \cup {k} -> Strokes]
  BY <1>1 DEF Strokes
<1>3. d \in UNION {[D -> Strokes] : D \in SUBSET Keys}
  BY <1>1, <1>2
<1>4. c \in {"nothing", "composing", "composed", "cancelled"}
  BY DEF Keyb!Fed
<1>5. y = [x EXCEPT !.kbd.shortcut = "none", !.kbd.compose = c, !.down = d]
  BY DEF FedBy
<1>6. /\ DOMAIN d = DOMAIN x.down \cup {k} /\ \A j \in DOMAIN x.down : j # k => d[j] = x.down[j]
      /\ d[k] = IF repeating /\ x.down[k] = "application" THEN "application" ELSE "mode"
  OBVIOUS
<1>. HIDE DEF d, c, y
<1>7. y \in Seats
  BY <1>3, <1>4, <1>5 DEF Seats
<1>8. /\ y.kbd.focus = x.kbd.focus /\ y.kbd.repeat = x.kbd.repeat
      /\ y.kbd.compose = c /\ y.kbd.shortcut = "none"
      /\ y.win = x.win /\ y.told = x.told /\ y.down = d
  BY <1>5 DEF Seats
<1>. QED
  BY <1>6, <1>7, <1>8 DEF c, y

\* What allows a press (MayPress): it is the only one of a shortcut, and dead keys are not mixed with others.
Allowed(x, k) ==
    /\ \A j \in DOMAIN x.down \ {k} : x.down[j] # "shortcut"
    /\ "dead" \in DOMAIN x.down => k = "dead"
    /\ k = "dead" => x.told[x.kbd.focus] = {}

LEMMA FedOk ==
    ASSUME NEW x, KInv(x), NEW k \in Keys, NEW repeating \in BOOLEAN, Allowed(x, k),
           x.kbd.focus # "none", repeating <=> k \in DOMAIN x.down
    PROVE  KInv(FedBy(x, k, repeating))
<1>. DEFINE y == FedBy(x, k, repeating)
<1>1. /\ x \in Seats /\ DOMAIN x.down \subseteq Keys /\ "none" \notin Tabs /\ "none" \notin Keys
      /\ x.kbd.compose \in {"nothing", "composing", "composed", "cancelled"}
      /\ x.told \in [Tabs -> SUBSET Keys] /\ x.kbd.focus \in Tabs /\ x.kbd.focus = x.win.term
  BY SeatIs, InputAssumption DEF KInv
<1>2. /\ y \in Seats
      /\ y.kbd.focus = x.kbd.focus /\ y.kbd.repeat = x.kbd.repeat
      /\ y.kbd.compose = Keyb!Fed(x.kbd.compose, k) /\ y.kbd.shortcut = "none"
      /\ y.win = x.win /\ y.told = x.told
      /\ DOMAIN y.down = DOMAIN x.down \cup {k}
      /\ \A j \in DOMAIN x.down : j # k => y.down[j] = x.down[j]
      /\ y.down[k] = IF repeating /\ x.down[k] = "application" THEN "application" ELSE "mode"
  BY <1>1, FedIs
<1>. HIDE DEF y
<1>3. k # "dead" => ~Composing(y)
  BY <1>1, <1>2 DEF Composing, Keyb!Fed
<1>4. \A j \in DOMAIN y.down : Taken(y, j)
  <2>. SUFFICES ASSUME NEW j \in DOMAIN y.down PROVE Taken(y, j)
    OBVIOUS
  <2>1. CASE j # k
    <3>1. j \in DOMAIN x.down /\ Taken(x, j) /\ y.down[j] = x.down[j]
      BY <1>2, <2>1 DEF KInv
    <3>2. x.down[j] # "shortcut" /\ x.down[j] # "composing"
      BY <2>1, <3>1 DEF Allowed, Taken
    <3>. QED
      BY <1>2, <3>1, <3>2 DEF Taken
  <2>2. CASE j = k
    <3>1. CASE repeating /\ x.down[k] = "application"
      <4>1. Taken(x, k)
        BY <3>1 DEF KInv
      <4>. QED
        BY <1>2, <2>2, <3>1, <4>1 DEF Taken
    <3>2. CASE ~(repeating /\ x.down[k] = "application")
      BY <1>2, <2>2, <3>2 DEF Taken
    <3>. QED
      BY <3>1, <3>2
  <2>. QED
    BY <2>1, <2>2
<1>5. Telling(y)
  <2>. SUFFICES ASSUME NEW t \in Tabs, x.told[t] # {}
                PROVE  /\ t = y.kbd.focus /\ y.win.reports[t] /\ ~Composing(y)
                       /\ \A j \in x.told[t] : j \in DOMAIN y.down /\ y.down[j] = "application" /\ y.kbd.shortcut # j
    BY <1>2 DEF Telling
  <2>1. t = x.kbd.focus /\ x.win.reports[t] /\ \A j \in x.told[t] : j \in DOMAIN x.down /\ x.down[j] = "application"
    BY DEF KInv, Telling
  <2>2. k # "dead"
    BY <2>1 DEF Allowed
  <2>3. ASSUME NEW j \in x.told[t]
        PROVE  j \in DOMAIN y.down /\ y.down[j] = "application" /\ y.kbd.shortcut # j
    <3>1. j \in DOMAIN x.down /\ x.down[j] = "application" /\ j \in Keys
      BY <1>1, <2>1, <2>3
    <3>2. j = k => repeating
      BY <3>1
    <3>. QED
      BY <1>1, <1>2, <3>1, <3>2
  <2>. QED
    BY <1>2, <1>3, <2>1, <2>2, <2>3
<1>6. y.kbd.repeat # "none" => y.kbd.repeat \in DOMAIN y.down
  BY <1>2 DEF KInv
<1>. QED
  BY <1>1, <1>2, <1>4, <1>5, <1>6 DEF KInv, y

\* What takes the press of k is remembered; a shortcut is, too.
TakenBy(x, k, v) == [x EXCEPT !.down[k] = v]

LEMMA TakerIs ==
    ASSUME NEW x \in Seats, NEW k \in DOMAIN x.down, NEW v \in Strokes
    PROVE  LET y == TakenBy(x, k, v)
           IN /\ y \in Seats /\ y.kbd = x.kbd /\ y.win = x.win /\ y.told = x.told
              /\ DOMAIN y.down = DOMAIN x.down /\ y.down[k] = v
              /\ \A j \in DOMAIN x.down : j # k => y.down[j] = x.down[j]
<1>. DEFINE d == [x.down EXCEPT ![k] = v]
            y == [x EXCEPT !.down = d]
<1>1. /\ DOMAIN x.down \subseteq Keys /\ \A j \in DOMAIN x.down : x.down[j] \in Strokes
      /\ x.down = [j \in DOMAIN x.down |-> x.down[j]]
  BY SeatIs
<1>2. d \in [DOMAIN x.down -> Strokes] /\ DOMAIN d = DOMAIN x.down /\ d[k] = v
      /\ \A j \in DOMAIN x.down : j # k => d[j] = x.down[j]
  BY <1>1
<1>3. d \in UNION {[D -> Strokes] : D \in SUBSET Keys}
  BY <1>1, <1>2
<1>. HIDE DEF d
<1>4. y \in Seats /\ y.kbd = x.kbd /\ y.win = x.win /\ y.told = x.told /\ y.down = d
  BY <1>3 DEF Seats
<1>5. y = TakenBy(x, k, v)
  BY DEF d, TakenBy
<1>. HIDE DEF y
<1>. QED
  BY <1>2, <1>4, <1>5

\* Keys are composed: the press of a dead key goes to no application.
LEMMA ComposedOk ==
    ASSUME NEW x, KInv(x), Composing(x), NEW k \in DOMAIN x.down, k = "dead"
    PROVE  KInv(TakenBy(x, k, "composing"))
<1>. DEFINE y == TakenBy(x, k, "composing")
<1>1. x \in Seats /\ \A t \in Tabs : x.told[t] = {}
  BY DEF KInv, Telling
<1>2. /\ y \in Seats /\ y.kbd = x.kbd /\ y.win = x.win /\ y.told = x.told
      /\ DOMAIN y.down = DOMAIN x.down /\ y.down[k] = "composing"
      /\ \A j \in DOMAIN x.down : j # k => y.down[j] = x.down[j]
  BY <1>1, TakerIs DEF Strokes
<1>. HIDE DEF y
<1>3. \A j \in DOMAIN y.down : Taken(y, j)
  BY <1>2 DEF KInv, Taken, Composing
<1>4. Telling(y)
  BY <1>1, <1>2 DEF Telling
<1>. QED
  BY <1>2, <1>3, <1>4 DEF KInv, y

\* An application gets the press of a key.
LEMMA SentOk ==
    ASSUME NEW x, KInv(x), NEW k \in DOMAIN x.down, Composing(x) => k = "dead",
           x.kbd.compose # "cancelled", x.kbd.shortcut = "none", x.kbd.focus # "none"
    PROVE  KInv(Keyb!Sent(x, k))
<1>1. /\ x \in Seats /\ DOMAIN x.down \subseteq Keys /\ "none" \notin Keys
      /\ x.told \in [Tabs -> SUBSET Keys] /\ x.kbd.focus \in Tabs /\ x.kbd.focus = x.win.term
      /\ x.kbd.compose \in {"nothing", "composing", "composed", "cancelled"}
  BY SeatIs, InputAssumption DEF KInv
<1>2. CASE x.kbd.compose = "composing"
  <2>1. KInv(TakenBy(x, k, "composing"))
    BY <1>2, ComposedOk DEF Composing
  <2>. QED
    BY <1>2, <2>1 DEF Keyb!Sent, TakenBy
<1>3. ASSUME ~Composing(x)
      PROVE  KInv(Keyb!Sent(x, k))
  <2>. DEFINE t == x.kbd.focus
              z == TakenBy(x, k, "application")
              p == [x.told EXCEPT ![t] = @ \cup {k}]
              y == [z EXCEPT !.told = p]
  <2>1. /\ z \in Seats /\ z.kbd = x.kbd /\ z.win = x.win /\ z.told = x.told
        /\ DOMAIN z.down = DOMAIN x.down /\ z.down[k] = "application"
        /\ \A j \in DOMAIN x.down : j # k => z.down[j] = x.down[j]
    BY <1>1, TakerIs DEF Strokes
  <2>. HIDE DEF z
  <2>2. p \in [Tabs -> SUBSET Keys] /\ p[t] = x.told[t] \cup {k} /\ \A u \in Tabs : u # t => p[u] = x.told[u]
    BY <1>1
  <2>. HIDE DEF p
  <2>3. y \in Seats /\ y.kbd = x.kbd /\ y.win = x.win /\ y.told = p /\ y.down = z.down
    BY <2>1, <2>2 DEF Seats
  <2>. HIDE DEF y
  <2>4. CASE x.win.reports[t]
    <3>1. \A j \in DOMAIN y.down : Taken(y, j)
      BY <2>1, <2>2, <2>3 DEF KInv, Taken, Composing
    <3>2. Telling(y)
      BY <1>1, <1>3, <2>1, <2>2, <2>3, <2>4 DEF KInv, Telling, Composing
    <3>3. KInv(y)
      BY <1>1, <2>1, <2>3, <3>1, <3>2 DEF KInv
    <3>4. Keyb!Sent(x, k) = y
      BY <1>3, <2>4 DEF Keyb!Sent, Composing, y, z, p, TakenBy
    <3>. QED
      BY <3>3, <3>4
  <2>5. CASE ~x.win.reports[t]
    <3>1. \A j \in DOMAIN z.down : Taken(z, j)
      BY <2>1, <2>5 DEF KInv, Taken, Composing
    <3>2. Telling(z)
      BY <2>1, <2>5 DEF KInv, Telling, Composing
    <3>3. KInv(z)
      BY <1>1, <2>1, <3>1, <3>2 DEF KInv
    <3>4. Keyb!Sent(x, k) = z
      BY <1>3, <2>5 DEF Keyb!Sent, Composing, z, TakenBy
    <3>. QED
      BY <3>3, <3>4
  <2>. QED
    BY <2>4, <2>5
<1>. QED
  BY <1>1, <1>2, <1>3 DEF Composing

\* No application has been told of a key.
NothingTold(x) == \A k \in DOMAIN x.down : x.down[k] # "application"

\* do_tab_switch()
LEMMA SwitchOk ==
    ASSUME NEW x, KInv(x), NothingTold(x), NEW t \in Tabs
    PROVE  KInv(Keyb!SwitchTo(x, t))
<1>. DEFINE f == IF x.kbd.focus = x.win.term THEN t ELSE x.kbd.focus
            y == [x EXCEPT !.win.term = t, !.kbd.focus = f]
<1>1. x \in Seats /\ f \in {"none", t} /\ (f = "none" <=> x.kbd.focus = "none")
  BY InputAssumption DEF KInv, Seats
<1>2. y = Keyb!SwitchTo(x, t)
  BY DEF Keyb!SwitchTo
<1>. HIDE DEF f
<1>3. /\ y \in Seats /\ y.kbd.focus = f /\ y.kbd.repeat = x.kbd.repeat /\ y.kbd.compose = x.kbd.compose
      /\ y.kbd.shortcut = x.kbd.shortcut /\ y.win.term = t /\ y.down = x.down /\ y.told = x.told
  BY <1>1 DEF Seats
<1>. HIDE DEF y
<1>4. \A u \in Tabs : x.told[u] = {}
  BY DEF KInv, Telling, NothingTold
<1>5. Telling(y)
  BY <1>3, <1>4 DEF Telling
<1>6. \A j \in DOMAIN y.down : Taken(y, j)
  BY <1>3 DEF KInv, Taken, Composing, NothingTold
<1>7. KInv(y)
  BY <1>1, <1>3, <1>5, <1>6 DEF KInv
<1>. QED
  BY <1>2, <1>7

\* A shortcut takes the press of a key.
ShortcutOf(x, k) == [x EXCEPT !.kbd.shortcut = k, !.down[k] = "shortcut"]

LEMMA ShortcutOk ==
    ASSUME NEW x, KInv(x), NEW k \in DOMAIN x.down, x.down[k] # "application",
           \A j \in DOMAIN x.down : x.down[j] # "shortcut"
    PROVE  LET y == ShortcutOf(x, k)
           IN /\ KInv(y) /\ y.win = x.win /\ y.told = x.told /\ y.kbd.focus = x.kbd.focus
              /\ DOMAIN y.down = DOMAIN x.down /\ y.down[k] = "shortcut"
              /\ \A j \in DOMAIN x.down : j # k => y.down[j] = x.down[j]
<1>. DEFINE z == TakenBy(x, k, "shortcut")
            y == [z EXCEPT !.kbd.shortcut = k]
<1>1. x \in Seats /\ DOMAIN x.down \subseteq Keys
  BY SeatIs DEF KInv
<1>2. /\ z \in Seats /\ z.kbd = x.kbd /\ z.win = x.win /\ z.told = x.told
      /\ DOMAIN z.down = DOMAIN x.down /\ z.down[k] = "shortcut"
      /\ \A j \in DOMAIN x.down : j # k => z.down[j] = x.down[j]
  BY <1>1, TakerIs DEF Strokes
<1>3. y = ShortcutOf(x, k)
  BY DEF ShortcutOf, z, TakenBy
<1>. HIDE DEF z
<1>4. /\ y \in Seats /\ y.kbd.focus = z.kbd.focus /\ y.kbd.repeat = z.kbd.repeat /\ y.kbd.compose = z.kbd.compose
      /\ y.kbd.shortcut = k /\ y.win = z.win /\ y.down = z.down /\ y.told = z.told
  BY <1>1, <1>2 DEF Seats
<1>. HIDE DEF y
<1>5. Telling(y)
  <2>1. \A t \in Tabs : x.told[t] # {} =>
           /\ t = x.kbd.focus /\ x.win.reports[t] /\ ~Composing(x)
           /\ \A j \in x.told[t] : j \in DOMAIN x.down /\ x.down[j] = "application" /\ j # k
    BY DEF KInv, Telling
  <2>. QED
    BY <1>2, <1>4, <2>1 DEF Telling, Composing
<1>6. \A j \in DOMAIN y.down : Taken(y, j)
  BY <1>2, <1>4 DEF KInv, Taken, Composing
<1>7. KInv(y)
  BY <1>1, <1>2, <1>4, <1>5, <1>6 DEF KInv
<1>. QED
  BY <1>2, <1>3, <1>4, <1>7

Cuts == Keyb!Shortcuts \cup {"none"}

LEMMA ExecutedOk ==
    ASSUME NEW x, KInv(x), NEW k \in DOMAIN x.down, x.down[k] # "application",
           \A j \in DOMAIN x.down : x.down[j] # "shortcut", x.kbd.focus # "none",
           NEW shortcut \in Keyb!Shortcuts, shortcut = "switch" => NothingTold(x)
    PROVE  KInv(Keyb!Executed(x, k, shortcut)) /\ k \in DOMAIN Keyb!Executed(x, k, shortcut).down
<1>. DEFINE t == x.kbd.focus
            y == ShortcutOf(x, k)
            u == CHOOSE v \in Tabs : v # t
<1>1. /\ KInv(y) /\ y.win = x.win /\ y.told = x.told /\ y.kbd.focus = t
      /\ DOMAIN y.down = DOMAIN x.down /\ y.down[k] = "shortcut"
      /\ \A j \in DOMAIN x.down : j # k => y.down[j] = x.down[j]
  BY ShortcutOk
<1>2. t \in Tabs /\ x.win \in Wins /\ y \in Seats
  BY <1>1, SeatIs DEF KInv, Seats, Wins
<1>3. Keyb!Executed(x, k, shortcut) =
        IF shortcut = "switch" THEN Keyb!SwitchTo(y, u) ELSE [y EXCEPT !.win.mode[t] = shortcut]
  BY DEF Keyb!Executed, ShortcutOf
<1>. HIDE DEF y
<1>4. CASE shortcut = "switch"
  <2>1. u \in Tabs
    <3>1. \E v, w \in Tabs : v # w
      BY <1>4 DEF Keyb!Shortcuts, Keyb!Modes
    <3>2. \E v \in Tabs : v # t
      BY <3>1
    <3>. QED
      BY <3>2
  <2>. HIDE DEF u
  <2>2. NothingTold(y)
    BY <1>1, <1>4 DEF NothingTold
  <2>3. KInv(Keyb!SwitchTo(y, u))
    BY <1>1, <2>1, <2>2, SwitchOk
  <2>4. Keyb!SwitchTo(y, u).down = y.down
    BY <1>2 DEF Keyb!SwitchTo, Seats
  <2>. QED
    BY <1>1, <1>3, <1>4, <2>3, <2>4
<1>5. CASE shortcut # "switch"
  <2>. DEFINE w == [x.win EXCEPT !.mode[t] = shortcut]
  <2>1. shortcut \in Keyb!Modes
    BY <1>5 DEF Keyb!Shortcuts
  <2>2. w \in Wins /\ w.term = x.win.term /\ w.reports = x.win.reports
    BY <1>2, <2>1 DEF Wins
  <2>3. [y EXCEPT !.win.mode[t] = shortcut] = [y EXCEPT !.win = w]
    BY <1>1
  <2>. HIDE DEF w
  <2>4. KInv([y EXCEPT !.win = w])
    BY <1>1, <2>2, WindowChanges
  <2>5. [y EXCEPT !.win = w].down = y.down
    BY <1>2 DEF Seats
  <2>. QED
    BY <1>1, <1>3, <1>5, <2>3, <2>4, <2>5
<1>. QED
  BY <1>4, <1>5

\* key_press_release() of a press
LEMMA PressedOk ==
    ASSUME NEW x, KInv(x), NEW k \in Keys, NEW shortcut \in Cuts, NEW leaves \in BOOLEAN,
           NEW repeating \in BOOLEAN, Allowed(x, k), x.kbd.focus # "none",
           repeating <=> k \in DOMAIN x.down,
           repeating => (shortcut # "none" <=> x.down[k] = "shortcut"),
           shortcut = "switch" => NothingTold(x)
    PROVE  KInv(Keyb!Pressed(x, k, shortcut, leaves, repeating))
<1>. DEFINE t == x.kbd.focus
            fed == FedBy(x, k, repeating)
            left == [fed EXCEPT !.win.mode[t] = IF leaves \/ x.win.mode[t] = "help" THEN "normal" ELSE @]
            started(y) == Keyb!StartRepeater(y, k, repeating)
            sent == IF shortcut # "none" THEN Keyb!Executed(fed, k, shortcut)
                    ELSE IF fed.kbd.compose = "cancelled" THEN TakenBy(fed, k, "composing")
                    ELSE Keyb!Sent(fed, k)
<1>1. /\ KInv(fed) /\ fed.kbd.focus = t /\ fed.win = x.win /\ fed.kbd.shortcut = "none"
      /\ fed.kbd.compose = Keyb!Fed(x.kbd.compose, k) /\ k \in DOMAIN fed.down
      /\ DOMAIN fed.down = DOMAIN x.down \cup {k}
      /\ \A j \in DOMAIN x.down : j # k => fed.down[j] = x.down[j]
      /\ fed.down[k] = IF repeating /\ x.down[k] = "application" THEN "application" ELSE "mode"
  BY FedOk, FedIs DEF KInv
<1>2. t \in Tabs /\ fed \in Seats /\ x.win \in Wins /\ fed.win \in Wins /\ "none" \notin Keys
  BY <1>1, SeatIs, InputAssumption DEF KInv, Wins
<1>3. Keyb!Pressed(x, k, shortcut, leaves, repeating) =
        IF x.win.menu THEN [fed EXCEPT !.win.menu = FALSE]
        ELSE CASE x.win.mode[t] \in {"help", "unicode"} -> left
               [] x.win.mode[t] = "search" -> started(left)
               [] x.win.mode[t] = "normal" -> started(sent)
  BY DEF Keyb!Pressed, FedBy, TakenBy, Keyb!None
<1>4. x.win.mode[t] \in {"help", "unicode", "search", "normal"}
  BY <1>2 DEF Wins, Keyb!Modes
<1>. HIDE DEF fed
<1>5. KInv([fed EXCEPT !.win.menu = FALSE])
  <2>. DEFINE w == [fed.win EXCEPT !.menu = FALSE]
  <2>1. w \in Wins /\ w.term = fed.win.term /\ w.reports = fed.win.reports
    BY <1>2 DEF Wins
  <2>2. [fed EXCEPT !.win.menu = FALSE] = [fed EXCEPT !.win = w]
    OBVIOUS
  <2>. HIDE DEF w
  <2>. QED
    BY <1>1, <2>1, <2>2, WindowChanges
<1>6. KInv(left) /\ left.down = fed.down
  <2>. DEFINE m == IF leaves \/ x.win.mode[t] = "help" THEN "normal" ELSE fed.win.mode[t]
              w == [fed.win EXCEPT !.mode[t] = m]
  <2>1. m \in Keyb!Modes
    BY <1>1, <1>4 DEF Keyb!Modes
  <2>2. w \in Wins /\ w.term = fed.win.term /\ w.reports = fed.win.reports
    BY <1>2, <2>1 DEF Wins
  <2>3. left = [fed EXCEPT !.win = w]
    OBVIOUS
  <2>. HIDE DEF w
  <2>4. KInv([fed EXCEPT !.win = w])
    BY <1>1, <2>2, WindowChanges
  <2>. QED
    BY <1>2, <2>3, <2>4 DEF Seats
<1>. HIDE DEF left
<1>7. ASSUME NEW y, KInv(y), k \in DOMAIN y.down PROVE KInv(started(y))
  BY <1>7, RepeatChanges DEF Keyb!StartRepeater
<1>8. KInv(sent) /\ k \in DOMAIN sent.down
  <2>1. CASE shortcut # "none"
    <3>1. fed.down[k] # "application"
      BY <1>1, <2>1
    <3>2. \A j \in DOMAIN fed.down : fed.down[j] # "shortcut"
      BY <1>1 DEF Allowed
    <3>3. shortcut = "switch" => NothingTold(fed)
      BY <1>1, <3>1 DEF NothingTold
    <3>. QED
      BY <1>1, <2>1, <3>1, <3>2, <3>3, ExecutedOk DEF Cuts
  <2>2. CASE shortcut = "none" /\ fed.kbd.compose = "cancelled"
    <3>1. k = "dead"
      BY <1>1, <2>2 DEF Keyb!Fed
    <3>. QED
      BY <1>1, <1>2, <2>2, <3>1, ComposedOk, TakerIs DEF Composing, Strokes
  <2>3. CASE shortcut = "none" /\ fed.kbd.compose # "cancelled"
    <3>1. Composing(fed) => k = "dead"
      BY <1>1 DEF Keyb!Fed, Composing
    <3>2. KInv(Keyb!Sent(fed, k))
      BY <1>1, <2>3, <3>1, SentOk
    <3>3. DOMAIN Keyb!Sent(fed, k).down = DOMAIN fed.down
      BY <1>2 DEF Keyb!Sent, Seats
    <3>. QED
      BY <1>1, <2>3, <3>2, <3>3
  <2>. QED
    BY <2>1, <2>2, <2>3
<1>. HIDE DEF started, sent
<1>. QED
  BY <1>1, <1>3, <1>4, <1>5, <1>6, <1>7, <1>8

\* The key is up, and no longer repeats.
Up(x, k) ==
    [Keyb!StopRepeater(x, k) EXCEPT !.down = [j \in DOMAIN @ \ {k} |-> @[j]]]

LEMMA UpIs ==
    ASSUME NEW x, KInv(x), NEW k \in DOMAIN x.down
    PROVE  LET y == Up(x, k)
           IN /\ y \in Seats /\ y.kbd.focus = x.kbd.focus /\ y.kbd.compose = x.kbd.compose
              /\ y.kbd.shortcut = x.kbd.shortcut /\ y.win = x.win /\ y.told = x.told
              /\ DOMAIN y.down = DOMAIN x.down \ {k}
              /\ \A j \in DOMAIN y.down : y.down[j] = x.down[j]
              /\ y.kbd.repeat # "none" => y.kbd.repeat \in DOMAIN y.down
<1>. DEFINE z == Keyb!StopRepeater(x, k)
            d == [j \in DOMAIN x.down \ {k} |-> x.down[j]]
            y == [z EXCEPT !.down = d]
<1>1. /\ x \in Seats /\ DOMAIN x.down \subseteq Keys /\ "none" \notin Keys
      /\ \A j \in DOMAIN x.down : x.down[j] \in Strokes
  BY SeatIs, InputAssumption DEF KInv
<1>2. /\ z \in Seats /\ z.kbd.focus = x.kbd.focus /\ z.kbd.compose = x.kbd.compose
      /\ z.kbd.shortcut = x.kbd.shortcut /\ z.win = x.win /\ z.told = x.told /\ z.down = x.down
      /\ z.kbd.repeat = IF x.kbd.repeat = k THEN "none" ELSE x.kbd.repeat
  BY <1>1 DEF Keyb!StopRepeater, Keyb!None, Seats
<1>3. y = Up(x, k)
  BY <1>2 DEF Up
<1>. HIDE DEF z
<1>4. d \in [DOMAIN x.down \ {k} -> Strokes] /\ DOMAIN d = DOMAIN x.down \ {k}
      /\ \A j \in DOMAIN d : d[j] = x.down[j]
  BY <1>1
<1>5. d \in UNION {[D -> Strokes] : D \in SUBSET Keys}
  BY <1>1, <1>4
<1>. HIDE DEF d
<1>6. y \in Seats /\ y.kbd = z.kbd /\ y.win = z.win /\ y.told = z.told /\ y.down = d
  BY <1>2, <1>5 DEF Seats
<1>. HIDE DEF y
<1>7. y.kbd.repeat # "none" => y.kbd.repeat \in DOMAIN y.down
  BY <1>2, <1>4, <1>6 DEF KInv
<1>. QED
  BY <1>2, <1>3, <1>4, <1>6, <1>7

\* Once what was composed has been sent, its state is as before.
LEMMA ResetOk ==
    ASSUME NEW x, KInv(x), x.kbd.compose = "composed"
    PROVE  KInv([x EXCEPT !.kbd.compose = "nothing"])
<1>. DEFINE y == [x EXCEPT !.kbd.compose = "nothing"]
<1>1. x \in Seats
  BY DEF KInv
<1>2. /\ y \in Seats /\ y.kbd.focus = x.kbd.focus /\ y.kbd.repeat = x.kbd.repeat /\ y.kbd.compose = "nothing"
      /\ y.kbd.shortcut = x.kbd.shortcut /\ y.win = x.win /\ y.down = x.down /\ y.told = x.told
  BY <1>1 DEF Seats
<1>. HIDE DEF y
<1>3. KInv(y)
  BY <1>2 DEF KInv, Taken, Telling, Composing
<1>. QED
  BY <1>3 DEF y

\* key_press_release() of a release
LEMMA ReleasedOk ==
    ASSUME NEW x, KInv(x), NEW k \in DOMAIN x.down, x.kbd.focus # "none",
           x.down[k] # "mode" \/ ~Keyb!Reports(x, k)
    PROVE  KInv(Keyb!Released(x, k))
<1>. DEFINE t == x.kbd.focus
            up == Up(x, k)
            p == [up.told EXCEPT ![t] = @ \ {k}]
            f == up.stray \/ k \notin x.told[t]
            reported == [up EXCEPT !.told = p, !.stray = f]
            y == IF Keyb!Reports(x, k) THEN reported ELSE up
<1>1. /\ up \in Seats /\ up.kbd.focus = x.kbd.focus /\ up.kbd.compose = x.kbd.compose
      /\ up.kbd.shortcut = x.kbd.shortcut /\ up.win = x.win /\ up.told = x.told
      /\ DOMAIN up.down = DOMAIN x.down \ {k}
      /\ \A j \in DOMAIN up.down : up.down[j] = x.down[j]
      /\ up.kbd.repeat # "none" => up.kbd.repeat \in DOMAIN up.down
  BY UpIs
<1>2. /\ x \in Seats /\ DOMAIN x.down \subseteq Keys /\ t \in Tabs /\ t = x.win.term
      /\ up.told \in [Tabs -> SUBSET Keys] /\ up.stray = FALSE
      /\ \A j \in DOMAIN x.down : x.down[j] \in Strokes
  BY <1>1, SeatIs DEF KInv
<1>3. Keyb!Released(x, k) =
        IF y.kbd.compose = "composed" /\ x.kbd.shortcut # k THEN [y EXCEPT !.kbd.compose = "nothing"] ELSE y
  BY DEF Keyb!Released, Up
<1>4. Taken(x, k)
  BY DEF KInv
<1>. HIDE DEF up
<1>5. CASE Keyb!Reports(x, k)
  <2>1. x.win.reports[t] /\ x.kbd.shortcut # k /\ ~Composing(x)
    BY <1>5 DEF Keyb!Reports, Composing
  <2>2. x.down[k] = "application" /\ k \in x.told[t]
    BY <1>2, <1>4, <1>5, <2>1 DEF Taken, Strokes
  <2>3. f = FALSE
    BY <1>2, <2>2
  <2>4. p \in [Tabs -> SUBSET Keys] /\ p[t] = x.told[t] \ {k} /\ \A u \in Tabs : u # t => p[u] = x.told[u]
    BY <1>1, <1>2
  <2>. HIDE DEF p, f
  <2>5. /\ reported \in Seats /\ reported.kbd = up.kbd /\ reported.win = up.win /\ reported.told = p
        /\ reported.down = up.down
    BY <1>1, <2>3, <2>4 DEF Seats
  <2>. HIDE DEF reported
  <2>6. \A j \in DOMAIN reported.down : Taken(reported, j)
    BY <1>1, <2>4, <2>5 DEF KInv, Taken, Composing
  <2>7. Telling(reported)
    <3>1. ASSUME NEW u \in Tabs, p[u] # {}
          PROVE  /\ u = t /\ x.win.reports[u] /\ ~Composing(x)
                 /\ \A j \in p[u] : j \in DOMAIN x.down \ {k} /\ x.down[j] = "application" /\ x.kbd.shortcut # j
      BY <2>4, <3>1 DEF KInv, Telling
    <3>. QED
      BY <1>1, <2>5, <3>1 DEF Telling, Composing
  <2>8. KInv(reported)
    BY <1>1, <1>2, <2>5, <2>6, <2>7 DEF KInv
  <2>9. y = reported
    BY <1>5
  <2>. HIDE DEF y
  <2>. QED
    BY <1>3, <2>8, <2>9, ResetOk
<1>6. CASE ~Keyb!Reports(x, k)
  <2>1. \A j \in DOMAIN up.down : Taken(up, j)
    BY <1>1 DEF KInv, Taken, Composing
  <2>2. \A u \in Tabs : k \notin x.told[u]
    <3>. SUFFICES ASSUME NEW u \in Tabs, k \in x.told[u] PROVE FALSE
      OBVIOUS
    <3>. QED
      BY <1>6 DEF KInv, Telling, Composing, Keyb!Reports
  <2>3. Telling(up)
    BY <1>1, <2>2 DEF KInv, Telling, Composing
  <2>4. KInv(up)
    BY <1>1, <1>2, <2>1, <2>3 DEF KInv
  <2>5. y = up
    BY <1>6
  <2>. HIDE DEF y
  <2>. QED
    BY <1>3, <2>4, <2>5, ResetOk
<1>. QED
  BY <1>5, <1>6

Seat == [kbd |-> keyboard, win |-> shown, down |-> down, told |-> told, stray |-> stray]

LEMMA SeatBecomes ==
    ASSUME NEW x, KInv(x), keyboard' = x.kbd, shown' = x.win, down' = x.down, told' = x.told, stray' = x.stray
    PROVE  KInv(Seat)'
<1>1. x = [kbd |-> x.kbd, win |-> x.win, down |-> x.down, told |-> x.told, stray |-> x.stray]
  BY DEF KInv, Seats
<1>2. Seat' = x
  BY <1>1 DEF Seat
<1>. QED
  BY <1>2

LEMMA KeysInit == Keyb!Init => KInv(Seat)
<1>. SUFFICES ASSUME Keyb!Init PROVE KInv(Seat)
  OBVIOUS
<1>1. PICK tab \in Tabs, reports \in [Tabs -> BOOLEAN] :
         /\ keyboard = [focus |-> "none", repeat |-> "none", compose |-> "nothing", shortcut |-> "none",
                        plugged |-> TRUE]
         /\ shown = [term |-> tab, menu |-> FALSE, reports |-> reports, mode |-> [t \in Tabs |-> "normal"]]
         /\ down = <<>> /\ told = [t \in Tabs |-> {}] /\ stray = FALSE
  BY DEF Keyb!Init, Keyb!None
<1>2. DOMAIN down = {} /\ down \in [{} -> Strokes]
  BY <1>1
<1>3. down \in UNION {[D -> Strokes] : D \in SUBSET Keys}
  BY <1>2
<1>4. Seat \in Seats
  BY <1>1, <1>3 DEF Seat, Seats, Keyb!Modes
<1>5. Seat.kbd.focus = "none" /\ Seat.kbd.repeat = "none" /\ DOMAIN Seat.down = {} /\ \A t \in Tabs : Seat.told[t] = {}
  BY <1>1, <1>2 DEF Seat
<1>. QED
  BY <1>4, <1>5 DEF KInv, Telling

LEMMA SwitchStep ==
    ASSUME KInv(Seat), Admitted = {}, NEW t \in Tabs, Keyb!TabSwitch(t)
    PROVE  KInv(Seat)'
<1>1. NothingTold(Seat)
  BY DEF Keyb!TabSwitch, Keyb!MaySwitch, Keyb!HeldKeys, NothingTold, Seat
<1>2. KInv(Keyb!SwitchTo(Seat, t))
  BY <1>1, SwitchOk
<1>. QED
  BY <1>2, SeatBecomes DEF Keyb!TabSwitch, Keyb!Becomes, Keyb!Here, Seat

LEMMA PressStep ==
    ASSUME KInv(Seat), Admitted = {}, NEW k \in Keys, NEW shortcut \in Cuts, NEW leaves \in BOOLEAN,
           Keyb!KeyboardKeyPress(k, shortcut, leaves)
    PROVE  KInv(Seat)'
<1>1. /\ Seat.kbd.focus # "none" /\ k \notin DOMAIN Seat.down /\ Allowed(Seat, k)
      /\ shortcut = "switch" => NothingTold(Seat)
  BY DEF Keyb!KeyboardKeyPress, Keyb!MayPress, Keyb!MaySwitch, Keyb!HeldKeys, Keyb!None, NothingTold, Allowed, Seat
<1>2. KInv(Keyb!Pressed(Seat, k, shortcut, leaves, FALSE))
  BY <1>1, PressedOk
<1>. QED
  BY <1>2, SeatBecomes DEF Keyb!KeyboardKeyPress, Keyb!Becomes, Keyb!Here, Seat

LEMMA RepeatStep ==
    ASSUME KInv(Seat), Admitted = {}, NEW shortcut \in Cuts, NEW leaves \in BOOLEAN,
           Keyb!FdmRepeat(shortcut, leaves)
    PROVE  KInv(Seat)'
<1>. DEFINE k == keyboard.repeat
<1>1. /\ Seat.kbd.focus # "none" /\ k # "none" /\ Allowed(Seat, k)
      /\ shortcut = "switch" => NothingTold(Seat)
      /\ shortcut # "none" <=> Seat.down[k] = "shortcut"
  BY DEF Keyb!FdmRepeat, Keyb!MayPress, Keyb!MaySwitch, Keyb!HeldKeys, Keyb!None, NothingTold, Allowed, Seat
<1>2. k \in DOMAIN Seat.down
  BY <1>1 DEF KInv, Seat
<1>3. k \in Keys
  BY <1>2, SeatIs DEF KInv
<1>4. KInv(Keyb!Pressed(Seat, k, shortcut, leaves, TRUE))
  BY <1>1, <1>2, <1>3, PressedOk
<1>. QED
  BY <1>4, SeatBecomes DEF Keyb!FdmRepeat, Keyb!Becomes, Keyb!Here, Seat

LEMMA ReleaseStep ==
    ASSUME KInv(Seat), Admitted = {}, NEW k \in Keys, Keyb!KeyboardKeyRelease(k)
    PROVE  KInv(Seat)'
<1>1. /\ Seat.kbd.focus # "none" /\ k \in DOMAIN Seat.down
      /\ Seat.down[k] # "mode" \/ ~Keyb!Reports(Seat, k)
  BY DEF Keyb!KeyboardKeyRelease, Keyb!HeldKeys, Keyb!None, Keyb!Here, Seat
<1>2. KInv(Keyb!Released(Seat, k))
  BY <1>1, ReleasedOk
<1>. QED
  BY <1>2, SeatBecomes DEF Keyb!KeyboardKeyRelease, Keyb!Becomes, Keyb!Here, Seat

LEMMA NoKeyIsDown == ASSUME NEW d, DOMAIN d = {}, d = [j \in {} |-> d[j]]
                     PROVE  d \in UNION {[D -> Strokes] : D \in SUBSET Keys}
<1>1. d \in [{} -> Strokes]
  OBVIOUS
<1>. QED
  BY <1>1

LEMMA KeyboardEnterStep ==
    ASSUME KInv(Seat), Admitted = {}, NEW keys \in SUBSET Keys, Keyb!KeyboardEnter(keys)
    PROVE  KInv(Seat)'
<1>. DEFINE d == [k \in keys |-> "elsewhere"]
            y == [Seat EXCEPT !.kbd.focus = shown.term, !.down = d]
<1>1. keys = {} /\ keyboard.focus = "none" /\ Seat \in Seats
  BY DEF Keyb!KeyboardEnter, Keyb!None, KInv
<1>2. d \in UNION {[D -> Strokes] : D \in SUBSET Keys} /\ DOMAIN d = {}
  <2>1. DOMAIN d = {} /\ d = [j \in {} |-> d[j]]
    BY <1>1
  <2>. QED
    BY <2>1, NoKeyIsDown
<1>3. y = [Keyb!Here EXCEPT !.kbd.focus = shown.term, !.down = d]
  BY DEF Seat, Keyb!Here
<1>. HIDE DEF d
<1>4. shown = Seat.win /\ DOMAIN Seat.down = {} /\ Seat.kbd.focus = "none"
  BY <1>1 DEF Seat, KInv
<1>5. /\ y \in Seats /\ y.kbd.focus = Seat.win.term /\ y.kbd.repeat = Seat.kbd.repeat /\ y.win = Seat.win
      /\ y.down = d /\ y.told = Seat.told
  BY <1>1, <1>2, <1>4 DEF Seats
<1>6. \A t \in Tabs : Seat.told[t] = {}
  BY <1>4, InputAssumption DEF KInv, Telling
<1>7. Seat.kbd.repeat = "none"
  BY <1>4 DEF KInv
<1>. HIDE DEF y
<1>8. KInv(y)
  BY <1>2, <1>5, <1>6, <1>7, InputAssumption DEF KInv, Telling, Seats
<1>9. Keyb!Becomes(y)
  BY <1>3 DEF Keyb!KeyboardEnter, d
<1>. QED
  BY <1>8, <1>9, SeatBecomes DEF Keyb!Becomes

LEMMA KeyboardLeaveStep ==
    ASSUME KInv(Seat), Keyb!KeyboardLeave
    PROVE  KInv(Seat)'
<1>. DEFINE t == keyboard.focus
            p == [told EXCEPT ![t] = {}]
            y == [Seat EXCEPT !.kbd.focus = "none", !.kbd.repeat = "none", !.kbd.compose = "nothing",
                              !.down = <<>>, !.told = p]
<1>1. Seat \in Seats /\ keyboard.focus # "none" /\ keyboard.focus \in Tabs /\ told \in [Tabs -> SUBSET Keys]
  BY SeatIs DEF KInv, Keyb!KeyboardLeave, Keyb!None, Seat
<1>2. <<>> \in UNION {[D -> Strokes] : D \in SUBSET Keys} /\ DOMAIN <<>> = {}
  <2>1. DOMAIN <<>> = {} /\ <<>> \in [{} -> Strokes]
    OBVIOUS
  <2>. QED
    BY <2>1
<1>3. \A u \in Tabs : p[u] = {}
  <2>1. \A u \in Tabs : u # t => told[u] = {}
    BY DEF KInv, Telling, Seat
  <2>. QED
    BY <1>1, <2>1
<1>4. p \in [Tabs -> SUBSET Keys]
  BY <1>1
<1>5. Keyb!Becomes(y)
  BY DEF Keyb!KeyboardLeave, Keyb!Here, Keyb!None, Seat
<1>. HIDE DEF p
<1>6. y \in Seats /\ y.kbd.focus = "none" /\ y.kbd.repeat = "none" /\ y.down = <<>> /\ y.told = p
  BY <1>1, <1>2, <1>4 DEF Seats
<1>. HIDE DEF y
<1>7. KInv(y)
  BY <1>2, <1>3, <1>6 DEF KInv, Telling
<1>. QED
  BY <1>5, <1>7, SeatBecomes DEF Keyb!Becomes

LEMMA PluggedStep ==
    ASSUME KInv(Seat), Admitted = {}, Keyb!SeatHandleCapabilities \/ Keyb!SeatPlugged
    PROVE  KInv(Seat)'
<1>1. Seat \in Seats
  BY DEF KInv
<1>2. CASE Keyb!SeatHandleCapabilities
  <2>. DEFINE y == [Seat EXCEPT !.kbd.plugged = FALSE, !.down = <<>>]
  <2>1. <<>> \in UNION {[D -> Strokes] : D \in SUBSET Keys} /\ DOMAIN <<>> = {}
    <3>1. DOMAIN <<>> = {} /\ <<>> \in [{} -> Strokes]
      OBVIOUS
    <3>. QED
      BY <3>1
  <2>2. Seat.kbd.focus = "none" /\ DOMAIN Seat.down = {} /\ Seat.kbd.repeat = "none"
    BY <1>2 DEF KInv, Keyb!SeatHandleCapabilities, Keyb!None, Seat
  <2>3. /\ y \in Seats /\ y.kbd.focus = "none" /\ y.kbd.repeat = Seat.kbd.repeat
        /\ y.down = <<>> /\ y.told = Seat.told
    BY <1>1, <2>1, <2>2 DEF Seats
  <2>4. \A t \in Tabs : Seat.told[t] = {}
    BY <2>2, InputAssumption DEF KInv, Telling
  <2>5. Keyb!Becomes(y)
    BY <1>2 DEF Keyb!SeatHandleCapabilities, Keyb!Here, Seat
  <2>. HIDE DEF y
  <2>6. KInv(y)
    BY <2>1, <2>2, <2>3, <2>4 DEF KInv, Telling
  <2>. QED
    BY <2>5, <2>6, SeatBecomes DEF Keyb!Becomes
<1>3. CASE Keyb!SeatPlugged
  <2>. DEFINE y == [Seat EXCEPT !.kbd.plugged = TRUE]
  <2>1. /\ y \in Seats /\ y.kbd.focus = Seat.kbd.focus /\ y.kbd.repeat = Seat.kbd.repeat
        /\ y.kbd.compose = Seat.kbd.compose /\ y.kbd.shortcut = Seat.kbd.shortcut
        /\ y.down = Seat.down /\ y.told = Seat.told /\ y.win = Seat.win
    BY <1>1 DEF Seats
  <2>2. Keyb!Becomes(y)
    BY <1>3 DEF Keyb!SeatPlugged, Keyb!Here, Seat
  <2>. HIDE DEF y
  <2>3. KInv(y)
    BY <2>1 DEF KInv, Taken, Telling, Composing
  <2>. QED
    BY <2>2, <2>3, SeatBecomes DEF Keyb!Becomes
<1>. QED
  BY <1>2, <1>3

LEMMA OverlayStep ==
    ASSUME KInv(Seat), NEW t \in Tabs, Keyb!TabCtxMenuShow \/ Keyb!SearchCancel(t)
    PROVE  KInv(Seat)'
<1>1. Seat \in Seats /\ shown = Seat.win /\ shown \in Wins
  BY SeatIs DEF KInv, Seat, Wins
<1>2. CASE Keyb!TabCtxMenuShow
  <2>. DEFINE w == [shown EXCEPT !.menu = TRUE]
  <2>1. w \in Wins /\ w.term = shown.term /\ w.reports = shown.reports
    BY <1>1 DEF Wins
  <2>2. Keyb!Becomes([Seat EXCEPT !.win = w])
    BY <1>2, <1>1 DEF Keyb!TabCtxMenuShow, Keyb!Here, Seat
  <2>. HIDE DEF w
  <2>3. KInv([Seat EXCEPT !.win = w])
    BY <1>1, <2>1, WindowChanges
  <2>. QED
    BY <2>2, <2>3, SeatBecomes DEF Keyb!Becomes
<1>3. CASE Keyb!SearchCancel(t)
  <2>. DEFINE w == [shown EXCEPT !.mode[t] = "normal"]
  <2>1. w \in Wins /\ w.term = shown.term /\ w.reports = shown.reports
    BY <1>1 DEF Wins, Keyb!Modes
  <2>2. Keyb!Becomes([Seat EXCEPT !.win = w])
    BY <1>3, <1>1 DEF Keyb!SearchCancel, Keyb!Here, Seat
  <2>. HIDE DEF w
  <2>3. KInv([Seat EXCEPT !.win = w])
    BY <1>1, <2>1, WindowChanges
  <2>. QED
    BY <2>2, <2>3, SeatBecomes DEF Keyb!Becomes
<1>. QED
  BY <1>2, <1>3

LEMMA KeysStep ==
    ASSUME KInv(Seat), Admitted = {}, Keyb!Next
    PROVE  KInv(Seat)'
<1>1. CASE \E k \in Keys, shortcut \in Cuts, leaves \in BOOLEAN : Keyb!KeyboardKeyPress(k, shortcut, leaves)
  BY <1>1, PressStep
<1>2. CASE \E k \in Keys : Keyb!KeyboardKeyRelease(k)
  BY <1>2, ReleaseStep
<1>3. CASE \E shortcut \in Cuts, leaves \in BOOLEAN : Keyb!FdmRepeat(shortcut, leaves)
  BY <1>3, RepeatStep
<1>4. CASE \E keys \in SUBSET Keys : Keyb!KeyboardEnter(keys)
  BY <1>4, KeyboardEnterStep
<1>5. CASE Keyb!KeyboardLeave
  BY <1>5, KeyboardLeaveStep
<1>6. CASE Keyb!SeatHandleCapabilities \/ Keyb!SeatPlugged
  BY <1>6, PluggedStep
<1>7. CASE Keyb!TabCtxMenuShow
  <2>1. shown.term \in Tabs
    BY SeatIs DEF KInv, Seat
  <2>. QED
    BY <1>7, <2>1, OverlayStep
<1>8. CASE \E t \in Tabs : Keyb!TabSwitch(t)
  BY <1>8, SwitchStep
<1>9. CASE \E t \in Tabs : Keyb!SearchCancel(t)
  BY <1>9, OverlayStep
<1>. QED
  BY <1>1, <1>2, <1>3, <1>4, <1>5, <1>6, <1>7, <1>8, <1>9 DEF Keyb!Next, Cuts

LEMMA KeysUnchanged == ASSUME KInv(Seat), UNCHANGED keyVars PROVE KInv(Seat)'
<1>1. Seat \in Seats
  BY DEF KInv
<1>2. Seat' = Seat
  BY DEF keyVars, Seat
<1>. QED
  BY <1>2

LEMMA KeysAreLetGo == ASSUME KInv(Seat) PROVE Keyb!KeysAreLetGo
<1>1. /\ keyboard = Seat.kbd /\ told = Seat.told /\ down = Seat.down /\ stray = Seat.stray
      /\ Seat \in Seats /\ stray = FALSE /\ DOMAIN down \subseteq Keys
  BY SeatIs DEF KInv, Seat
<1>2. keyboard.repeat # "none" => keyboard.repeat \in DOMAIN down /\ keyboard.focus # "none"
  BY <1>1 DEF KInv
<1>3. \A t \in Tabs : told[t] \subseteq DOMAIN down /\ (told[t] # {} => keyboard.focus = t)
  BY <1>1 DEF KInv, Telling
<1>. QED
  BY <1>1, <1>2, <1>3 DEF Keyb!KeysAreLetGo, Keyb!HeldKeys, Keyb!None

(***************************************************************************)
(* The pointer, and fingers                                                *)
(***************************************************************************)

SurfacesOrNone == Mouse!Surfaces \cup {"none"}
AnyButtons == Buttons \cup {"left"}
Trackers == [button : AnyButtons, surface : SurfacesOrNone, send : BOOLEAN]

Pointers ==
    [term : Tabs, focus : Tabs \cup {"none"}, surface : [Tabs -> SurfacesOrNone],
     buttons : Seq(Trackers), touch : {"idle", "inhibited", "held", "dragging", "scrolling"},
     touched : SurfacesOrNone, hasTouch : BOOLEAN, hasPointer : BOOLEAN, menu : BOOLEAN,
     move : {"off", "armed"}, ongoing : [Tabs -> BOOLEAN], scroll : [Tabs -> BOOLEAN],
     tracking : [Tabs -> BOOLEAN], override : BOOLEAN, told : [Tabs -> SUBSET AnyButtons]]

Entries(q) == {q[k] : k \in 1 .. Len(q)}
Distinct(q) == \A i, j \in 1 .. Len(q) : q[i].button = q[j].button => i = j

LEMMA NoEntries == ASSUME NEW q \in Seq(Trackers) PROVE q = <<>> <=> Entries(q) = {}
<1>1. q # <<>> => q[1] \in Entries(q)
  <2>. SUFFICES ASSUME q # <<>> PROVE q[1] \in Entries(q)
    OBVIOUS
  <2>1. Len(q) \in Nat /\ Len(q) # 0
    BY EmptySeq, LenProperties
  <2>2. 1 \in 1 .. Len(q)
    BY <2>1
  <2>. QED
    BY <2>2 DEF Entries
<1>2. q = <<>> => Len(q) = 0
  OBVIOUS
<1>3. Len(q) = 0 => Entries(q) = {}
  BY DEF Entries
<1>. QED
  BY <1>1, <1>2, <1>3

\* A button is added that is not tracked.
LEMMA MoreEntries ==
    ASSUME NEW q \in Seq(Trackers), Distinct(q), NEW b \in Trackers, \A e \in Entries(q) : e.button # b.button
    PROVE  /\ Append(q, b) \in Seq(Trackers) /\ Distinct(Append(q, b))
           /\ Entries(Append(q, b)) = Entries(q) \cup {b}
<1>. DEFINE r == Append(q, b)
<1>1. /\ r \in Seq(Trackers) /\ Len(q) \in Nat /\ Len(r) = Len(q) + 1
      /\ r[Len(q) + 1] = b /\ \A i \in 1 .. Len(q) : r[i] = q[i]
  BY AppendProperties, LenProperties
<1>. HIDE DEF r
<1>2. 1 .. Len(r) = 1 .. Len(q) \cup {Len(q) + 1}
  BY <1>1
<1>3. Entries(r) = Entries(q) \cup {b}
  BY <1>1, <1>2 DEF Entries
<1>4. \A i \in 1 .. Len(q) : r[i].button # b.button
  BY <1>1 DEF Entries
<1>5. Distinct(r)
  BY <1>1, <1>2, <1>4 DEF Distinct
<1>. QED
  BY <1>1, <1>3, <1>5 DEF r

LEMMA JoinIs ==
    \A q, r \in Seq(Trackers) :
       /\ q \o r \in Seq(Trackers) /\ Len(q \o r) = Len(q) + Len(r)
       /\ \A i \in 1 .. Len(q) : (q \o r)[i] = q[i]
       /\ \A i \in 1 .. Len(r) : (q \o r)[Len(q) + i] = r[i]
BY ConcatProperties

\* An entry is removed.
LEMMA FewerEntries ==
    ASSUME NEW q \in Seq(Trackers), Distinct(q), NEW k \in 1 .. Len(q)
    PROVE  LET r == Mouse!RemoveAt(q, k)
           IN /\ r \in Seq(Trackers) /\ Distinct(r)
              /\ Entries(r) = {e \in Entries(q) : e.button # q[k].button}
<1>. DEFINE m == Len(q)
            a == SubSeq(q, 1, k - 1)
            c == SubSeq(q, k + 1, m)
            r == a \o c
            old(i) == IF i < k THEN i ELSE i + 1
<1>1. m \in Nat /\ k \in Nat /\ 1 <= k /\ k <= m
  BY LenProperties
<1>2. a \in Seq(Trackers) /\ Len(a) = k - 1 /\ \A i \in 1 .. k - 1 : a[i] = q[i]
  <2>1. \A i \in 1 .. k - 1 : i \in 1 .. m
    BY <1>1
  <2>. QED
    BY <1>1, <2>1, SubSeqProperties
<1>3. c \in Seq(Trackers) /\ Len(c) = m - k /\ \A i \in 1 .. m - k : c[i] = q[i + k]
  <2>1. /\ k + 1 \in 1 .. m + 1 /\ m \in k .. m
    BY <1>1
  <2>2. /\ c \in Seq(Trackers)
        /\ Len(c) = IF k + 1 <= m THEN m - (k + 1) + 1 ELSE 0
        /\ \A i \in 1 .. m - (k + 1) + 1 : c[i] = q[(k + 1) + i - 1]
    BY <1>1, <2>1, SubSeqProperties
  <2>. QED
    BY <1>1, <2>2
<1>. HIDE DEF a, c
<1>4. /\ r \in Seq(Trackers) /\ Len(r) = m - 1
      /\ \A i \in 1 .. k - 1 : r[i] = q[i]
      /\ \A i \in 1 .. m - k : r[(k - 1) + i] = q[i + k]
  <2>1. /\ a \o c \in Seq(Trackers) /\ Len(a \o c) = Len(a) + Len(c)
        /\ \A i \in 1 .. Len(a) : (a \o c)[i] = a[i]
        /\ \A i \in 1 .. Len(c) : (a \o c)[Len(a) + i] = c[i]
    <3>1. a \in Seq(Trackers) /\ c \in Seq(Trackers)
      BY <1>2, <1>3
    <3>. HIDE DEF r
    <3>. QED
      BY <3>1, JoinIs, Zenon
  <2>. HIDE DEF r
  <2>2. r = a \o c
    BY DEF r
  <2>3. /\ r \in Seq(Trackers) /\ Len(r) = Len(a) + Len(c)
        /\ \A i \in 1 .. Len(a) : r[i] = a[i]
        /\ \A i \in 1 .. Len(c) : r[Len(a) + i] = c[i]
    BY <2>1, <2>2, Zenon
  <2>. QED
    BY <1>1, <1>2, <1>3, <2>3
<1>. HIDE DEF r
<1>5. \A i \in 1 .. Len(r) : r[i] = q[old(i)] /\ old(i) \in 1 .. m /\ old(i) # k
  <2>. SUFFICES ASSUME NEW i \in 1 .. m - 1 PROVE r[i] = q[old(i)] /\ old(i) \in 1 .. m /\ old(i) # k
    BY <1>4
  <2>1. CASE i < k
    <3>1. i \in 1 .. k - 1
      BY <1>1, <2>1
    <3>. QED
      BY <1>1, <1>4, <2>1, <3>1
  <2>2. CASE ~(i < k)
    <3>1. i - k + 1 \in 1 .. m - k /\ (k - 1) + (i - k + 1) = i /\ (i - k + 1) + k = i + 1
      BY <1>1, <2>2
    <3>2. r[(k - 1) + (i - k + 1)] = q[(i - k + 1) + k]
      BY <1>4, <3>1
    <3>. QED
      BY <1>1, <2>2, <3>1, <3>2
  <2>. QED
    BY <2>1, <2>2
<1>6. \A j \in 1 .. m : j # k => \E i \in 1 .. Len(r) : old(i) = j
  <2>. SUFFICES ASSUME NEW j \in 1 .. m, j # k PROVE \E i \in 1 .. m - 1 : old(i) = j
    BY <1>4
  <2>1. CASE j < k
    <3>1. j \in 1 .. m - 1 /\ old(j) = j
      BY <1>1, <2>1
    <3>. QED
      BY <3>1
  <2>2. CASE ~(j < k)
    <3>1. j - 1 \in 1 .. m - 1 /\ old(j - 1) = j
      BY <1>1, <2>2
    <3>. QED
      BY <3>1
  <2>. QED
    BY <2>1, <2>2
<1>7. \A i, j \in 1 .. Len(r) : old(i) = old(j) => i = j
  BY <1>1, <1>4
<1>. HIDE DEF old
<1>8. Distinct(r)
  BY <1>5, <1>7 DEF Distinct
<1>9. Entries(r) \subseteq {e \in Entries(q) : e.button # q[k].button}
  BY <1>5 DEF Entries, Distinct
<1>10. {e \in Entries(q) : e.button # q[k].button} \subseteq Entries(r)
  <2>. SUFFICES ASSUME NEW j \in 1 .. m, q[j].button # q[k].button PROVE q[j] \in Entries(r)
    BY DEF Entries
  <2>1. PICK i \in 1 .. Len(r) : old(i) = j
    BY <1>6
  <2>. QED
    BY <1>5, <2>1 DEF Entries
<1>11. r = Mouse!RemoveAt(q, k)
  BY DEF r, a, c, Mouse!RemoveAt
<1>. QED
  BY <1>4, <1>8, <1>9, <1>10, <1>11

\* The last entry gets the press, or does not.
LEMMA LastSent ==
    ASSUME NEW q \in Seq(Trackers), Distinct(q), q # <<>>, NEW f \in BOOLEAN
    PROVE  LET r == [q EXCEPT ![Len(q)].send = f]
               b == q[Len(q)]
           IN /\ r \in Seq(Trackers) /\ Distinct(r) /\ r # <<>> /\ b \in Entries(q)
              /\ Entries(r) = {e \in Entries(q) : e.button # b.button} \cup {[b EXCEPT !.send = f]}
<1>. DEFINE m == Len(q)
            b == q[m]
            c == [b EXCEPT !.send = f]
            r == [q EXCEPT ![m] = c]
<1>1. m \in Nat \ {0} /\ m \in 1 .. m /\ \A i \in 1 .. m : q[i] \in Trackers
  BY EmptySeq, LenProperties, ElementOfSeq
<1>2. c \in Trackers /\ c.button = b.button
  BY <1>1 DEF Trackers
<1>3. r = [q EXCEPT ![Len(q)].send = f]
  OBVIOUS
<1>. HIDE DEF c
<1>4. r \in Seq(Trackers) /\ Len(r) = m /\ \A i \in 1 .. m : r[i] = IF i = m THEN c ELSE q[i]
  BY <1>1, <1>2, ExceptSeq
<1>. HIDE DEF r
<1>5. r # <<>> /\ b \in Entries(q)
  BY <1>1, <1>4 DEF Entries
<1>6. Distinct(r)
  BY <1>1, <1>2, <1>4 DEF Distinct
<1>7. \A e \in Entries(r) : e \in {d \in Entries(q) : d.button # b.button} \cup {c}
  BY <1>1, <1>4 DEF Entries, Distinct
<1>8. \A e \in {d \in Entries(q) : d.button # b.button} \cup {c} : e \in Entries(r)
  <2>1. c \in Entries(r)
    BY <1>1, <1>4 DEF Entries
  <2>2. ASSUME NEW i \in 1 .. m, q[i].button # b.button PROVE q[i] \in Entries(r)
    <3>1. i # m /\ r[i] = q[i]
      BY <1>4, <2>2
    <3>. QED
      BY <1>4, <3>1 DEF Entries
  <2>. QED
    BY <2>1, <2>2 DEF Entries
<1>9. Entries(r) = {e \in Entries(q) : e.button # b.button} \cup {c}
  BY <1>7, <1>8
<1>. QED
  BY <1>3, <1>4, <1>5, <1>6, <1>9 DEF c

LEMMA UntrackedIs ==
    ASSUME NEW v, v.buttons \in Seq(Trackers), Distinct(v.buttons), NEW button
    PROVE  LET r == Mouse!Untracked(v, button)
           IN /\ r \in Seq(Trackers) /\ Distinct(r)
              /\ Entries(r) = {e \in Entries(v.buttons) : e.button # button}
<1>. DEFINE q == v.buttons
<1>1. DOMAIN q = 1 .. Len(q)
  BY LenProperties
<1>2. Mouse!Tracked(v) = {e.button : e \in Entries(q)}
  BY <1>1 DEF Mouse!Tracked, Entries
<1>3. CASE button \in Mouse!Tracked(v)
  <2>. DEFINE k == Mouse!Place(v, button)
  <2>1. k \in 1 .. Len(q) /\ q[k].button = button
    <3>1. \E i \in 1 .. Len(q) : q[i].button = button
      BY <1>2, <1>3 DEF Entries
    <3>. QED
      BY <1>1, <3>1 DEF Mouse!Place
  <2>2. Mouse!Untracked(v, button) = Mouse!RemoveAt(q, k)
    BY <1>3 DEF Mouse!Untracked
  <2>. HIDE DEF k
  <2>. QED
    BY <2>1, <2>2, FewerEntries
<1>4. CASE button \notin Mouse!Tracked(v)
  <2>1. Mouse!Untracked(v, button) = q
    BY <1>4 DEF Mouse!Untracked
  <2>2. \A e \in Entries(q) : e.button # button
    BY <1>2, <1>4
  <2>. QED
    BY <2>1, <2>2
<1>. QED
  BY <1>3, <1>4

\* The drag that a record v of the seat tells of, whose pointer or finger is over the tab
\* v.focus: all its buttons were pressed on one surface, and only those pressed on the
\* grid keep a selection or a press that was reported.
DInv(v) ==
    /\ v \in Pointers /\ Distinct(v.buttons)
    /\ \A b \in Entries(v.buttons) : b.surface = v.surface[v.focus] /\ (b.send => b.surface = "grid")
    /\ \A t \in Tabs :
          /\ v.ongoing[t] => t = v.focus /\ \E b \in Entries(v.buttons) : b.surface = "grid"
          /\ v.scroll[t] => v.ongoing[t]
          /\ \A k \in v.told[t] : \E b \in Entries(v.buttons) : b.button = k /\ b.send
          /\ v.told[t] # {} => t = v.focus /\ ~Mouse!Grabbed(v, t)

\* What presses and motion leave alone.
Kept(x, y) ==
    /\ y.term = x.term /\ y.focus = x.focus /\ y.surface = x.surface /\ y.touched = x.touched
    /\ y.hasTouch = x.hasTouch /\ y.hasPointer = x.hasPointer
    /\ y.tracking = x.tracking /\ y.override = x.override

TrackedBy(v, button) ==
    [v EXCEPT !.touch = IF v.hasTouch /\ @ = "idle" THEN "inhibited" ELSE @,
              !.buttons = Append(Mouse!Untracked(v, button),
                                 [button |-> button, surface |-> v.surface[v.focus], send |-> FALSE])]

LEMMA TrackedIs ==
    ASSUME NEW v, DInv(v), v.focus \in Tabs, NEW button \in AnyButtons,
           \A b \in Entries(v.buttons) : b.button = button => b.surface # "grid"
    PROVE  LET y == TrackedBy(v, button)
               new == [button |-> button, surface |-> v.surface[v.focus], send |-> FALSE]
           IN /\ DInv(y) /\ Kept(v, y)
              /\ Entries(y.buttons) = {e \in Entries(v.buttons) : e.button # button} \cup {new}
              /\ y.buttons # <<>> /\ y.buttons[Len(y.buttons)] = new
              /\ y.touch = (IF v.hasTouch /\ v.touch = "idle" THEN "inhibited" ELSE v.touch)
              /\ y.menu = v.menu /\ y.move = v.move
<1>. DEFINE new == [button |-> button, surface |-> v.surface[v.focus], send |-> FALSE]
            q == Mouse!Untracked(v, button)
            r == Append(q, new)
            touch == IF v.hasTouch /\ v.touch = "idle" THEN "inhibited" ELSE v.touch
            y == [v EXCEPT !.touch = touch, !.buttons = r]
<1>1. v \in Pointers /\ v.buttons \in Seq(Trackers) /\ Distinct(v.buttons) /\ v.surface[v.focus] \in SurfacesOrNone
  BY DEF DInv, Pointers
<1>2. q \in Seq(Trackers) /\ Distinct(q) /\ Entries(q) = {e \in Entries(v.buttons) : e.button # button}
  BY <1>1, UntrackedIs
<1>3. new \in Trackers /\ new.button = button /\ new.surface = v.surface[v.focus] /\ new.send = FALSE
  BY <1>1 DEF Trackers
<1>4. y = TrackedBy(v, button)
  BY DEF TrackedBy
<1>. HIDE DEF q, new
<1>5. r \in Seq(Trackers) /\ Distinct(r) /\ Entries(r) = Entries(q) \cup {new}
  BY <1>2, <1>3, MoreEntries
<1>6. r # <<>> /\ r[Len(r)] = new
  BY <1>2, <1>3, AppendProperties
<1>7. touch \in {"idle", "inhibited", "held", "dragging", "scrolling"}
  BY <1>1 DEF Pointers
<1>. HIDE DEF r, touch
<1>8. /\ y \in Pointers /\ y.buttons = r /\ y.touch = touch /\ Kept(v, y) /\ y.menu = v.menu /\ y.move = v.move
      /\ y.ongoing = v.ongoing /\ y.scroll = v.scroll /\ y.told = v.told
  BY <1>1, <1>5, <1>7 DEF Pointers, Kept
<1>. HIDE DEF y
<1>9. \A b \in Entries(v.buttons) : b.send => b.button # button
  BY DEF DInv
<1>10. \A t \in Tabs : Mouse!Grabbed(y, t) = Mouse!Grabbed(v, t)
  BY <1>8 DEF Mouse!Grabbed, Kept
<1>11. \A b \in Entries(y.buttons) : b.surface = y.surface[y.focus] /\ (b.send => b.surface = "grid")
  BY <1>2, <1>3, <1>5, <1>8 DEF DInv, Kept
<1>12. ASSUME NEW t \in Tabs
       PROVE  /\ y.ongoing[t] => t = y.focus /\ \E b \in Entries(y.buttons) : b.surface = "grid"
              /\ y.scroll[t] => y.ongoing[t]
              /\ \A k \in y.told[t] : \E b \in Entries(y.buttons) : b.button = k /\ b.send
              /\ y.told[t] # {} => t = y.focus /\ ~Mouse!Grabbed(y, t)
  <2>1. v.ongoing[t] => t = v.focus /\ new.surface = "grid"
    BY <1>3 DEF DInv
  <2>2. \A k \in v.told[t] : \E b \in Entries(v.buttons) : b.button = k /\ b.send /\ b.button # button
    BY <1>9 DEF DInv
  <2>. QED
    BY <1>2, <1>5, <1>8, <1>10, <2>1, <2>2 DEF DInv, Kept
<1>13. DInv(y)
  BY <1>5, <1>8, <1>11, <1>12 DEF DInv
<1>. QED
  BY <1>2, <1>4, <1>5, <1>6, <1>8, <1>13 DEF new, touch

\* selection_finalize(), selection_cancel()
LEMMA EndsIs ==
    ASSUME NEW v \in Pointers, NEW t \in Tabs
    PROVE  LET y == Mouse!SelectionEnds(v, t)
           IN /\ y \in Pointers /\ Kept(v, y) /\ y.buttons = v.buttons /\ y.told = v.told
              /\ y.touch = v.touch /\ y.menu = v.menu /\ y.move = v.move
              /\ \A u \in Tabs :
                    /\ y.ongoing[u] = (u # t /\ v.ongoing[u])
                    /\ y.scroll[u] = (u # t /\ v.scroll[u])
<1>. DEFINE o == [v.ongoing EXCEPT ![t] = FALSE]
            c == [v.scroll EXCEPT ![t] = FALSE]
            y == [v EXCEPT !.ongoing = o, !.scroll = c]
<1>1. v.ongoing \in [Tabs -> BOOLEAN] /\ v.scroll \in [Tabs -> BOOLEAN]
  BY DEF Pointers
<1>2. o \in [Tabs -> BOOLEAN] /\ c \in [Tabs -> BOOLEAN]
  BY <1>1
<1>3. \A u \in Tabs : o[u] = (u # t /\ v.ongoing[u]) /\ c[u] = (u # t /\ v.scroll[u])
  BY <1>1
<1>4. y = Mouse!SelectionEnds(v, t)
  BY DEF Mouse!SelectionEnds
<1>. HIDE DEF o, c
<1>5. /\ y \in Pointers /\ Kept(v, y) /\ y.buttons = v.buttons /\ y.told = v.told /\ y.ongoing = o /\ y.scroll = c
      /\ y.touch = v.touch /\ y.menu = v.menu /\ y.move = v.move
  BY <1>2 DEF Pointers, Kept
<1>. QED
  BY <1>3, <1>4, <1>5

\* PressGrid() of a press that has been tracked, which is the last one.
LEMMA PressGridOk ==
    ASSUME NEW v, DInv(v), v.focus \in Tabs, v.surface[v.focus] = "grid", v.buttons # <<>>,
           NEW button \in AnyButtons, NEW binding \in Mouse!Bindings,
           v.buttons[Len(v.buttons)].button = button, v.buttons[Len(v.buttons)].send = FALSE
    PROVE  LET y == Mouse!PressGrid(v, button, binding)
           IN /\ DInv(y) /\ Kept(v, y) /\ y.touch = v.touch /\ y.menu = v.menu /\ y.move = v.move
              /\ \A e \in Entries(y.buttons) : e \in Entries(v.buttons) \/ (e.button = button /\ e.surface = "grid")
              /\ \E e \in Entries(y.buttons) : e.button = button /\ e.surface = "grid"
<1>. DEFINE t == v.focus
            q == v.buttons
            b == q[Len(q)]
            consumed == Mouse!Grabbed(v, t) /\ binding # "none"
            ends == Mouse!SelectionEnds(v, t)
            starts == [ends EXCEPT !.ongoing[t] = TRUE]
            selecting == IF consumed /\ binding = "select" THEN starts ELSE v
            r == [q EXCEPT ![Len(q)].send = ~consumed]
            p == [v.told EXCEPT ![t] = IF ~consumed /\ ~Mouse!Grabbed(v, t) THEN @ \cup {button} ELSE @]
            y == [selecting EXCEPT !.buttons = r, !.told = p]
<1>1. v \in Pointers /\ q \in Seq(Trackers) /\ Distinct(q) /\ v.told \in [Tabs -> SUBSET AnyButtons]
  BY DEF DInv, Pointers
<1>2. /\ r \in Seq(Trackers) /\ Distinct(r) /\ r # <<>> /\ b \in Entries(q)
      /\ Entries(r) = {e \in Entries(q) : e.button # button} \cup {[b EXCEPT !.send = ~consumed]}
  BY <1>1, LastSent
<1>3. b \in Trackers /\ b.surface = "grid" /\ b.button = button /\ b.send = FALSE
  <2>1. b \in Trackers
    BY <1>1, EmptySeq, LenProperties, ElementOfSeq
  <2>. QED
    BY <1>2, <2>1 DEF DInv
<1>. DEFINE new == [b EXCEPT !.send = ~consumed]
<1>4. new.button = button /\ new.surface = "grid" /\ new.send = ~consumed
  BY <1>3 DEF Trackers
<1>5. p \in [Tabs -> SUBSET AnyButtons] /\ \A u \in Tabs : u # t => p[u] = v.told[u]
      /\ p[t] = IF ~consumed /\ ~Mouse!Grabbed(v, t) THEN v.told[t] \cup {button} ELSE v.told[t]
  BY <1>1
<1>15. /\ \A k \in p[t] : k \in v.told[t] \/ (k = button /\ ~consumed)
       /\ p[t] # v.told[t] => ~Mouse!Grabbed(v, t)
  BY <1>5
<1>6. /\ selecting \in Pointers /\ Kept(v, selecting) /\ selecting.buttons = q /\ selecting.told = v.told
      /\ selecting.touch = v.touch /\ selecting.menu = v.menu /\ selecting.move = v.move
      /\ \A u \in Tabs :
            /\ selecting.ongoing[u] => v.ongoing[u] \/ u = t
            /\ selecting.scroll[u] => selecting.ongoing[u]
  <2>1. CASE consumed /\ binding = "select"
    <3>1. /\ ends \in Pointers /\ Kept(v, ends) /\ ends.buttons = q /\ ends.told = v.told
          /\ ends.touch = v.touch /\ ends.menu = v.menu /\ ends.move = v.move
          /\ \A u \in Tabs :
                /\ ends.ongoing[u] = (u # t /\ v.ongoing[u])
                /\ ends.scroll[u] = (u # t /\ v.scroll[u])
      BY <1>1, EndsIs
    <3>2. ends.ongoing \in [Tabs -> BOOLEAN]
      BY <3>1 DEF Pointers
    <3>. HIDE DEF ends
    <3>. DEFINE o == [ends.ongoing EXCEPT ![t] = TRUE]
    <3>3. o \in [Tabs -> BOOLEAN] /\ \A u \in Tabs : o[u] = (u = t \/ ends.ongoing[u])
      BY <3>2
    <3>4. starts = [ends EXCEPT !.ongoing = o]
      OBVIOUS
    <3>. HIDE DEF o
    <3>5. /\ starts \in Pointers /\ Kept(ends, starts) /\ starts.buttons = ends.buttons /\ starts.told = ends.told
          /\ starts.touch = ends.touch /\ starts.menu = ends.menu /\ starts.move = ends.move
          /\ starts.ongoing = o /\ starts.scroll = ends.scroll
      BY <3>1, <3>3, <3>4 DEF Pointers, Kept
    <3>6. selecting = starts
      BY <2>1
    <3>. HIDE DEF starts, selecting
    <3>. QED
      BY <3>1, <3>3, <3>5, <3>6 DEF Kept, DInv
  <2>2. CASE ~(consumed /\ binding = "select")
    <3>1. selecting = v
      BY <2>2
    <3>. HIDE DEF selecting
    <3>. QED
      BY <1>1, <3>1 DEF Kept, DInv
  <2>. QED
    BY <2>1, <2>2
<1>7. y = Mouse!PressGrid(v, button, binding)
  <2>1. selecting.buttons = v.buttons /\ selecting.told = v.told
    BY <1>6
  <2>. QED
    BY <2>1 DEF Mouse!PressGrid
<1>. HIDE DEF selecting, r, p, new
<1>8. /\ y \in Pointers /\ Kept(v, y) /\ y.buttons = r /\ y.told = p
      /\ y.touch = v.touch /\ y.menu = v.menu /\ y.move = v.move
      /\ y.ongoing = selecting.ongoing /\ y.scroll = selecting.scroll
  BY <1>2, <1>5, <1>6 DEF Pointers, Kept
<1>. HIDE DEF y
<1>9. \A u \in Tabs : Mouse!Grabbed(y, u) = Mouse!Grabbed(v, u)
  BY <1>8 DEF Mouse!Grabbed, Kept
<1>10. Entries(r) = {e \in Entries(q) : e.button # button} \cup {new}
  BY <1>2 DEF new
<1>11. \A e \in Entries(q) : e.send => e.button # button
  <2>. SUFFICES ASSUME NEW i \in 1 .. Len(q), q[i].send, q[i].button = button PROVE FALSE
    BY DEF Entries
  <2>1. Len(q) \in 1 .. Len(q)
    BY <1>1, EmptySeq, LenProperties
  <2>2. i = Len(q)
    BY <1>1, <1>3, <2>1 DEF Distinct
  <2>. QED
    BY <1>3, <2>2
<1>12. \A e \in Entries(y.buttons) : e.surface = y.surface[y.focus] /\ (e.send => e.surface = "grid")
  BY <1>4, <1>8, <1>10 DEF DInv, Kept
<1>13. ASSUME NEW u \in Tabs
       PROVE  /\ y.ongoing[u] => u = y.focus /\ \E e \in Entries(y.buttons) : e.surface = "grid"
              /\ y.scroll[u] => y.ongoing[u]
              /\ \A k \in y.told[u] : \E e \in Entries(y.buttons) : e.button = k /\ e.send
              /\ y.told[u] # {} => u = y.focus /\ ~Mouse!Grabbed(y, u)
  <2>0. y.focus = t /\ (v.ongoing[u] => u = t) /\ (v.told[u] # {} => u = t /\ ~Mouse!Grabbed(v, u))
    BY <1>8 DEF DInv, Kept
  <2>1. y.ongoing[u] => u = y.focus
    <3>1. selecting.ongoing[u] => v.ongoing[u] \/ u = t
      BY <1>6
    <3>2. y.ongoing[u] = selecting.ongoing[u]
      BY <1>8
    <3>. QED
      BY <2>0, <3>1, <3>2
  <2>2. \E e \in Entries(y.buttons) : e.surface = "grid"
    BY <1>4, <1>8, <1>10
  <2>3. y.scroll[u] => y.ongoing[u]
    BY <1>6, <1>8
  <2>4. ASSUME NEW k \in y.told[u] PROVE \E e \in Entries(y.buttons) : e.button = k /\ e.send
    <3>1. CASE k \in v.told[u]
      BY <1>8, <1>10, <1>11, <3>1 DEF DInv
    <3>2. CASE k \notin v.told[u]
      <4>1. k = button /\ ~consumed
        <5>1. k \in p[u]
          BY <1>8, <2>4
        <5>2. u = t
          BY <1>5, <3>2, <5>1
        <5>. QED
          BY <1>15, <3>2, <5>1, <5>2
      <4>. QED
        BY <1>4, <1>8, <1>10, <4>1
    <3>. QED
      BY <3>1, <3>2
  <2>5. y.told[u] # {} => u = y.focus /\ ~Mouse!Grabbed(y, u)
    <3>1. CASE u = t
      <4>1. y.told[u] # {} => ~Mouse!Grabbed(v, u)
        BY <1>15, <1>8, <2>0, <3>1
      <4>. QED
        BY <1>9, <2>0, <3>1, <4>1
    <3>2. CASE u # t
      BY <1>5, <1>8, <2>0, <3>2
    <3>. QED
      BY <3>1, <3>2
  <2>. QED
    BY <2>1, <2>2, <2>3, <2>4, <2>5
<1>14. DInv(y)
  BY <1>2, <1>8, <1>12, <1>13 DEF DInv
<1>. QED
  BY <1>4, <1>7, <1>8, <1>10, <1>14

\* Nothing that a drag is about changes.
LEMMA SameDrag ==
    ASSUME NEW v, DInv(v), NEW y \in Pointers, y.buttons = v.buttons, y.ongoing = v.ongoing, y.scroll = v.scroll,
           y.told = v.told, y.tracking = v.tracking, y.override = v.override,
           v.buttons = <<>> \/ (y.focus = v.focus /\ y.surface[y.focus] = v.surface[v.focus])
    PROVE  DInv(y)
<1>1. v.buttons \in Seq(Trackers)
  BY DEF DInv, Pointers
<1>2. v.buttons = <<>> => Entries(v.buttons) = {}
  BY <1>1, NoEntries
<1>3. \A t \in Tabs : Mouse!Grabbed(y, t) = Mouse!Grabbed(v, t)
  BY DEF Mouse!Grabbed
<1>4. CASE v.buttons = <<>>
  <2>1. ASSUME NEW t \in Tabs PROVE ~v.ongoing[t] /\ ~v.scroll[t] /\ v.told[t] = {}
    BY <1>2, <1>4 DEF DInv
  <2>. QED
    BY <1>2, <1>4, <2>1 DEF DInv
<1>5. CASE y.focus = v.focus /\ y.surface[y.focus] = v.surface[v.focus]
  BY <1>3, <1>5 DEF DInv
<1>. QED
  BY <1>4, <1>5

\* wl_pointer_button() of a press
PressedTo(v, y, button) ==
    LET surface == v.surface[v.focus]
    IN /\ DInv(y) /\ Kept(v, y)
       /\ v.menu => y.menu = FALSE /\ y.buttons = v.buttons /\ y.touch = v.touch /\ y.move = v.move
       /\ ~v.menu =>
            /\ \A e \in Entries(y.buttons) :
                  \/ e \in Entries(v.buttons) /\ e.button # button
                  \/ e.button = button /\ e.surface = surface
            /\ \E e \in Entries(y.buttons) : e.button = button /\ e.surface = surface
            /\ surface # "grid" => {e \in Entries(v.buttons) : e.button # button} \subseteq Entries(y.buttons)
            /\ y.touch = IF v.hasTouch /\ v.touch = "idle" THEN "inhibited" ELSE v.touch
            /\ y.menu = (surface = "bar" /\ button # "left")
            /\ y.move = IF surface = "title" /\ button = "left" /\ v.move = "off" THEN "armed" ELSE v.move

LEMMA MousePressedOk ==
    ASSUME NEW v, DInv(v), v.focus \in Tabs, NEW button \in AnyButtons, NEW binding \in Mouse!Bindings,
           \A e \in Entries(v.buttons) : e.button = button => e.surface # "grid"
    PROVE  PressedTo(v, Mouse!Pressed(v, button, binding), button)
<1>. DEFINE y == Mouse!Pressed(v, button, binding)
            surface == v.surface[v.focus]
            x == TrackedBy(v, button)
            new == [button |-> button, surface |-> surface, send |-> FALSE]
<1>1. /\ DInv(x) /\ Kept(v, x)
      /\ Entries(x.buttons) = {e \in Entries(v.buttons) : e.button # button} \cup {new}
      /\ x.buttons # <<>> /\ x.buttons[Len(x.buttons)] = new
      /\ x.touch = (IF v.hasTouch /\ v.touch = "idle" THEN "inhibited" ELSE v.touch)
      /\ x.menu = v.menu /\ x.move = v.move
  BY TrackedIs
<1>2. /\ x \in Pointers /\ v \in Pointers /\ new.button = button /\ new.surface = surface /\ new.send = FALSE
      /\ v.menu \in BOOLEAN
  BY <1>1 DEF DInv, Pointers
<1>3. y = IF v.menu THEN [v EXCEPT !.menu = FALSE]
          ELSE CASE surface = "title" /\ button = "left" /\ v.move = "off" -> [x EXCEPT !.move = "armed"]
                 [] surface = "bar" /\ button # "left" -> [x EXCEPT !.menu = TRUE]
                 [] surface = "grid" -> Mouse!PressGrid(x, button, binding)
                 [] OTHER -> x
  BY DEF Mouse!Pressed, TrackedBy
<1>. HIDE DEF x, new, y
<1>. SUFFICES PressedTo(v, y, button)
  BY DEF y
<1>4. CASE v.menu
  <2>. DEFINE z == [v EXCEPT !.menu = FALSE]
  <2>1. /\ z \in Pointers /\ Kept(v, z) /\ z.buttons = v.buttons /\ z.ongoing = v.ongoing /\ z.scroll = v.scroll
        /\ z.told = v.told /\ z.menu = FALSE /\ z.touch = v.touch /\ z.move = v.move
    BY <1>2 DEF Pointers, Kept
  <2>. HIDE DEF z
  <2>2. DInv(z)
    BY <2>1, SameDrag DEF Kept
  <2>3. y = z
    BY <1>3, <1>4 DEF z
  <2>. QED
    BY <1>4, <2>1, <2>2, <2>3 DEF PressedTo
<1>5. CASE ~v.menu /\ surface = "title" /\ button = "left" /\ v.move = "off"
  <2>. DEFINE z == [x EXCEPT !.move = "armed"]
  <2>1. /\ z \in Pointers /\ Kept(x, z) /\ z.buttons = x.buttons /\ z.ongoing = x.ongoing /\ z.scroll = x.scroll
        /\ z.told = x.told /\ z.menu = x.menu /\ z.touch = x.touch /\ z.move = "armed"
    BY <1>2 DEF Pointers, Kept
  <2>. HIDE DEF z
  <2>2. DInv(z)
    BY <1>1, <2>1, SameDrag DEF Kept
  <2>3. y = z
    BY <1>3, <1>5 DEF z
  <2>4. Kept(v, z)
    BY <1>1, <2>1 DEF Kept
  <2>. QED
    BY <1>1, <1>2, <1>5, <2>1, <2>2, <2>3, <2>4 DEF PressedTo
<1>6. CASE ~v.menu /\ surface = "bar" /\ button # "left"
  <2>. DEFINE z == [x EXCEPT !.menu = TRUE]
  <2>1. /\ z \in Pointers /\ Kept(x, z) /\ z.buttons = x.buttons /\ z.ongoing = x.ongoing /\ z.scroll = x.scroll
        /\ z.told = x.told /\ z.menu = TRUE /\ z.touch = x.touch /\ z.move = x.move
    BY <1>2 DEF Pointers, Kept
  <2>. HIDE DEF z
  <2>2. DInv(z)
    BY <1>1, <2>1, SameDrag DEF Kept
  <2>3. y = z
    BY <1>3, <1>6 DEF z
  <2>4. Kept(v, z)
    BY <1>1, <2>1 DEF Kept
  <2>. QED
    BY <1>1, <1>2, <1>6, <2>1, <2>2, <2>3, <2>4 DEF PressedTo
<1>7. CASE ~v.menu /\ surface = "grid"
  <2>. DEFINE z == Mouse!PressGrid(x, button, binding)
  <2>1. /\ x.focus = v.focus /\ x.focus \in Tabs /\ x.surface[x.focus] = "grid"
        /\ x.buttons[Len(x.buttons)].button = button /\ x.buttons[Len(x.buttons)].send = FALSE
    BY <1>1, <1>2, <1>7 DEF Kept
  <2>2. /\ DInv(z) /\ Kept(x, z) /\ z.touch = x.touch /\ z.menu = x.menu /\ z.move = x.move
        /\ \A e \in Entries(z.buttons) : e \in Entries(x.buttons) \/ (e.button = button /\ e.surface = "grid")
        /\ \E e \in Entries(z.buttons) : e.button = button /\ e.surface = "grid"
    BY <1>1, <1>2, <2>1, PressGridOk
  <2>3. y = z
    BY <1>3, <1>7
  <2>. HIDE DEF z
  <2>4. Kept(v, z)
    BY <1>1, <2>2 DEF Kept
  <2>5. \A e \in Entries(z.buttons) :
             \/ e \in Entries(v.buttons) /\ e.button # button
             \/ e.button = button /\ e.surface = surface
    BY <1>1, <1>2, <1>7, <2>2
  <2>. QED
    BY <1>1, <1>2, <1>7, <2>2, <2>3, <2>4, <2>5 DEF PressedTo
<1>8. CASE /\ ~v.menu /\ surface # "grid" /\ ~(surface = "bar" /\ button # "left")
           /\ ~(surface = "title" /\ button = "left" /\ v.move = "off")
  <2>1. y = x
    BY <1>3, <1>8
  <2>. QED
    BY <1>1, <1>2, <1>8, <2>1 DEF PressedTo
<1>. QED
  BY <1>2, <1>4, <1>5, <1>6, <1>7, <1>8

\* wl_pointer_button() of a release: of the tab that is switched to, only the surface matters.
ReleasedTo(v, y, button) ==
    /\ y \in Pointers
    /\ v.menu => y = v
    /\ ~v.menu =>
         /\ DInv(y) /\ y.menu = FALSE
         /\ Entries(y.buttons) = {e \in Entries(v.buttons) : e.button # button}
         /\ y.touch = IF v.hasTouch /\ v.touch = "inhibited" /\ y.buttons = <<>> THEN "idle" ELSE v.touch
         /\ y.move = IF \E e \in Entries(v.buttons) : e.button = button /\ e.surface = "title" THEN "off" ELSE v.move
         /\ Kept(v, y) \/ \E tab \in Tabs :
              /\ v.surface[v.focus] = "bar"
              /\ y.term = tab /\ y.focus = (IF v.focus = v.term THEN tab ELSE v.focus)
              /\ y.surface = [v.surface EXCEPT ![tab] = v.surface[v.term]]
              /\ y.touched = v.touched /\ y.hasTouch = v.hasTouch /\ y.hasPointer = v.hasPointer

\* The surface of the tab in focus stays the same.
Settled(v) == v.focus # v.term => v.surface[v.term] = "bar"

\* do_tab_switch() when a button was released over the tab bar
LEMMA SwitchReleased ==
    ASSUME NEW v, DInv(v), v.focus \in Tabs, Settled(v), v.surface[v.focus] = "bar", NEW tab \in Tabs
    PROVE  LET y == Mouse!SwitchTo(v, tab)
           IN /\ DInv(y) /\ y.buttons = v.buttons /\ y.touch = v.touch /\ y.menu = v.menu /\ y.move = v.move
              /\ y.term = tab /\ y.focus = (IF v.focus = v.term THEN tab ELSE v.focus)
              /\ y.surface = [v.surface EXCEPT ![tab] = v.surface[v.term]]
              /\ y.touched = v.touched /\ y.hasTouch = v.hasTouch /\ y.hasPointer = v.hasPointer
<1>. DEFINE f == IF v.focus = v.term THEN tab ELSE v.focus
            g == [v.surface EXCEPT ![tab] = v.surface[v.term]]
            y == [v EXCEPT !.term = tab, !.surface = g, !.focus = f]
<1>1. v \in Pointers /\ v.surface \in [Tabs -> SurfacesOrNone] /\ v.term \in Tabs
  BY DEF DInv, Pointers
<1>2. f \in Tabs /\ g \in [Tabs -> SurfacesOrNone] /\ g[f] = "bar"
  BY <1>1 DEF Settled
<1>3. y = Mouse!SwitchTo(v, tab)
  BY DEF Mouse!SwitchTo
<1>. HIDE DEF f, g
<1>4. /\ y \in Pointers /\ y.buttons = v.buttons /\ y.touch = v.touch /\ y.menu = v.menu /\ y.move = v.move
      /\ y.term = tab /\ y.focus = f /\ y.surface = g
      /\ y.touched = v.touched /\ y.hasTouch = v.hasTouch /\ y.hasPointer = v.hasPointer
      /\ y.ongoing = v.ongoing /\ y.scroll = v.scroll /\ y.told = v.told
  BY <1>1, <1>2 DEF Pointers
<1>. HIDE DEF y
<1>5. \A b \in Entries(v.buttons) : b.surface = "bar" /\ ~b.send
  BY DEF DInv
<1>6. ASSUME NEW t \in Tabs PROVE ~v.ongoing[t] /\ ~v.scroll[t] /\ v.told[t] = {}
  BY <1>5 DEF DInv
<1>7. DInv(y)
  BY <1>2, <1>4, <1>5, <1>6 DEF DInv
<1>. QED
  BY <1>3, <1>4, <1>7 DEF f, g

LEMMA MouseReleasedOk ==
    ASSUME NEW v, DInv(v), v.focus \in Tabs, Settled(v), NEW button \in AnyButtons, NEW tab \in Tabs
    PROVE  ReleasedTo(v, Mouse!Released(v, button, tab), button)
<1>. DEFINE y == Mouse!Released(v, button, tab)
            t == v.focus
            b == v.buttons[Mouse!Place(v, button)]
            q == Mouse!Untracked(v, button)
            touch == IF v.hasTouch /\ v.touch = "inhibited" /\ q = <<>> THEN "idle" ELSE v.touch
            freed == [v EXCEPT !.buttons = q, !.touch = touch]
<1>1. v \in Pointers /\ v.buttons \in Seq(Trackers) /\ Distinct(v.buttons) /\ v.menu \in BOOLEAN
      /\ v.told \in [Tabs -> SUBSET AnyButtons]
  BY DEF DInv, Pointers
<1>2. q \in Seq(Trackers) /\ Distinct(q) /\ Entries(q) = {e \in Entries(v.buttons) : e.button # button}
  BY <1>1, UntrackedIs
<1>3. y = IF v.menu THEN v ELSE IF button \in Mouse!Tracked(v) THEN Mouse!ReleasedOn(freed, b, tab) ELSE freed
  <2>1. [v EXCEPT !.buttons = q].buttons = q
    BY <1>1 DEF Pointers
  <2>2. freed = [[v EXCEPT !.buttons = q] EXCEPT
                   !.touch = IF v.hasTouch /\ @ = "inhibited" /\ [v EXCEPT !.buttons = q].buttons = <<>>
                             THEN "idle" ELSE @]
    BY <1>1, <2>1 DEF Pointers
  <2>. QED
    BY <2>2 DEF Mouse!Released
<1>4. touch \in {"idle", "inhibited", "held", "dragging", "scrolling"}
  BY <1>1 DEF Pointers
<1>. HIDE DEF q, touch
<1>5. /\ freed \in Pointers /\ Kept(v, freed) /\ freed.buttons = q /\ freed.touch = touch
      /\ freed.menu = v.menu /\ freed.move = v.move
      /\ freed.ongoing = v.ongoing /\ freed.scroll = v.scroll /\ freed.told = v.told
  BY <1>1, <1>2, <1>4 DEF Pointers, Kept
<1>. HIDE DEF freed, y
<1>. SUFFICES ReleasedTo(v, y, button)
  BY DEF y
<1>6. \A u \in Tabs : Mouse!Grabbed(freed, u) = Mouse!Grabbed(v, u)
  BY <1>5 DEF Mouse!Grabbed, Kept
<1>7. DOMAIN v.buttons = 1 .. Len(v.buttons) /\ Mouse!Tracked(v) = {e.button : e \in Entries(v.buttons)}
  <2>1. DOMAIN v.buttons = 1 .. Len(v.buttons)
    BY <1>1, LenProperties
  <2>. QED
    BY <2>1 DEF Mouse!Tracked, Entries
<1>8. button \in Mouse!Tracked(v) => b \in Entries(v.buttons) /\ b.button = button
  <2>. SUFFICES ASSUME button \in Mouse!Tracked(v) PROVE b \in Entries(v.buttons) /\ b.button = button
    OBVIOUS
  <2>1. \E i \in 1 .. Len(v.buttons) : v.buttons[i].button = button
    BY <1>7 DEF Entries
  <2>. QED
    BY <1>7, <2>1 DEF Mouse!Place, Entries
<1>9. \A e \in Entries(v.buttons) : e.button = button => button \in Mouse!Tracked(v) /\ e = b
  <2>. SUFFICES ASSUME NEW i \in 1 .. Len(v.buttons), v.buttons[i].button = button
                PROVE  button \in Mouse!Tracked(v) /\ v.buttons[i] = b
    BY DEF Entries
  <2>1. button \in Mouse!Tracked(v)
    BY <1>7 DEF Entries
  <2>2. \E j \in 1 .. Len(v.buttons) : v.buttons[j].button = button
    OBVIOUS
  <2>3. Mouse!Place(v, button) \in 1 .. Len(v.buttons) /\ v.buttons[Mouse!Place(v, button)].button = button
    BY <1>7, <2>2 DEF Mouse!Place
  <2>. QED
    BY <1>1, <2>1, <2>3 DEF Distinct
<1>. HIDE DEF b
<1>10. CASE v.menu
  BY <1>1, <1>3, <1>10 DEF ReleasedTo
<1>11. ASSUME v.surface[t] # "grid" \/ button \notin Mouse!Tracked(v) PROVE DInv(freed)
  <2>1. \A e \in Entries(v.buttons) : e.send => e.button # button
    BY <1>8, <1>9, <1>11 DEF DInv
  <2>2. \A e \in Entries(v.buttons) : e.surface = "grid" => e.button # button
    BY <1>8, <1>9, <1>11 DEF DInv
  <2>3. \A e \in Entries(q) : e.surface = freed.surface[freed.focus] /\ (e.send => e.surface = "grid")
    BY <1>2, <1>5 DEF DInv, Kept
  <2>4. ASSUME NEW u \in Tabs
        PROVE  /\ v.ongoing[u] => u = t /\ \E e \in Entries(q) : e.surface = "grid"
               /\ v.scroll[u] => v.ongoing[u]
               /\ \A k \in v.told[u] : \E e \in Entries(q) : e.button = k /\ e.send
               /\ v.told[u] # {} => u = t /\ ~Mouse!Grabbed(v, u)
    <3>1. v.ongoing[u] => u = t /\ \E e \in Entries(v.buttons) : e.surface = "grid"
      BY DEF DInv
    <3>2. \A k \in v.told[u] : \E e \in Entries(v.buttons) : e.button = k /\ e.send
      BY DEF DInv
    <3>. QED
      BY <1>2, <2>1, <2>2, <3>1, <3>2 DEF DInv
  <2>. QED
    BY <1>2, <1>5, <1>6, <2>3, <2>4 DEF DInv, Kept
<1>12. CASE ~v.menu /\ button \notin Mouse!Tracked(v)
  <2>1. y = freed
    BY <1>3, <1>12
  <2>2. ~\E e \in Entries(v.buttons) : e.button = button /\ e.surface = "title"
    BY <1>9, <1>12
  <2>. QED
    BY <1>1, <1>2, <1>5, <1>11, <1>12, <2>1, <2>2 DEF ReleasedTo, touch
<1>13. ASSUME ~v.menu, button \in Mouse!Tracked(v)
       PROVE  y = Mouse!ReleasedOn(freed, b, tab) /\ b.surface = v.surface[t] /\ b.button = button
              /\ freed.focus = t /\ freed.surface[t] = v.surface[t]
  BY <1>3, <1>5, <1>8, <1>13 DEF DInv, Kept
<1>14. CASE ~v.menu /\ button \in Mouse!Tracked(v) /\ v.surface[t] = "title"
  <2>. DEFINE z == [freed EXCEPT !.move = "off"]
  <2>1. /\ z \in Pointers /\ Kept(freed, z) /\ z.buttons = q /\ z.touch = touch /\ z.menu = v.menu /\ z.move = "off"
        /\ z.ongoing = freed.ongoing /\ z.scroll = freed.scroll /\ z.told = freed.told
    BY <1>5 DEF Pointers, Kept
  <2>2. y = z
    BY <1>13, <1>14 DEF Mouse!ReleasedOn
  <2>. HIDE DEF z
  <2>3. DInv(freed)
    BY <1>11, <1>14
  <2>4. DInv(z)
    BY <1>5, <2>1, <2>3, SameDrag DEF Kept
  <2>5. \E e \in Entries(v.buttons) : e.button = button /\ e.surface = "title"
    BY <1>8, <1>13, <1>14
  <2>6. Kept(v, z)
    BY <1>5, <2>1 DEF Kept
  <2>. QED
    BY <1>1, <1>2, <1>14, <2>1, <2>2, <2>4, <2>5, <2>6 DEF ReleasedTo, touch
<1>15. ASSUME ~v.menu, v.surface[t] # "title"
       PROVE  ~\E e \in Entries(v.buttons) : e.button = button /\ e.surface = "title"
  BY <1>15 DEF DInv
<1>16. CASE ~v.menu /\ button \in Mouse!Tracked(v) /\ v.surface[t] = "bar" /\ button = "left"
  <2>. DEFINE z == Mouse!SwitchTo(freed, tab)
  <2>1. y = z
    BY <1>13, <1>16 DEF Mouse!ReleasedOn
  <2>2. DInv(freed) /\ Settled(freed) /\ freed.surface[freed.focus] = "bar" /\ freed.focus \in Tabs
    BY <1>5, <1>11, <1>16 DEF Kept, Settled
  <2>3. /\ DInv(z) /\ z.buttons = freed.buttons /\ z.touch = freed.touch /\ z.menu = freed.menu /\ z.move = freed.move
        /\ z.term = tab /\ z.focus = (IF freed.focus = freed.term THEN tab ELSE freed.focus)
        /\ z.surface = [freed.surface EXCEPT ![tab] = freed.surface[freed.term]]
        /\ z.touched = freed.touched /\ z.hasTouch = freed.hasTouch /\ z.hasPointer = freed.hasPointer
    BY <2>2, SwitchReleased
  <2>. HIDE DEF z
  <2>4. z \in Pointers
    BY <2>3 DEF DInv
  <2>. QED
    BY <1>1, <1>2, <1>5, <1>15, <1>16, <2>1, <2>3, <2>4, ZenonT(30) DEF ReleasedTo, touch, Kept
<1>17. CASE ~v.menu /\ button \in Mouse!Tracked(v) /\ v.surface[t] = "grid"
  <2>. DEFINE ends == Mouse!SelectionEnds(freed, t)
              reported == b.send /\ ~Mouse!Grabbed(v, t)
              p == IF reported THEN [v.told EXCEPT ![t] = @ \ {button}] ELSE v.told
              z == [ends EXCEPT !.told = p]
  <2>1. /\ ends \in Pointers /\ Kept(freed, ends) /\ ends.buttons = q /\ ends.told = v.told
        /\ ends.touch = touch /\ ends.menu = v.menu /\ ends.move = v.move
        /\ \A u \in Tabs :
              /\ ends.ongoing[u] = (u # t /\ v.ongoing[u])
              /\ ends.scroll[u] = (u # t /\ v.scroll[u])
    BY <1>5, EndsIs, SMTT(30)
  <2>2. y = IF reported THEN [ends EXCEPT !.told[t] = @ \ {button}] ELSE ends
    BY <1>6, <1>13, <1>17 DEF Mouse!ReleasedOn
  <2>3. y = z
    BY <2>1, <2>2 DEF Pointers
  <2>4. /\ p \in [Tabs -> SUBSET AnyButtons]
        /\ \A u \in Tabs : p[u] \subseteq v.told[u] /\ (reported /\ u = t => button \notin p[u])
    BY <1>1
  <2>. HIDE DEF ends, p, reported
  <2>5. /\ z \in Pointers /\ Kept(ends, z) /\ z.buttons = q /\ z.touch = touch /\ z.menu = v.menu /\ z.move = v.move
        /\ z.ongoing = ends.ongoing /\ z.scroll = ends.scroll /\ z.told = p
    BY <2>1, <2>4 DEF Pointers, Kept
  <2>. HIDE DEF z
  <2>6. Kept(v, z)
    BY <1>5, <2>1, <2>5 DEF Kept
  <2>7. \A u \in Tabs : Mouse!Grabbed(z, u) = Mouse!Grabbed(v, u)
    BY <2>6 DEF Mouse!Grabbed, Kept
  <2>8. ASSUME NEW u \in Tabs PROVE ~z.ongoing[u] /\ ~z.scroll[u]
    BY <2>1, <2>5 DEF DInv
  <2>9. ASSUME NEW u \in Tabs, NEW k \in p[u]
        PROVE  (\E e \in Entries(q) : e.button = k /\ e.send) /\ u = t /\ ~Mouse!Grabbed(v, u)
    <3>1. k \in v.told[u]
      BY <2>4, <2>9
    <3>2. u = t /\ ~Mouse!Grabbed(v, u) /\ \E e \in Entries(v.buttons) : e.button = k /\ e.send
      BY <3>1 DEF DInv
    <3>3. k # button
      BY <1>9, <2>4, <2>9, <3>2 DEF reported
    <3>. QED
      BY <1>2, <3>2, <3>3
  <2>10. \A e \in Entries(q) : e.surface = z.surface[z.focus] /\ (e.send => e.surface = "grid")
    BY <1>2, <2>6 DEF DInv, Kept
  <2>11. z.focus = t
    BY <2>6 DEF Kept
  <2>12. ASSUME NEW u \in Tabs
         PROVE  /\ \A k \in z.told[u] : \E e \in Entries(z.buttons) : e.button = k /\ e.send
                /\ z.told[u] # {} => u = z.focus /\ ~Mouse!Grabbed(z, u)
    BY <2>5, <2>7, <2>9, <2>11
  <2>13. DInv(z)
    BY <1>2, <2>5, <2>8, <2>10, <2>12 DEF DInv
  <2>. QED
    BY <1>1, <1>2, <1>15, <1>17, <2>3, <2>5, <2>6, <2>13 DEF ReleasedTo, touch
<1>18. CASE /\ ~v.menu /\ button \in Mouse!Tracked(v)
            /\ v.surface[t] \notin {"title", "grid"} /\ ~(v.surface[t] = "bar" /\ button = "left")
  <2>1. y = freed
    BY <1>13, <1>18 DEF Mouse!ReleasedOn
  <2>2. DInv(freed)
    BY <1>11, <1>18
  <2>. QED
    BY <1>1, <1>2, <1>5, <1>15, <1>18, <2>1, <2>2 DEF ReleasedTo, touch
<1>. QED
  BY <1>10, <1>12, <1>14, <1>16, <1>17, <1>18

\* wl_pointer_motion()
LEMMA MouseMovedOk ==
    ASSUME NEW v, DInv(v), v.focus \in Tabs, NEW outside \in BOOLEAN
    PROVE  LET y == Mouse!Moved(v, outside)
           IN /\ DInv(y) /\ Kept(v, y) /\ y.buttons = v.buttons /\ y.touch = v.touch /\ y.menu = v.menu
              /\ y.move = v.move \/ y.move = "off"
              /\ y.move # v.move => v.surface[v.focus] = "title"
              /\ (~v.menu /\ v.buttons # <<>> /\ v.surface[v.focus] = "title"
                    /\ \A e \in Entries(v.buttons) : e.button = "left") => y.move = "off"
<1>. DEFINE t == v.focus
            y == Mouse!Moved(v, outside)
            to == IF v.buttons = <<>> THEN v.surface[t] ELSE Head(v.buttons).surface
            c == [v.scroll EXCEPT ![t] = outside /\ (@ \/ v.ongoing[t])]
            ends == [v EXCEPT !.move = "off"]
            scrolls == [v EXCEPT !.scroll = c]
<1>1. v \in Pointers /\ v.buttons \in Seq(Trackers) /\ v.scroll \in [Tabs -> BOOLEAN] /\ v.ongoing \in [Tabs -> BOOLEAN]
  BY DEF DInv, Pointers
<1>2. v.buttons # <<>> => Head(v.buttons) \in Entries(v.buttons)
  <2>. SUFFICES ASSUME v.buttons # <<>> PROVE Head(v.buttons) \in Entries(v.buttons)
    OBVIOUS
  <2>1. Len(v.buttons) \in Nat \ {0} /\ Head(v.buttons) = v.buttons[1]
    BY <1>1, EmptySeq, LenProperties, HeadTailProperties
  <2>2. 1 \in 1 .. Len(v.buttons)
    BY <2>1
  <2>. QED
    BY <2>1, <2>2 DEF Entries
<1>3. v.buttons # <<>> => to = v.surface[t]
  BY <1>2 DEF DInv
<1>4. \/ y = v
      \/ y = ends /\ ~v.menu /\ to = "title" /\ v.buttons # <<>>
      \/ y = scrolls
  BY DEF Mouse!Moved
<1>5. (~v.menu /\ v.buttons # <<>> /\ v.surface[t] = "title" /\ \A e \in Entries(v.buttons) : e.button = "left")
        => y = ends \/ (y = v /\ v.move = "off")
  <2>. SUFFICES ASSUME ~v.menu, v.buttons # <<>>, v.surface[t] = "title",
                       \A e \in Entries(v.buttons) : e.button = "left"
                PROVE  y = ends \/ (y = v /\ v.move = "off")
    OBVIOUS
  <2>1. to = "title" /\ Head(v.buttons).button = "left"
    BY <1>2, <1>3
  <2>. HIDE DEF to
  <2>2. y = CASE to = "title" /\ v.buttons # <<>> /\ Head(v.buttons).button = "left" /\ v.move # "off" -> ends
              [] to = "grid" -> scrolls
              [] OTHER -> v
    BY DEF Mouse!Moved, to
  <2>. QED
    BY <2>1, <2>2
<1>. HIDE DEF to, y
<1>6. /\ ends \in Pointers /\ Kept(v, ends) /\ ends.buttons = v.buttons /\ ends.touch = v.touch /\ ends.menu = v.menu
      /\ ends.move = "off" /\ ends.ongoing = v.ongoing /\ ends.scroll = v.scroll /\ ends.told = v.told
  BY <1>1 DEF Pointers, Kept
<1>7. c \in [Tabs -> BOOLEAN] /\ \A u \in Tabs : c[u] => v.scroll[u] \/ v.ongoing[u]
  <2>1. c \in [Tabs -> BOOLEAN]
    BY <1>1
  <2>2. ASSUME NEW u \in Tabs, c[u] PROVE v.scroll[u] \/ v.ongoing[u]
    BY <1>1, <2>2
  <2>. QED
    BY <2>1, <2>2
<1>. HIDE DEF ends, c
<1>8. /\ scrolls \in Pointers /\ Kept(v, scrolls) /\ scrolls.buttons = v.buttons /\ scrolls.touch = v.touch
      /\ scrolls.menu = v.menu /\ scrolls.move = v.move /\ scrolls.ongoing = v.ongoing /\ scrolls.scroll = c
      /\ scrolls.told = v.told
  BY <1>1, <1>7 DEF Pointers, Kept
<1>. HIDE DEF scrolls
<1>9. DInv(ends)
  BY <1>6, SameDrag DEF Kept
<1>10. DInv(scrolls)
  <2>1. \A u \in Tabs : Mouse!Grabbed(scrolls, u) = Mouse!Grabbed(v, u)
    BY <1>8 DEF Mouse!Grabbed, Kept
  <2>2. \A u \in Tabs : c[u] => v.ongoing[u]
    BY <1>7 DEF DInv
  <2>3. scrolls.focus = v.focus /\ scrolls.surface = v.surface
    BY <1>8 DEF Kept
  <2>. QED
    BY <1>8, <2>1, <2>2, <2>3 DEF DInv
<1>11. y = v => v.move = y.move
  OBVIOUS
<1>. SUFFICES /\ DInv(y) /\ Kept(v, y) /\ y.buttons = v.buttons /\ y.touch = v.touch /\ y.menu = v.menu
              /\ y.move = v.move \/ y.move = "off"
              /\ y.move # v.move => v.surface[t] = "title"
              /\ (~v.menu /\ v.buttons # <<>> /\ v.surface[t] = "title"
                    /\ \A e \in Entries(v.buttons) : e.button = "left") => y.move = "off"
  BY DEF y
<1>12. CASE y = ends /\ ~v.menu /\ to = "title" /\ v.buttons # <<>>
  BY <1>3, <1>5, <1>6, <1>9, <1>12
<1>13. CASE y = scrolls
  BY <1>5, <1>6, <1>8, <1>10, <1>13
<1>14. CASE y = v
  BY <1>5, <1>6, <1>14 DEF Kept
<1>. QED
  BY <1>4, <1>12, <1>13, <1>14

\* What remains the same while the pointer's place is the finger's.
Alike(x, y) ==
    /\ y.buttons = x.buttons /\ y.ongoing = x.ongoing /\ y.scroll = x.scroll /\ y.told = x.told
    /\ y.tracking = x.tracking /\ y.override = x.override /\ y.menu = x.menu /\ y.move = x.move
    /\ y.touched = x.touched /\ y.hasTouch = x.hasTouch /\ y.hasPointer = x.hasPointer /\ y.term = x.term

LEMMA AsTouchedIs ==
    ASSUME NEW v \in Pointers
    PROVE  LET y == Mouse!AsTouched(v)
           IN /\ y \in Pointers /\ Alike(v, y) /\ y.touch = v.touch
              /\ y.focus = v.term /\ y.focus \in Tabs /\ y.surface[y.focus] = v.touched
              /\ y.surface = [v.surface EXCEPT ![v.term] = v.touched]
<1>. DEFINE g == [v.surface EXCEPT ![v.term] = v.touched]
            y == [v EXCEPT !.focus = v.term, !.surface = g]
<1>1. v.surface \in [Tabs -> SurfacesOrNone] /\ v.term \in Tabs /\ v.touched \in SurfacesOrNone
  BY DEF Pointers
<1>2. g \in [Tabs -> SurfacesOrNone] /\ g[v.term] = v.touched
  BY <1>1
<1>3. y = Mouse!AsTouched(v)
  BY DEF Mouse!AsTouched
<1>. HIDE DEF g
<1>4. y \in Pointers /\ Alike(v, y) /\ y.touch = v.touch /\ y.focus = v.term /\ y.surface = g
  BY <1>1, <1>2 DEF Pointers, Alike
<1>. QED
  BY <1>1, <1>2, <1>3, <1>4 DEF g

LEMMA RestoredIs ==
    ASSUME NEW x \in Pointers, NEW old \in Pointers
    PROVE  LET y == Mouse!Restored(x, old)
           IN /\ y \in Pointers /\ Alike(x, y) /\ y.touch = x.touch /\ y.focus = old.focus
              /\ y.surface = [x.surface EXCEPT ![old.term] = old.surface[old.term]]
<1>. DEFINE g == [x.surface EXCEPT ![old.term] = old.surface[old.term]]
            y == [x EXCEPT !.focus = old.focus, !.surface = g]
<1>1. /\ x.surface \in [Tabs -> SurfacesOrNone] /\ old.surface \in [Tabs -> SurfacesOrNone] /\ old.term \in Tabs
      /\ old.focus \in Tabs \cup {"none"}
  BY DEF Pointers
<1>2. g \in [Tabs -> SurfacesOrNone]
  BY <1>1
<1>3. y = Mouse!Restored(x, old)
  BY DEF Mouse!Restored
<1>. HIDE DEF g
<1>4. y \in Pointers /\ Alike(x, y) /\ y.touch = x.touch /\ y.focus = old.focus /\ y.surface = g
  BY <1>1, <1>2 DEF Pointers, Alike
<1>. QED
  BY <1>3, <1>4 DEF g

LEMMA TouchChanges ==
    ASSUME NEW v \in Pointers, NEW touch \in {"idle", "inhibited", "held", "dragging", "scrolling"}
    PROVE  LET y == [v EXCEPT !.touch = touch]
           IN y \in Pointers /\ Alike(v, y) /\ y.touch = touch /\ y.focus = v.focus /\ y.surface = v.surface
BY DEF Pointers, Alike

LEMMA AlikeTrans == ASSUME NEW x, NEW y, NEW z, Alike(x, y), Alike(y, z) PROVE Alike(x, z)
BY DEF Alike

\* A drag by finger, and what is true of any drag.
ByFinger(v) ==
    /\ DInv(Mouse!AsTouched(v)) /\ ~v.menu /\ v.hasTouch /\ v.move = "off"
    /\ \A e \in Entries(v.buttons) : e.button = "left"

\* The invariant of the pointer, of the seat and of what the compositor knows.
MInv(v, ins, hld, gvn) ==
    /\ v \in Pointers
    /\ v.touch = "dragging" => ByFinger(v)
    /\ v.touch # "dragging" => DInv(v)
    /\ v.buttons # <<>> => v.touch \in {"inhibited", "dragging"}
    /\ v.buttons # <<>> /\ v.touch # "dragging" =>
         ins /\ \A e \in Entries(v.buttons) : e.surface = "grid" => e.button \in hld
    /\ ~v.hasTouch => v.touch = "inhibited"
    /\ ins => v.focus # "none"
    /\ gvn => ins /\ "left" \in hld /\ v.surface[v.focus] # "grid"
    /\ v.focus # "none" => Settled(v)
    /\ v.menu => \A e \in Entries(v.buttons) : e.surface = "bar"
    /\ v.move = "armed" =>
         /\ "left" \in hld /\ ~gvn /\ v.touch # "dragging"
         /\ \E e \in Entries(v.buttons) : e.button = "left" /\ e.surface = "title"

\* A finger's drag is one whose pointer is elsewhere.
LEMMA ByFingerSame ==
    ASSUME NEW v \in Pointers, ByFinger(v), NEW y \in Pointers, Alike(v, y)
    PROVE  ByFinger(y)
<1>1. /\ Mouse!AsTouched(v) \in Pointers /\ Alike(v, Mouse!AsTouched(v))
      /\ Mouse!AsTouched(v).focus = v.term /\ Mouse!AsTouched(v).surface[v.term] = v.touched
  BY AsTouchedIs
<1>2. /\ Mouse!AsTouched(y) \in Pointers /\ Alike(y, Mouse!AsTouched(y))
      /\ Mouse!AsTouched(y).focus = y.term /\ Mouse!AsTouched(y).surface[y.term] = y.touched
  BY AsTouchedIs
<1>3. DInv(Mouse!AsTouched(v))
  BY DEF ByFinger
<1>. DEFINE a == Mouse!AsTouched(v)
            b == Mouse!AsTouched(y)
<1>. HIDE DEF a, b
<1>4. DInv(b)
  <2>1. /\ DInv(a) /\ b \in Pointers /\ b.buttons = a.buttons /\ b.ongoing = a.ongoing /\ b.scroll = a.scroll
        /\ b.told = a.told /\ b.tracking = a.tracking /\ b.override = a.override
        /\ b.focus = a.focus /\ b.surface[b.focus] = a.surface[a.focus]
    BY <1>1, <1>2, <1>3 DEF Alike, a, b
  <2>. QED
    BY <2>1, SameDrag
<1>. QED
  BY <1>4 DEF ByFinger, Alike, b

\* No button is down: there is no drag.
LEMMA NoDrag ==
    ASSUME NEW v, DInv(v), v.buttons = <<>>, NEW y \in Pointers, y.buttons = v.buttons, y.ongoing = v.ongoing,
           y.scroll = v.scroll, y.told = v.told, y.tracking = v.tracking, y.override = v.override
    PROVE  DInv(y)
BY SameDrag

LEMMA MouseEnterStep ==
    ASSUME MInv(s, inside, held, given), NEW surface \in Mouse!Surfaces, Mouse!WlPointerEnter(surface)
    PROVE  MInv(s', inside', held', given')
<1>. DEFINE g == [s.surface EXCEPT ![s.term] = surface]
            y == [s EXCEPT !.focus = s.term, !.surface = g]
<1>1. s \in Pointers /\ s.term \in Tabs /\ s.surface \in [Tabs -> SurfacesOrNone] /\ surface \in SurfacesOrNone
  BY DEF MInv, Pointers, SurfacesOrNone
<1>2. g \in [Tabs -> SurfacesOrNone]
  BY <1>1
<1>3. ~inside /\ inside' /\ held' = held /\ given' = given /\ s' = y
  BY DEF Mouse!WlPointerEnter
<1>. HIDE DEF g
<1>4. y \in Pointers /\ Alike(s, y) /\ y.touch = s.touch /\ y.focus = s.term
  BY <1>1, <1>2 DEF Pointers, Alike
<1>. HIDE DEF y
<1>5. y.touch = "dragging" => ByFinger(y)
  BY <1>1, <1>4, ByFingerSame DEF MInv
<1>6. y.touch # "dragging" => y.buttons = <<>> /\ DInv(y)
  <2>. SUFFICES ASSUME y.touch # "dragging" PROVE y.buttons = <<>> /\ DInv(y)
    OBVIOUS
  <2>1. s.buttons = <<>> /\ DInv(s)
    BY <1>3, <1>4 DEF MInv
  <2>. QED
    BY <1>4, <2>1, NoDrag DEF Alike
<1>7. ~given /\ y.focus # "none" /\ y.focus = y.term
  BY <1>1, <1>3, <1>4, InputAssumption DEF MInv, Alike
<1>8. y.move # "armed"
  <2>. SUFFICES ASSUME y.move = "armed" PROVE FALSE
    OBVIOUS
  <2>1. s.touch # "dragging" /\ s.buttons # <<>>
    BY <1>1, <1>4, NoEntries DEF MInv, Alike, Pointers
  <2>. QED
    BY <1>3, <2>1 DEF MInv
<1>9. y.buttons # <<>> => y.touch \in {"inhibited", "dragging"}
  BY <1>4 DEF MInv, Alike
<1>10. ~y.hasTouch => y.touch = "inhibited"
  BY <1>4 DEF MInv, Alike
<1>11. y.menu => \A e \in Entries(y.buttons) : e.surface = "bar"
  BY <1>4 DEF MInv, Alike
<1>. QED
  BY <1>3, <1>4, <1>5, <1>6, <1>7, <1>8, <1>9, <1>10, <1>11 DEF MInv, Settled

\* Neither a selection nor a press that was reported.
Quiet(v) == \A t \in Tabs : ~v.ongoing[t] /\ ~v.scroll[t] /\ v.told[t] = {}

LEMMA QuietIs ==
    ASSUME NEW v, DInv(v), \A e \in Entries(v.buttons) : e.surface # "grid"
    PROVE  Quiet(v)
BY DEF DInv, Quiet

LEMMA QuietOk ==
    ASSUME NEW v \in Pointers, v.buttons = <<>>, Quiet(v)
    PROVE  DInv(v)
<1>1. v.buttons \in Seq(Trackers) /\ Len(v.buttons) = 0
  BY DEF Pointers
<1>2. Entries(v.buttons) = {} /\ Distinct(v.buttons)
  BY <1>1 DEF Entries, Distinct
<1>. QED
  BY <1>2 DEF DInv, Quiet

LEMMA Resting ==
    ASSUME NEW v, NEW ins, NEW hld, NEW gvn, MInv(v, ins, hld, gvn), v.buttons = <<>>
    PROVE  /\ Quiet(v) /\ v \in Pointers /\ Entries(v.buttons) = {} /\ v.move # "armed"
           /\ ~v.menu \/ v.touch # "dragging"
<1>1. v \in Pointers /\ v.buttons \in Seq(Trackers)
  BY DEF MInv, Pointers
<1>2. Entries(v.buttons) = {}
  BY <1>1, NoEntries
<1>3. CASE v.touch # "dragging"
  <2>1. DInv(v)
    BY <1>3 DEF MInv
  <2>. QED
    BY <1>1, <1>2, <1>3, <2>1, QuietIs DEF MInv
<1>4. CASE v.touch = "dragging"
  <2>1. ByFinger(v)
    BY <1>4 DEF MInv
  <2>2. Alike(v, Mouse!AsTouched(v)) /\ DInv(Mouse!AsTouched(v))
    BY <1>1, <2>1, AsTouchedIs DEF ByFinger
  <2>. DEFINE a == Mouse!AsTouched(v)
  <2>. HIDE DEF a
  <2>3. a.buttons = v.buttons /\ DInv(a)
    BY <2>2 DEF a, Alike
  <2>4. Quiet(a)
    BY <1>2, <2>3, QuietIs
  <2>5. Quiet(v)
    BY <2>2, <2>4 DEF a, Alike, Quiet
  <2>. QED
    BY <1>1, <1>2, <1>4, <2>1, <2>5 DEF MInv, ByFinger
<1>. QED
  BY <1>3, <1>4

\* No finger is down, unless one drags or touched last: the buttons are the pointer's.
LEMMA ActiveIs ==
    ASSUME NEW v, NEW ins, NEW hld, NEW gvn, MInv(v, ins, hld, gvn)
    PROVE  /\ Mouse!TouchIsActive(v) <=> v.touch \in {"held", "dragging", "scrolling"}
           /\ ~Mouse!TouchIsActive(v) => v.touch \in {"idle", "inhibited"} /\ DInv(v)
<1>1. v \in Pointers
  BY DEF MInv
<1>2. v.touch \in {"idle", "inhibited", "held", "dragging", "scrolling"}
  BY <1>1 DEF Pointers
<1>3. ~v.hasTouch => v.touch = "inhibited"
  BY DEF MInv
<1>4. Mouse!TouchIsActive(v) <=> v.touch \in {"held", "dragging", "scrolling"}
  BY <1>3 DEF Mouse!TouchIsActive
<1>. QED
  BY <1>2, <1>4 DEF MInv

LEMMA ArmedIs ==
    ASSUME NEW v, NEW ins, NEW hld, NEW gvn, MInv(v, ins, hld, gvn), v.move = "armed"
    PROVE  /\ v.touch = "inhibited" /\ DInv(v) /\ ins /\ v.focus # "none" /\ ~gvn /\ "left" \in hld
           /\ v.surface[v.focus] = "title" /\ ~Mouse!TouchIsActive(v)
           /\ \E e \in Entries(v.buttons) : e.button = "left" /\ e.surface = "title"
<1>1. v.touch # "dragging" /\ v \in Pointers
  BY DEF MInv
<1>2. PICK e \in Entries(v.buttons) : e.button = "left" /\ e.surface = "title"
  BY DEF MInv
<1>3. v.buttons # <<>>
  BY <1>1, <1>2, NoEntries DEF Pointers
<1>4. v.touch = "inhibited" /\ DInv(v)
  BY <1>1, <1>3 DEF MInv
<1>5. ~Mouse!TouchIsActive(v)
  BY <1>4 DEF Mouse!TouchIsActive
<1>6. v.surface[v.focus] = "title"
  BY <1>2, <1>4 DEF DInv
<1>7. ins /\ v.focus # "none" /\ ~gvn /\ "left" \in hld
  BY <1>1, <1>3 DEF MInv
<1>. QED
  BY <1>2, <1>4, <1>5, <1>6, <1>7

LEMMA MouseLeaveStep ==
    ASSUME MInv(s, inside, held, given), Admitted = {}, Mouse!WlPointerLeave
    PROVE  MInv(s', inside', held', given')
<1>1. inside /\ (held = {} \/ given) /\ ~inside' /\ held' = {} /\ ~given'
  BY DEF Mouse!WlPointerLeave
<1>2. s.move # "armed"
  BY <1>1, ArmedIs
<1>3. s \in Pointers /\ s.focus \in Tabs
  BY <1>1 DEF MInv, Pointers
<1>4. CASE Mouse!TouchIsActive(s)
  <2>1. s' = s
    BY <1>4 DEF Mouse!WlPointerLeave
  <2>2. s.touch # "inhibited"
    BY <1>4, ActiveIs
  <2>. QED
    BY <1>1, <1>2, <2>1, <2>2 DEF MInv
<1>5. CASE ~Mouse!TouchIsActive(s)
  <2>1. s.touch \in {"idle", "inhibited"} /\ DInv(s)
    BY <1>5, ActiveIs
  <2>2. \A e \in Entries(s.buttons) : e.surface # "grid"
    <3>. SUFFICES ASSUME NEW e \in Entries(s.buttons), e.surface = "grid" PROVE FALSE
      OBVIOUS
    <3>1. s.buttons # <<>> /\ s.surface[s.focus] = "grid"
      BY <1>3, <2>1, NoEntries DEF DInv, Pointers
    <3>2. e.button \in held
      BY <2>1, <3>1 DEF MInv
    <3>3. given
      BY <1>1, <3>2
    <3>. QED
      BY <3>1, <3>3 DEF MInv
  <2>3. Quiet(s)
    BY <2>1, <2>2, QuietIs
  <2>. DEFINE touch == IF s.hasTouch /\ s.touch = "inhibited" THEN "idle" ELSE s.touch
              g == [s.surface EXCEPT ![s.focus] = "none"]
              left == [s EXCEPT !.touch = touch, !.buttons = <<>>, !.focus = "none", !.surface = g]
              y == IF s.surface[s.focus] = "grid" THEN Mouse!SelectionEnds(left, s.focus) ELSE left
  <2>4. s' = y
    BY <1>3, <1>5, InputAssumption DEF Mouse!WlPointerLeave, Mouse!ButtonsReset, Mouse!None, Pointers
  <2>5. g \in [Tabs -> SurfacesOrNone] /\ touch \in {"idle", "inhibited"}
    BY <1>3, <2>1 DEF Pointers, SurfacesOrNone
  <2>6. ~s.hasTouch => touch = "inhibited"
    BY DEF MInv
  <2>. HIDE DEF touch, g
  <2>13. <<>> \in Seq(Trackers)
    OBVIOUS
  <2>7. /\ left \in Pointers /\ left.buttons = <<>> /\ left.touch = touch /\ left.focus = "none"
        /\ left.hasTouch = s.hasTouch /\ left.move = s.move
        /\ left.ongoing = s.ongoing /\ left.scroll = s.scroll /\ left.told = s.told
    BY <1>3, <2>5, <2>13 DEF Pointers
  <2>8. Quiet(left)
    BY <2>3, <2>7 DEF Quiet
  <2>. DEFINE ends == Mouse!SelectionEnds(left, s.focus)
  <2>. HIDE DEF left
  <2>9. /\ ends \in Pointers /\ Kept(left, ends) /\ ends.buttons = <<>> /\ ends.touch = touch
        /\ ends.move = s.move /\ Quiet(ends)
    <3>1. /\ ends \in Pointers /\ Kept(left, ends) /\ ends.buttons = left.buttons /\ ends.told = left.told
          /\ ends.touch = left.touch /\ ends.move = left.move
          /\ \A u \in Tabs :
                /\ ends.ongoing[u] = (u # s.focus /\ left.ongoing[u])
                /\ ends.scroll[u] = (u # s.focus /\ left.scroll[u])
      BY <1>3, <2>7, EndsIs
    <3>. HIDE DEF ends
    <3>. QED
      BY <2>7, <2>8, <3>1 DEF Quiet
  <2>. HIDE DEF ends
  <2>10. y = left \/ y = ends
    BY DEF ends
  <2>. HIDE DEF y
  <2>11. /\ y \in Pointers /\ y.buttons = <<>> /\ y.touch = touch /\ y.focus = "none"
         /\ y.hasTouch = s.hasTouch /\ y.move = s.move /\ Quiet(y)
    BY <2>7, <2>8, <2>9, <2>10 DEF Kept
  <2>12. DInv(y) /\ Entries(y.buttons) = {}
    BY <2>11, QuietOk, NoEntries DEF Pointers
  <2>. QED
    BY <1>1, <1>2, <2>4, <2>5, <2>6, <2>11, <2>12 DEF MInv
<1>. QED
  BY <1>4, <1>5

LEMMA MouseTakenStep ==
    ASSUME MInv(s, inside, held, given), Mouse!CompositorTakesPointer
    PROVE  MInv(s', inside', held', given')
<1>1. given /\ held' = {} /\ ~given' /\ s' = s /\ inside' = inside
  BY DEF Mouse!CompositorTakesPointer
<1>2. s.move # "armed"
  BY <1>1, ArmedIs
<1>3. s.touch # "dragging" => \A e \in Entries(s.buttons) : e.surface # "grid"
  BY <1>1 DEF MInv, DInv
<1>. QED
  BY <1>1, <1>2, <1>3 DEF MInv

LEMMA MousePressStep ==
    ASSUME MInv(s, inside, held, given), NEW button \in Buttons, NEW binding \in Mouse!Bindings,
           Mouse!WlPointerButtonPress(button, binding)
    PROVE  MInv(s', inside', held', given')
<1>. DEFINE y == Mouse!Pressed(s, button, binding)
            surface == s.surface[s.focus]
            asks == surface = "border" /\ button = "left" /\ ~s.menu
<1>1. /\ inside /\ inside' = inside /\ s.focus # "none" /\ button \notin held /\ held' = held \cup {button}
      /\ s' = (IF Mouse!TouchIsActive(s) THEN s ELSE y) /\ given' = (given \/ asks)
  BY DEF Mouse!WlPointerButtonPress, Mouse!None
<1>2. s \in Pointers /\ s.focus \in Tabs /\ button \in AnyButtons /\ s.menu \in BOOLEAN /\ s.move \in {"off", "armed"}
  BY <1>1 DEF MInv, Pointers, AnyButtons
<1>. HIDE DEF y
<1>3. given' => "left" \in held' /\ surface # "grid"
  BY <1>1 DEF MInv
<1>4. s.move = "armed" => ~given' /\ button # "left" /\ "left" \in held'
  BY <1>1, ArmedIs
<1>5. CASE Mouse!TouchIsActive(s)
  <2>1. s' = s
    BY <1>1, <1>5
  <2>. QED
    BY <1>1, <1>3, <1>4, <2>1 DEF MInv
<1>6. CASE ~Mouse!TouchIsActive(s)
  <2>1. s.touch \in {"idle", "inhibited"} /\ DInv(s)
    BY <1>6, ActiveIs
  <2>2. s.buttons = <<>> => Entries(s.buttons) = {}
    BY <1>2, NoEntries DEF Pointers
  <2>3. \A e \in Entries(s.buttons) : e.surface = "grid" => e.button \in held
    BY <2>1, <2>2 DEF MInv
  <2>4. PressedTo(s, y, button)
    BY <1>1, <1>2, <2>1, <2>3, MousePressedOk DEF y
  <2>5. s' = y
    BY <1>1, <1>6
  <2>6. /\ DInv(y) /\ y \in Pointers /\ y.focus = s.focus /\ y.surface = s.surface /\ y.term = s.term
        /\ y.hasTouch = s.hasTouch
    BY <2>4 DEF PressedTo, DInv, Kept
  <2>7. Settled(y)
    BY <1>1, <2>6 DEF MInv, Settled
  <2>8. CASE s.menu
    <3>1. y.menu = FALSE /\ y.buttons = s.buttons /\ y.touch = s.touch /\ y.move = s.move
      BY <2>4, <2>8 DEF PressedTo
    <3>2. y.move = "armed" => \E e \in Entries(y.buttons) : e.button = "left" /\ e.surface = "title"
      BY <3>1 DEF MInv
    <3>3. y.buttons # <<>> => y.touch = "inhibited"
      BY <2>1, <3>1 DEF MInv
    <3>4. ~y.hasTouch => y.touch = "inhibited"
      BY <2>6, <3>1 DEF MInv
    <3>5. \A e \in Entries(y.buttons) : e.surface = "grid" => e.button \in held'
      BY <1>1, <2>3, <3>1
    <3>. QED
      BY <1>1, <1>3, <1>4, <2>1, <2>5, <2>6, <2>7, <3>1, <3>2, <3>3, <3>4, <3>5 DEF MInv
  <2>9. CASE ~s.menu
    <3>1. /\ \A e \in Entries(y.buttons) :
                \/ e \in Entries(s.buttons) /\ e.button # button
                \/ e.button = button /\ e.surface = surface
          /\ \E e \in Entries(y.buttons) : e.button = button /\ e.surface = surface
          /\ surface # "grid" => {e \in Entries(s.buttons) : e.button # button} \subseteq Entries(y.buttons)
          /\ y.touch = (IF s.hasTouch /\ s.touch = "idle" THEN "inhibited" ELSE s.touch)
          /\ y.menu = (surface = "bar" /\ button # "left")
          /\ y.move = (IF surface = "title" /\ button = "left" /\ s.move = "off" THEN "armed" ELSE s.move)
      BY <2>4, <2>9 DEF PressedTo
    <3>2. y.touch = "inhibited"
      BY <2>1, <3>1 DEF MInv
    <3>3. \A e \in Entries(y.buttons) : e.surface = "grid" => e.button \in held'
      BY <1>1, <2>3, <3>1
    <3>4. y.menu => \A e \in Entries(y.buttons) : e.surface = "bar"
      <4>1. \A e \in Entries(y.buttons) : e.surface = surface
        <5>1. \A e \in Entries(y.buttons) : e.surface = y.surface[y.focus]
          BY <2>6 DEF DInv
        <5>. QED
          BY <2>6, <5>1
      <4>2. y.menu => surface = "bar"
        BY <3>1
      <4>. QED
        BY <4>1, <4>2
    <3>5. y.move = "armed" => "left" \in held' /\ ~given' /\ surface = "title"
      <4>1. CASE s.move = "armed"
        BY <1>4, <4>1, ArmedIs
      <4>2. CASE s.move = "off" /\ y.move = "armed"
        <5>1. surface = "title" /\ button = "left"
          BY <3>1, <4>2
        <5>2. ~given
          BY <1>1, <5>1 DEF MInv
        <5>. QED
          BY <1>1, <5>1, <5>2
      <4>. QED
        BY <1>2, <4>1, <4>2
    <3>6. y.move = "armed" => \E e \in Entries(y.buttons) : e.button = "left" /\ e.surface = "title"
      <4>1. CASE s.move = "armed"
        <5>1. PICK e \in Entries(s.buttons) : e.button = "left" /\ e.surface = "title"
          BY <4>1, ArmedIs
        <5>2. surface # "grid" /\ button # "left"
          BY <1>4, <4>1, ArmedIs
        <5>. QED
          BY <3>1, <5>1, <5>2
      <4>2. CASE s.move = "off" /\ y.move = "armed"
        BY <3>1, <4>2
      <4>. QED
        BY <1>2, <4>1, <4>2
    <3>. QED
      BY <1>1, <1>3, <2>5, <2>6, <2>7, <3>2, <3>3, <3>4, <3>5, <3>6 DEF MInv
  <2>. QED
    BY <1>2, <2>8, <2>9
<1>. QED
  BY <1>5, <1>6

\* Whatever tab the release of a button switches to, the pointer is over the same surface.
LEMMA StaysOver ==
    ASSUME NEW v, v \in Pointers, v.focus \in Tabs, Settled(v), NEW y, y \in Pointers,
           Kept(v, y) \/ \E tab \in Tabs :
              /\ v.surface[v.focus] = "bar"
              /\ y.term = tab /\ y.focus = (IF v.focus = v.term THEN tab ELSE v.focus)
              /\ y.surface = [v.surface EXCEPT ![tab] = v.surface[v.term]]
              /\ y.touched = v.touched /\ y.hasTouch = v.hasTouch /\ y.hasPointer = v.hasPointer
    PROVE  /\ Settled(y) /\ y.focus \in Tabs /\ y.surface[y.focus] = v.surface[v.focus]
           /\ y.hasTouch = v.hasTouch
<1>1. CASE Kept(v, y)
  BY <1>1 DEF Kept, Settled
<1>2. ASSUME NEW tab \in Tabs,
             /\ v.surface[v.focus] = "bar"
             /\ y.term = tab /\ y.focus = (IF v.focus = v.term THEN tab ELSE v.focus)
             /\ y.surface = [v.surface EXCEPT ![tab] = v.surface[v.term]]
             /\ y.hasTouch = v.hasTouch
      PROVE  /\ Settled(y) /\ y.focus \in Tabs /\ y.surface[y.focus] = v.surface[v.focus]
             /\ y.hasTouch = v.hasTouch
  <2>1. v.surface \in [Tabs -> SurfacesOrNone] /\ v.surface[v.term] = "bar"
    BY <1>2 DEF Pointers, Settled
  <2>2. \A u \in Tabs : y.surface[u] = IF u = tab THEN "bar" ELSE v.surface[u]
    BY <1>2, <2>1
  <2>. QED
    BY <1>2, <2>1, <2>2 DEF Settled
<1>. QED
  BY <1>1, <1>2

LEMMA MouseReleaseStep ==
    ASSUME MInv(s, inside, held, given), NEW button \in Buttons, NEW tab \in Tabs,
           Mouse!WlPointerButtonRelease(button, tab)
    PROVE  MInv(s', inside', held', given')
<1>. DEFINE y == Mouse!Released(s, button, tab)
<1>1. /\ inside /\ inside' = inside /\ s.focus # "none" /\ button \in held /\ held' = held \ {button}
      /\ s' = (IF Mouse!TouchIsActive(s) THEN s ELSE y) /\ given' = (given /\ button # "left")
  BY DEF Mouse!WlPointerButtonRelease, Mouse!None
<1>2. s \in Pointers /\ s.focus \in Tabs /\ button \in AnyButtons /\ s.menu \in BOOLEAN /\ Settled(s)
  BY <1>1 DEF MInv, Pointers, AnyButtons
<1>. HIDE DEF y
<1>3. given' => "left" \in held' /\ s.surface[s.focus] # "grid"
  BY <1>1 DEF MInv
<1>4. CASE Mouse!TouchIsActive(s)
  <2>1. s' = s /\ s.move # "armed" /\ s.touch # "inhibited"
    BY <1>1, <1>4, ArmedIs, ActiveIs
  <2>. QED
    BY <1>1, <1>3, <2>1 DEF MInv
<1>5. CASE ~Mouse!TouchIsActive(s)
  <2>1. s.touch \in {"idle", "inhibited"} /\ DInv(s)
    BY <1>5, ActiveIs
  <2>2. ReleasedTo(s, y, button)
    BY <1>2, <2>1, MouseReleasedOk DEF y
  <2>3. s' = y
    BY <1>1, <1>5
  <2>4. s.buttons # <<>> => s.touch = "inhibited" /\ \A e \in Entries(s.buttons) : e.surface = "grid" => e.button \in held
    BY <2>1 DEF MInv
  <2>5. CASE s.menu
    <3>1. y = s
      BY <2>2, <2>5 DEF ReleasedTo
    <3>2. \A e \in Entries(s.buttons) : e.surface = "bar"
      BY <2>5 DEF MInv
    <3>3. s.move # "armed"
      BY <3>2, ArmedIs
    <3>4. \A e \in Entries(s.buttons) : e.surface = "grid" => e.button \in held'
      BY <3>2
    <3>. QED
      BY <1>1, <1>3, <2>1, <2>3, <3>1, <3>2, <3>3, <3>4 DEF MInv
  <2>6. CASE ~s.menu
    <3>1. /\ DInv(y) /\ y \in Pointers /\ y.menu = FALSE
          /\ Entries(y.buttons) = {e \in Entries(s.buttons) : e.button # button}
          /\ y.touch = (IF s.hasTouch /\ s.touch = "inhibited" /\ y.buttons = <<>> THEN "idle" ELSE s.touch)
          /\ y.move = (IF \E e \in Entries(s.buttons) : e.button = button /\ e.surface = "title" THEN "off" ELSE s.move)
      BY <2>2, <2>6 DEF ReleasedTo
    <3>2. Settled(y) /\ y.focus \in Tabs /\ y.surface[y.focus] = s.surface[s.focus] /\ y.hasTouch = s.hasTouch
      BY <1>2, <2>2, <2>6, <3>1, StaysOver DEF ReleasedTo
    <3>3. y.focus # "none"
      BY <3>2, InputAssumption
    <3>4. y.buttons # <<>> => s.buttons # <<>>
      BY <1>2, <3>1, NoEntries DEF Pointers
    <3>5. y.buttons # <<>> => y.touch = "inhibited" /\ \A e \in Entries(y.buttons) : e.surface = "grid" => e.button \in held'
      BY <1>1, <2>4, <3>1, <3>4
    <3>6. y.touch # "dragging" /\ (~y.hasTouch => y.touch = "inhibited")
      BY <2>1, <3>1, <3>2 DEF MInv
    <3>7. y.move = "armed" =>
            /\ "left" \in held' /\ ~given'
            /\ \E e \in Entries(y.buttons) : e.button = "left" /\ e.surface = "title"
      <4>. SUFFICES ASSUME y.move = "armed"
                    PROVE  /\ "left" \in held' /\ ~given'
                           /\ \E e \in Entries(y.buttons) : e.button = "left" /\ e.surface = "title"
        OBVIOUS
      <4>1. s.move = "armed" /\ ~\E e \in Entries(s.buttons) : e.button = button /\ e.surface = "title"
        BY <3>1
      <4>2. ~given /\ "left" \in held
        BY <4>1, ArmedIs
      <4>3. PICK e \in Entries(s.buttons) : e.button = "left" /\ e.surface = "title"
        BY <4>1, ArmedIs
      <4>4. button # "left"
        BY <4>1, <4>3
      <4>. QED
        BY <1>1, <3>1, <4>2, <4>3, <4>4
    <3>. QED
      BY <1>1, <1>3, <2>3, <3>1, <3>2, <3>3, <3>5, <3>6, <3>7 DEF MInv
  <2>. QED
    BY <1>2, <2>5, <2>6
<1>. QED
  BY <1>4, <1>5

LEMMA MouseMotionStep ==
    ASSUME MInv(s, inside, held, given), NEW outside \in BOOLEAN, Mouse!WlPointerMotion(outside)
    PROVE  MInv(s', inside', held', given')
<1>. DEFINE y == Mouse!Moved(s, outside)
<1>1. /\ inside /\ inside' = inside /\ s.focus # "none" /\ ~Mouse!TouchIsActive(s) /\ held' = held
      /\ s' = y /\ given' = (given \/ (y.move # s.move /\ "left" \in held))
  BY DEF Mouse!WlPointerMotion, Mouse!None
<1>2. s \in Pointers /\ s.focus \in Tabs /\ Settled(s)
  BY <1>1 DEF MInv, Pointers
<1>3. s.touch \in {"idle", "inhibited"} /\ DInv(s)
  BY <1>1, ActiveIs
<1>4. /\ DInv(y) /\ Kept(s, y) /\ y.buttons = s.buttons /\ y.touch = s.touch /\ y.menu = s.menu
      /\ y.move = s.move \/ y.move = "off"
      /\ y.move # s.move => s.surface[s.focus] = "title"
  BY <1>2, <1>3, MouseMovedOk
<1>. HIDE DEF y
<1>5. y \in Pointers /\ Settled(y) /\ y.focus = s.focus /\ y.surface = s.surface /\ y.hasTouch = s.hasTouch
  BY <1>2, <1>4 DEF DInv, Kept, Settled
<1>6. given' => "left" \in held' /\ y.surface[y.focus] # "grid"
  BY <1>1, <1>4, <1>5 DEF MInv
<1>7. y.move = "armed" =>
        /\ "left" \in held' /\ ~given'
        /\ \E e \in Entries(y.buttons) : e.button = "left" /\ e.surface = "title"
  BY <1>1, <1>4, ArmedIs
<1>8. \A e \in Entries(y.buttons) : y.menu => e.surface = "bar"
  BY <1>4 DEF MInv
<1>9. y.buttons # <<>> => y.touch = "inhibited" /\ \A e \in Entries(y.buttons) : e.surface = "grid" => e.button \in held'
  BY <1>1, <1>3, <1>4 DEF MInv
<1>10. ~y.hasTouch => y.touch = "inhibited"
  BY <1>4, <1>5 DEF MInv
<1>. QED
  BY <1>1, <1>3, <1>4, <1>5, <1>6, <1>7, <1>8, <1>9, <1>10 DEF MInv

LEMMA MouseCsdStep ==
    ASSUME MInv(s, inside, held, given), Mouse!FdmCsdMove
    PROVE  MInv(s', inside', held', given')
<1>1. s.move = "armed"
  BY DEF Mouse!FdmCsdMove
<1>2. /\ s.touch = "inhibited" /\ DInv(s) /\ inside /\ s.focus # "none"
      /\ s.surface[s.focus] = "title"
  BY <1>1, ArmedIs
<1>. DEFINE y == [s EXCEPT !.move = "off"]
<1>3. inside' = inside /\ held' = held /\ s' = y /\ given' = ("left" \in held)
  BY <1>2 DEF Mouse!FdmCsdMove, Mouse!None
<1>4. s \in Pointers
  BY DEF MInv
<1>5. /\ y \in Pointers /\ y.focus = s.focus /\ y.surface = s.surface /\ y.hasTouch = s.hasTouch
      /\ y.buttons = s.buttons /\ y.touch = s.touch /\ y.menu = s.menu /\ y.move = "off" /\ y.term = s.term
      /\ y.ongoing = s.ongoing /\ y.scroll = s.scroll /\ y.told = s.told
      /\ y.tracking = s.tracking /\ y.override = s.override
  BY <1>4 DEF Pointers
<1>. HIDE DEF y
<1>6. DInv(y)
  BY <1>2, <1>5, SameDrag
<1>. QED
  BY <1>2, <1>3, <1>5, <1>6 DEF MInv, Settled

\* A finger moves: the place is the finger's while Moved() runs.
LEMMA FingerMoved ==
    ASSUME NEW v \in Pointers, NEW x, DInv(x), x.focus = v.term, x.term = v.term,
           x.surface = [v.surface EXCEPT ![v.term] = v.touched], x.touched = v.touched,
           x.touch = "dragging", x.hasTouch, ~x.menu, \A e \in Entries(x.buttons) : e.button = "left",
           x.move = "off" \/ (x.surface[x.focus] = "title" /\ x.buttons # <<>>),
           NEW outside \in BOOLEAN
    PROVE  LET y == Mouse!Restored(Mouse!Moved(x, outside), v)
           IN /\ y \in Pointers /\ ByFinger(y) /\ y.touch = "dragging" /\ y.term = v.term
              /\ y.focus = v.focus /\ y.surface = v.surface
<1>. DEFINE m == Mouse!Moved(x, outside)
            y == Mouse!Restored(m, v)
            a == Mouse!AsTouched(y)
<1>1. v.term \in Tabs /\ v.surface \in [Tabs -> SurfacesOrNone] /\ x.focus \in Tabs /\ x.surface[v.term] = v.touched
  BY DEF Pointers
<1>2. /\ DInv(m) /\ Kept(x, m) /\ m.buttons = x.buttons /\ m.touch = x.touch /\ m.menu = x.menu
      /\ m.move = x.move \/ m.move = "off"
      /\ (~x.menu /\ x.buttons # <<>> /\ x.surface[x.focus] = "title"
            /\ \A e \in Entries(x.buttons) : e.button = "left") => m.move = "off"
  BY <1>1, MouseMovedOk
<1>. HIDE DEF m
<1>3. m.move = "off" /\ m \in Pointers
  BY <1>2 DEF DInv
<1>4. /\ y \in Pointers /\ Alike(m, y) /\ y.touch = m.touch /\ y.focus = v.focus
      /\ y.surface = [m.surface EXCEPT ![v.term] = v.surface[v.term]]
  BY <1>3, RestoredIs
<1>. HIDE DEF y
<1>5. y.surface = v.surface
  <2>1. m.surface = [v.surface EXCEPT ![v.term] = v.touched]
    BY <1>2 DEF Kept
  <2>2. y.surface = [[v.surface EXCEPT ![v.term] = v.touched] EXCEPT ![v.term] = v.surface[v.term]]
    BY <1>4, <2>1
  <2>. QED
    BY <1>1, <2>2
<1>6. /\ a \in Pointers /\ Alike(y, a) /\ a.focus = y.term /\ a.surface[a.focus] = y.touched
  BY <1>4, AsTouchedIs
<1>. HIDE DEF a
<1>7. /\ a.buttons = m.buttons /\ a.ongoing = m.ongoing /\ a.scroll = m.scroll /\ a.told = m.told
      /\ a.tracking = m.tracking /\ a.override = m.override
      /\ a.focus = m.focus /\ a.surface[a.focus] = m.surface[m.focus]
  <2>1. m.focus = v.term /\ m.term = v.term /\ m.surface[m.focus] = v.touched /\ m.touched = v.touched
    BY <1>1, <1>2 DEF Kept
  <2>. QED
    BY <1>4, <1>6, <2>1 DEF Alike
<1>8. DInv(a)
  BY <1>2, <1>6, <1>7, SameDrag
<1>9. ByFinger(y)
  BY <1>2, <1>3, <1>4, <1>8 DEF ByFinger, Alike, Kept, a
<1>. QED
  BY <1>2, <1>4, <1>5, <1>9 DEF Alike, Kept, y, m

\* The press of a finger that was held, over the place of the finger
LEMMA FingerPressed ==
    ASSUME NEW v, NEW ins, NEW hld, NEW gvn, MInv(v, ins, hld, gvn), v.touch = "held",
           NEW binding \in Mouse!Bindings
    PROVE  LET p == Mouse!Pressed(Mouse!AsTouched(v), "left", binding)
           IN /\ p \in Pointers /\ DInv(p) /\ p.focus = v.term /\ p.term = v.term /\ p.touched = v.touched
              /\ p.surface = [v.surface EXCEPT ![v.term] = v.touched]
              /\ p.hasTouch /\ ~p.menu /\ p.touch = "held" /\ \A e \in Entries(p.buttons) : e.button = "left"
              /\ p.move = "off" \/ (p.surface[p.focus] = "title"
                                     /\ \E e \in Entries(p.buttons) : e.button = "left" /\ e.surface = "title")
<1>. DEFINE here == Mouse!AsTouched(v)
            p == Mouse!Pressed(here, "left", binding)
<1>1. v.buttons = <<>> /\ v.hasTouch
  BY DEF MInv
<1>2. Quiet(v) /\ v \in Pointers /\ Entries(v.buttons) = {} /\ v.move = "off"
  <2>1. Quiet(v) /\ v \in Pointers /\ Entries(v.buttons) = {} /\ v.move # "armed"
    BY <1>1, Resting
  <2>. QED
    BY <2>1 DEF Pointers
<1>3. /\ here \in Pointers /\ Alike(v, here) /\ here.touch = "held"
      /\ here.focus = v.term /\ here.focus \in Tabs /\ here.surface[here.focus] = v.touched
      /\ here.surface = [v.surface EXCEPT ![v.term] = v.touched]
  BY <1>2, AsTouchedIs
<1>. HIDE DEF here
<1>4. /\ here.buttons = <<>> /\ Entries(here.buttons) = {} /\ Quiet(here) /\ here.move = "off" /\ here.hasTouch
      /\ here.term = v.term /\ here.touched = v.touched
  BY <1>1, <1>2, <1>3 DEF Alike, Quiet
<1>5. DInv(here)
  BY <1>3, <1>4, QuietOk
<1>6. "left" \in AnyButtons
  BY DEF AnyButtons
<1>7. PressedTo(here, p, "left")
  BY <1>3, <1>4, <1>5, <1>6, MousePressedOk
<1>. HIDE DEF p
<1>8. DInv(p) /\ p \in Pointers /\ Kept(here, p) /\ here.menu \in BOOLEAN
  BY <1>3, <1>7 DEF PressedTo, DInv, Pointers
<1>9. /\ p.focus = v.term /\ p.term = v.term /\ p.touched = v.touched /\ p.hasTouch
      /\ p.surface = [v.surface EXCEPT ![v.term] = v.touched] /\ p.surface[p.focus] = here.surface[here.focus]
  BY <1>3, <1>4, <1>8 DEF Kept
<1>10. CASE here.menu
  <2>1. p.menu = FALSE /\ p.buttons = here.buttons /\ p.touch = here.touch /\ p.move = here.move
    BY <1>7, <1>10 DEF PressedTo
  <2>2. ~p.menu /\ p.touch = "held" /\ p.move = "off" /\ \A e \in Entries(p.buttons) : e.button = "left"
    BY <1>3, <1>4, <2>1
  <2>. QED
    BY <1>8, <1>9, <2>2 DEF p, here
<1>11. CASE ~here.menu
  <2>1. /\ \A e \in Entries(p.buttons) :
              \/ e \in Entries(here.buttons) /\ e.button # "left"
              \/ e.button = "left" /\ e.surface = here.surface[here.focus]
        /\ \E e \in Entries(p.buttons) : e.button = "left" /\ e.surface = here.surface[here.focus]
        /\ p.touch = (IF here.hasTouch /\ here.touch = "idle" THEN "inhibited" ELSE here.touch)
        /\ p.menu = (here.surface[here.focus] = "bar" /\ "left" # "left")
        /\ p.move = (IF here.surface[here.focus] = "title" /\ "left" = "left" /\ here.move = "off"
                     THEN "armed" ELSE here.move)
    BY <1>7, <1>11 DEF PressedTo
  <2>2. ~p.menu /\ p.touch = "held" /\ \A e \in Entries(p.buttons) : e.button = "left"
    BY <1>3, <1>4, <2>1
  <2>3. p.move = "off" \/ (p.surface[p.focus] = "title"
                            /\ \E e \in Entries(p.buttons) : e.button = "left" /\ e.surface = "title")
    BY <1>4, <1>9, <2>1
  <2>. QED
    BY <1>8, <1>9, <2>2, <2>3 DEF p, here
<1>. QED
  BY <1>8, <1>10, <1>11

LEMMA MouseTouchMotionStep ==
    ASSUME MInv(s, inside, held, given), NEW late \in BOOLEAN, NEW far \in BOOLEAN, NEW outside \in BOOLEAN,
           NEW binding \in Mouse!Bindings, Mouse!WlTouchMotion(late, far, outside, binding)
    PROVE  MInv(s', inside', held', given')
<1>. DEFINE here == Mouse!AsTouched(s)
            p == Mouse!Pressed(here, "left", binding)
            dragged == [p EXCEPT !.touch = "dragging"]
            after(x) == Mouse!Restored(Mouse!Moved(x, outside), s)
<1>1. /\ Mouse!TouchIsActive(s) /\ inside' = inside /\ held' = held /\ given' = given
      /\ s' = CASE s.touch = "held" /\ ~late /\ s.touched = "grid" ->
                     [s EXCEPT !.touch = IF far THEN "scrolling" ELSE @]
                [] s.touch = "held" /\ (late \/ s.touched # "grid") -> after(dragged)
                [] s.touch = "dragging" -> after(here)
                [] s.touch = "scrolling" -> s
  BY DEF Mouse!WlTouchMotion
<1>2. s \in Pointers /\ s.touch \in {"held", "dragging", "scrolling"} /\ s.move # "armed"
  BY <1>1, ActiveIs, ArmedIs DEF MInv
<1>3. ASSUME NEW y \in Pointers, s' = y, ByFinger(y), y.touch = "dragging", y.term = s.term,
             y.focus = s.focus, y.surface = s.surface
      PROVE  MInv(s', inside', held', given')
  <2>1. ~y.menu /\ y.hasTouch /\ y.move = "off"
    BY <1>3 DEF ByFinger
  <2>. QED
    BY <1>1, <1>3, <2>1 DEF MInv, Settled
<1>4. CASE s.touch = "held" /\ ~late /\ s.touched = "grid"
  <2>. DEFINE touch == IF far THEN "scrolling" ELSE "held"
              y == [s EXCEPT !.touch = touch]
  <2>1. s' = y
    BY <1>1, <1>2, <1>4 DEF Pointers
  <2>2. touch \in {"held", "scrolling"}
    OBVIOUS
  <2>6. touch \in {"idle", "inhibited", "held", "dragging", "scrolling"}
    BY <2>2
  <2>. HIDE DEF touch
  <2>3. y \in Pointers /\ Alike(s, y) /\ y.touch = touch /\ y.focus = s.focus /\ y.surface = s.surface
    BY <1>2, <2>6, TouchChanges
  <2>. HIDE DEF y
  <2>4. s.buttons = <<>> /\ DInv(s)
    BY <1>4 DEF MInv
  <2>5. DInv(y) /\ y.buttons = <<>> /\ Entries(y.buttons) = {}
    BY <2>3, <2>4, NoDrag, NoEntries DEF Alike, Pointers
  <2>. QED
    BY <1>1, <1>2, <1>4, <2>1, <2>2, <2>3, <2>5 DEF MInv, Alike, Settled
<1>5. CASE s.touch = "held" /\ (late \/ s.touched # "grid")
  <2>1. s' = after(dragged)
    BY <1>1, <1>5
  <2>2. /\ p \in Pointers /\ DInv(p) /\ p.focus = s.term /\ p.term = s.term /\ p.touched = s.touched
        /\ p.surface = [s.surface EXCEPT ![s.term] = s.touched]
        /\ p.hasTouch /\ ~p.menu /\ \A e \in Entries(p.buttons) : e.button = "left"
        /\ p.move = "off" \/ (p.surface[p.focus] = "title"
                               /\ \E e \in Entries(p.buttons) : e.button = "left" /\ e.surface = "title")
    BY <1>5, FingerPressed
  <2>. HIDE DEF p
  <2>3. /\ dragged \in Pointers /\ Alike(p, dragged) /\ dragged.touch = "dragging"
        /\ dragged.focus = p.focus /\ dragged.surface = p.surface
    BY <2>2, TouchChanges
  <2>. HIDE DEF dragged
  <2>4. DInv(dragged)
    BY <2>2, <2>3, SameDrag DEF Alike
  <2>5. dragged.move = "off" \/ (dragged.surface[dragged.focus] = "title" /\ dragged.buttons # <<>>)
    BY <2>2, <2>3, NoEntries DEF Alike, Pointers
  <2>. DEFINE y == after(dragged)
  <2>6. /\ y \in Pointers /\ ByFinger(y) /\ y.touch = "dragging" /\ y.term = s.term
        /\ y.focus = s.focus /\ y.surface = s.surface
    <3>1. /\ dragged.focus = s.term /\ dragged.term = s.term
          /\ dragged.surface = [s.surface EXCEPT ![s.term] = s.touched] /\ dragged.touched = s.touched
          /\ dragged.hasTouch /\ ~dragged.menu /\ \A e \in Entries(dragged.buttons) : e.button = "left"
      BY <2>2, <2>3 DEF Alike
    <3>. HIDE DEF p
    <3>2. dragged.touch = "dragging"
      BY <2>3
    <3>. QED
      BY <1>2, <2>4, <2>5, <3>1, <3>2, FingerMoved, ZenonT(30)
  <2>. HIDE DEF y
  <2>7. s' = y
    BY <2>1 DEF y
  <2>. QED
    BY <1>3, <2>6, <2>7
<1>6. CASE s.touch = "dragging"
  <2>1. s' = after(here)
    BY <1>1, <1>6
  <2>2. ByFinger(s)
    BY <1>6 DEF MInv
  <2>3. /\ here \in Pointers /\ Alike(s, here) /\ here.touch = s.touch /\ here.focus = s.term
        /\ here.surface = [s.surface EXCEPT ![s.term] = s.touched] /\ DInv(here)
    BY <1>2, <2>2, AsTouchedIs DEF ByFinger
  <2>. HIDE DEF here
  <2>4. /\ here.term = s.term /\ here.touched = s.touched /\ here.hasTouch /\ ~here.menu
        /\ here.move = "off" /\ \A e \in Entries(here.buttons) : e.button = "left"
    BY <2>2, <2>3 DEF ByFinger, Alike
  <2>. DEFINE y == after(here)
  <2>5. /\ y \in Pointers /\ ByFinger(y) /\ y.touch = "dragging" /\ y.term = s.term
        /\ y.focus = s.focus /\ y.surface = s.surface
    BY <1>2, <1>6, <2>3, <2>4, FingerMoved
  <2>. HIDE DEF y
  <2>6. s' = y
    BY <2>1 DEF y
  <2>. QED
    BY <1>3, <2>5, <2>6
<1>7. CASE s.touch = "scrolling"
  <2>1. s' = s
    BY <1>1, <1>7
  <2>. QED
    BY <1>1, <2>1 DEF MInv
<1>. QED
  BY <1>2, <1>4, <1>5, <1>6, <1>7

LEMMA MouseTouchUpStep ==
    ASSUME MInv(s, inside, held, given), NEW binding \in Mouse!Bindings, NEW tab \in Tabs,
           Mouse!WlTouchUp(binding, tab)
    PROVE  MInv(s', inside', held', given')
<1>. DEFINE here == Mouse!AsTouched(s)
            p == Mouse!Pressed(here, "left", binding)
            up == CASE s.touch = "held" -> Mouse!Released(p, "left", tab)
                    [] s.touch = "dragging" -> Mouse!Released(here, "left", tab)
                    [] s.touch = "scrolling" -> here
            r == Mouse!Restored(up, s)
            y == [r EXCEPT !.touch = "idle"]
<1>1. Mouse!TouchIsActive(s) /\ inside' = inside /\ held' = held /\ given' = given /\ s' = y
  BY DEF Mouse!WlTouchUp
<1>2. s \in Pointers /\ s.touch \in {"held", "dragging", "scrolling"} /\ s.move # "armed" /\ s.term \in Tabs
  BY <1>1, ActiveIs, ArmedIs DEF MInv, Pointers
<1>3. /\ here \in Pointers /\ Alike(s, here) /\ here.touch = s.touch /\ here.focus = s.term
      /\ here.surface = [s.surface EXCEPT ![s.term] = s.touched] /\ here.surface[s.term] = s.touched
  BY <1>2, AsTouchedIs
<1>4. s.hasTouch /\ "left" \in AnyButtons
  BY <1>1 DEF Mouse!TouchIsActive, AnyButtons
<1>. HIDE DEF here
\* What is true of up, which the finger's release leaves behind.
<1>. DEFINE Left(x) == /\ x \in Pointers /\ x.buttons = <<>> /\ Quiet(x) /\ x.move = "off" /\ x.hasTouch
                       /\ \/ x.term = s.term /\ x.surface = here.surface
                          \/ \E u \in Tabs : /\ x.term = u /\ s.touched = "bar"
                                             /\ x.surface = [here.surface EXCEPT ![u] = "bar"]
<1>5. ASSUME NEW x \in Pointers, DInv(x), x.focus = s.term, x.term = s.term, x.surface = here.surface, x.hasTouch,
             ~x.menu, \A e \in Entries(x.buttons) : e.button = "left",
             x.move = "off" \/ \E e \in Entries(x.buttons) : e.button = "left" /\ e.surface = "title"
      PROVE  Left(Mouse!Released(x, "left", tab))
  <2>. DEFINE z == Mouse!Released(x, "left", tab)
  <2>1. ReleasedTo(x, z, "left")
    BY <1>2, <1>4, <1>5, MouseReleasedOk DEF Settled
  <2>. HIDE DEF z
  <2>2. /\ DInv(z) /\ z \in Pointers
        /\ Entries(z.buttons) = {e \in Entries(x.buttons) : e.button # "left"}
        /\ z.move = (IF \E e \in Entries(x.buttons) : e.button = "left" /\ e.surface = "title" THEN "off" ELSE x.move)
    BY <1>5, <2>1 DEF ReleasedTo
  <2>3. Entries(z.buttons) = {} /\ z.move = "off"
    BY <1>5, <2>2
  <2>4. z.buttons = <<>> /\ Quiet(z)
    BY <2>2, <2>3, NoEntries, QuietIs DEF Pointers
  <2>5. Kept(x, z) \/ \E u \in Tabs :
              /\ x.surface[x.focus] = "bar" /\ z.term = u
              /\ z.surface = [x.surface EXCEPT ![u] = x.surface[x.term]] /\ z.hasTouch = x.hasTouch
    BY <1>5, <2>1 DEF ReleasedTo
  <2>6. CASE Kept(x, z)
    BY <1>5, <2>2, <2>3, <2>4, <2>6 DEF Kept, z
  <2>7. ASSUME NEW u \in Tabs, x.surface[x.focus] = "bar", z.term = u,
               z.surface = [x.surface EXCEPT ![u] = x.surface[x.term]], z.hasTouch = x.hasTouch
        PROVE  Left(z)
    <3>1. s.touched = "bar" /\ x.surface[x.term] = "bar" /\ z.hasTouch
      BY <1>3, <1>5, <2>7
    <3>2. z.surface = [here.surface EXCEPT ![u] = "bar"]
      BY <1>5, <2>7, <3>1
    <3>. QED
      BY <2>2, <2>3, <2>4, <2>7, <3>1, <3>2
  <2>. QED
    BY <2>5, <2>6, <2>7 DEF z
<1>6. ASSUME s.touch = "held" PROVE Left(up)
  <2>1. /\ p \in Pointers /\ DInv(p) /\ p.focus = s.term /\ p.term = s.term /\ p.touched = s.touched
        /\ p.surface = here.surface
        /\ p.hasTouch /\ ~p.menu /\ \A e \in Entries(p.buttons) : e.button = "left"
        /\ p.move = "off" \/ \E e \in Entries(p.buttons) : e.button = "left" /\ e.surface = "title"
    BY <1>3, <1>6, FingerPressed DEF here
  <2>. HIDE DEF p
  <2>2. Left(Mouse!Released(p, "left", tab))
    BY <1>5, <2>1
  <2>3. up = Mouse!Released(p, "left", tab)
    BY <1>6
  <2>. HIDE DEF up, Left
  <2>. QED
    BY <2>2, <2>3
<1>7. ASSUME s.touch = "dragging" PROVE Left(up)
  <2>1. ByFinger(s)
    BY <1>7 DEF MInv
  <2>2. /\ DInv(here) /\ here.term = s.term /\ here.hasTouch /\ ~here.menu
        /\ here.move = "off" /\ \A e \in Entries(here.buttons) : e.button = "left"
    BY <1>3, <2>1 DEF ByFinger, Alike, here
  <2>3. Left(Mouse!Released(here, "left", tab))
    BY <1>3, <1>5, <2>2
  <2>4. up = Mouse!Released(here, "left", tab)
    BY <1>7
  <2>. HIDE DEF up, Left
  <2>. QED
    BY <2>3, <2>4
<1>8. ASSUME s.touch = "scrolling" PROVE Left(up)
  <2>1. s.buttons = <<>>
    BY <1>8 DEF MInv
  <2>2. Quiet(s) /\ s.move = "off"
    BY <1>2, <2>1, Resting DEF Pointers
  <2>3. up = here
    BY <1>8
  <2>. HIDE DEF up
  <2>4. here.buttons = <<>> /\ Quiet(here) /\ here.move = "off" /\ here.hasTouch /\ here.term = s.term
    BY <1>3, <1>4, <2>1, <2>2 DEF Alike, Quiet
  <2>. QED
    BY <1>3, <2>3, <2>4
<1>9. Left(up)
  <2>. HIDE DEF Left, up
  <2>. QED
    BY <1>2, <1>6, <1>7, <1>8
<1>. HIDE DEF up
<1>10. /\ r \in Pointers /\ Alike(up, r) /\ r.focus = s.focus
       /\ r.surface = [up.surface EXCEPT ![s.term] = s.surface[s.term]]
  BY <1>2, <1>9, RestoredIs
<1>. HIDE DEF r
<1>11. /\ y \in Pointers /\ Alike(r, y) /\ y.touch = "idle" /\ y.focus = r.focus /\ y.surface = r.surface
  BY <1>10, TouchChanges
<1>. HIDE DEF y
<1>12. y.buttons = <<>> /\ Quiet(y) /\ y.move = "off" /\ y.hasTouch /\ y.term = up.term
  BY <1>9, <1>10, <1>11 DEF Alike, Quiet
<1>13. DInv(y) /\ Entries(y.buttons) = {}
  BY <1>11, <1>12, QuietOk, NoEntries DEF Pointers
<1>14. /\ y.term = s.term \/ y.surface[y.term] = "bar"
       /\ y.surface[s.term] = s.surface[s.term]
       /\ \A u \in Tabs : y.surface[u] = s.surface[u] \/ y.surface[u] = "bar"
       /\ y.focus = s.focus /\ y.term \in Tabs
  <2>1. s.surface \in [Tabs -> SurfacesOrNone] /\ up.surface \in [Tabs -> SurfacesOrNone] /\ up.term \in Tabs
        /\ here.surface \in [Tabs -> SurfacesOrNone]
    BY <1>2, <1>3, <1>9 DEF Pointers
  <2>2. \A u \in Tabs : here.surface[u] = IF u = s.term THEN s.touched ELSE s.surface[u]
    BY <1>3, <2>1
  <2>3. \A u \in Tabs : y.surface[u] = IF u = s.term THEN s.surface[u] ELSE up.surface[u]
    BY <1>10, <1>11, <2>1
  <2>4. CASE up.term = s.term /\ up.surface = here.surface
    BY <1>2, <1>10, <1>11, <1>12, <2>2, <2>3, <2>4
  <2>5. ASSUME NEW u \in Tabs, up.term = u, s.touched = "bar", up.surface = [here.surface EXCEPT ![u] = "bar"]
        PROVE  /\ y.term = s.term \/ y.surface[y.term] = "bar"
               /\ y.surface[s.term] = s.surface[s.term]
               /\ \A w \in Tabs : y.surface[w] = s.surface[w] \/ y.surface[w] = "bar"
               /\ y.focus = s.focus /\ y.term \in Tabs
    <3>1. \A w \in Tabs : up.surface[w] = IF w = u THEN "bar" ELSE here.surface[w]
      BY <2>1, <2>5
    <3>. QED
      BY <1>2, <1>10, <1>11, <1>12, <2>2, <2>3, <2>5, <3>1
  <2>. QED
    BY <1>9, <2>4, <2>5
<1>15. y.focus # "none" => Settled(y)
  BY <1>14 DEF MInv, Settled
<1>16. given => y.surface[y.focus] # "grid"
  <2>. SUFFICES ASSUME given PROVE y.surface[y.focus] # "grid"
    OBVIOUS
  <2>1. s.focus \in Tabs /\ s.surface[s.focus] # "grid"
    BY <1>2 DEF MInv, Pointers
  <2>. QED
    BY <1>14, <2>1
<1>. QED
  BY <1>1, <1>11, <1>12, <1>13, <1>14, <1>15, <1>16 DEF MInv

\* Steps that leave alone where the pointer is, while no button is down
LEMMA RestsOk ==
    ASSUME NEW v, NEW ins, NEW hld, NEW gvn, MInv(v, ins, hld, gvn), v.buttons = <<>>,
           NEW y \in Pointers, y.buttons = <<>>, Quiet(y), y.touch # "dragging",
           ~y.hasTouch => y.touch = "inhibited", y.move = v.move,
           y.focus = v.focus, y.surface = v.surface, y.term = v.term
    PROVE  MInv(y, ins, hld, gvn)
<1>1. v.move # "armed"
  BY Resting
<1>2. DInv(y) /\ Entries(y.buttons) = {}
  BY QuietOk, NoEntries DEF Pointers
<1>. QED
  BY <1>1, <1>2 DEF MInv, Settled

LEMMA MouseTouchDownStep ==
    ASSUME MInv(s, inside, held, given), NEW surface \in Mouse!Surfaces, Mouse!WlTouchDown(surface)
    PROVE  MInv(s', inside', held', given')
<1>. DEFINE y == [s EXCEPT !.touch = "held", !.touched = surface]
<1>1. s.hasTouch /\ s.touch = "idle" /\ s' = y /\ inside' = inside /\ held' = held /\ given' = given
  BY DEF Mouse!WlTouchDown
<1>2. s.buttons = <<>>
  BY <1>1 DEF MInv
<1>3. s \in Pointers /\ Quiet(s) /\ surface \in SurfacesOrNone
  BY <1>2, Resting DEF SurfacesOrNone
<1>4. /\ y \in Pointers /\ y.buttons = s.buttons /\ y.touch = "held" /\ y.hasTouch = s.hasTouch /\ y.move = s.move
      /\ y.focus = s.focus /\ y.surface = s.surface /\ y.term = s.term
      /\ y.ongoing = s.ongoing /\ y.scroll = s.scroll /\ y.told = s.told
  BY <1>3 DEF Pointers
<1>. HIDE DEF y
<1>5. Quiet(y)
  BY <1>3, <1>4 DEF Quiet
<1>6. MInv(y, inside, held, given)
  BY <1>1, <1>2, <1>4, <1>5, RestsOk
<1>. QED
  BY <1>1, <1>6

LEMMA MouseTouchCancelStep ==
    ASSUME MInv(s, inside, held, given), Admitted = {}, Mouse!WlTouchCancel
    PROVE  MInv(s', inside', held', given')
<1>. DEFINE y == [s EXCEPT !.touch = "idle"]
<1>1. /\ s.hasTouch /\ s.touch \notin {"inhibited", "dragging"} /\ s' = y
      /\ inside' = inside /\ held' = held /\ given' = given
  BY DEF Mouse!WlTouchCancel
<1>2. s.buttons = <<>>
  BY <1>1 DEF MInv
<1>3. s \in Pointers /\ Quiet(s)
  BY <1>2, Resting
<1>4. y \in Pointers /\ Alike(s, y) /\ y.touch = "idle" /\ y.focus = s.focus /\ y.surface = s.surface
  BY <1>3, TouchChanges
<1>. HIDE DEF y
<1>5. y.buttons = <<>> /\ Quiet(y) /\ y.hasTouch /\ y.move = s.move /\ y.term = s.term
  BY <1>1, <1>2, <1>3, <1>4 DEF Alike, Quiet
<1>6. MInv(y, inside, held, given)
  BY <1>2, <1>4, <1>5, RestsOk
<1>. QED
  BY <1>1, <1>6

LEMMA MouseCapabilitiesStep ==
    ASSUME MInv(s, inside, held, given), Admitted = {}, NEW pointer \in BOOLEAN, NEW touch \in BOOLEAN,
           Mouse!SeatHandleCapabilities(pointer, touch)
    PROVE  MInv(s', inside', held', given')
<1>. DEFINE to == IF ~touch THEN "inhibited"
                  ELSE IF ~s.hasTouch \/ (s.hasPointer /\ ~pointer /\ s.touch = "inhibited")
                       THEN "idle" ELSE s.touch
            y == [s EXCEPT !.hasPointer = pointer, !.hasTouch = touch, !.touch = to]
<1>1. ~inside /\ s.buttons = <<>> /\ ~Mouse!TouchIsActive(s) /\ given' = given /\ inside' = (inside /\ pointer)
  BY DEF Mouse!SeatHandleCapabilities
<1>2. s' = [s EXCEPT !.hasPointer = pointer, !.hasTouch = touch,
                     !.touch = IF ~touch THEN "inhibited"
                               ELSE IF ~s.hasTouch \/ (s.hasPointer /\ ~pointer /\ @ = "inhibited")
                                    THEN "idle" ELSE @]
  BY DEF Mouse!SeatHandleCapabilities
<1>3. s \in Pointers /\ Quiet(s) /\ ~inside' /\ s.move # "armed"
  BY <1>1, Resting
<1>4. s' = y
  BY <1>2, <1>3 DEF Pointers
<1>5. to \in {"idle", "inhibited"} /\ (~touch => to = "inhibited")
  BY <1>1, ActiveIs
<1>. HIDE DEF to
<1>6. /\ y \in Pointers /\ y.buttons = s.buttons /\ y.touch = to /\ y.hasTouch = touch /\ y.move = s.move
      /\ y.focus = s.focus /\ y.surface = s.surface /\ y.term = s.term
      /\ y.ongoing = s.ongoing /\ y.scroll = s.scroll /\ y.told = s.told
  BY <1>3, <1>5 DEF Pointers
<1>. HIDE DEF y
<1>7. Quiet(y)
  BY <1>3, <1>6 DEF Quiet
<1>8. MInv(y, inside, held, given)
  BY <1>1, <1>5, <1>6, <1>7, RestsOk
<1>9. ~given
  BY <1>1 DEF MInv
<1>. QED
  BY <1>1, <1>3, <1>4, <1>6, <1>8, <1>9 DEF MInv

LEMMA MouseTabSwitchStep ==
    ASSUME MInv(s, inside, held, given), Admitted = {}, NEW t \in Tabs, Mouse!TabSwitch(t)
    PROVE  MInv(s', inside', held', given')
<1>. DEFINE f == IF s.focus = s.term THEN t ELSE s.focus
            g == [s.surface EXCEPT ![t] = s.surface[s.term]]
            y == [s EXCEPT !.term = t, !.surface = g, !.focus = f]
<1>1. /\ s.buttons = <<>> /\ ~Mouse!TouchIsActive(s)
      /\ s' = Mouse!SwitchTo(s, t) /\ inside' = inside /\ held' = held /\ given' = given
  BY DEF Mouse!TabSwitch, Mouse!InUse
<1>2. s \in Pointers /\ Quiet(s) /\ s.move # "armed"
  BY <1>1, Resting
<1>3. s.surface \in [Tabs -> SurfacesOrNone] /\ s.term \in Tabs /\ s.focus \in Tabs \cup {"none"}
  BY <1>2 DEF Pointers
<1>4. s' = y
  BY <1>1, <1>2 DEF Mouse!SwitchTo, Pointers
<1>5. /\ f \in Tabs \cup {"none"} /\ g \in [Tabs -> SurfacesOrNone] /\ (f = "none" <=> s.focus = "none")
      /\ \A u \in Tabs : g[u] = IF u = t THEN s.surface[s.term] ELSE s.surface[u]
  BY <1>3, InputAssumption
<1>6. f # "none" => (f # t => g[t] = "bar") /\ (g[f] = s.surface[s.focus] \/ g[f] = "bar")
  <2>. SUFFICES ASSUME f # "none" PROVE (f # t => g[t] = "bar") /\ (g[f] = s.surface[s.focus] \/ g[f] = "bar")
    OBVIOUS
  <2>1. s.focus # s.term => s.surface[s.term] = "bar"
    BY <1>5 DEF MInv, Settled
  <2>2. f \in Tabs
    BY <1>5
  <2>. QED
    BY <1>5, <2>1, <2>2
<1>. HIDE DEF f, g
<1>7. /\ y \in Pointers /\ y.buttons = s.buttons /\ y.touch = s.touch /\ y.hasTouch = s.hasTouch /\ y.move = s.move
      /\ y.focus = f /\ y.surface = g /\ y.term = t
      /\ y.ongoing = s.ongoing /\ y.scroll = s.scroll /\ y.told = s.told
  BY <1>2, <1>5 DEF Pointers
<1>. HIDE DEF y
<1>8. Quiet(y)
  BY <1>2, <1>7 DEF Quiet
<1>9. DInv(y) /\ Entries(y.buttons) = {}
  BY <1>1, <1>7, <1>8, QuietOk, NoEntries DEF Pointers
<1>10. s.touch # "dragging"
  BY <1>1, ActiveIs
<1>11. y.focus # "none" => Settled(y)
  BY <1>6, <1>7 DEF Settled
<1>12. inside => y.focus # "none"
  BY <1>5, <1>7 DEF MInv
<1>13. given => inside /\ "left" \in held /\ y.surface[y.focus] # "grid"
  <2>. SUFFICES ASSUME given PROVE inside /\ "left" \in held /\ y.surface[y.focus] # "grid"
    OBVIOUS
  <2>1. inside /\ "left" \in held /\ s.surface[s.focus] # "grid"
    BY DEF MInv
  <2>. QED
    BY <1>6, <1>7, <1>12, <2>1
<1>14. ~y.hasTouch => y.touch = "inhibited"
  BY <1>7 DEF MInv
<1>. QED
  BY <1>1, <1>2, <1>4, <1>7, <1>9, <1>10, <1>11, <1>12, <1>13, <1>14 DEF MInv

LEMMA MouseTrackStep ==
    ASSUME MInv(s, inside, held, given), Admitted = {}, NEW t \in Tabs, NEW on \in BOOLEAN, Mouse!Track(t, on)
    PROVE  MInv(s', inside', held', given')
<1>. DEFINE g == [s.tracking EXCEPT ![t] = on]
            p == [s.told EXCEPT ![t] = {}]
            y == [s EXCEPT !.tracking = g, !.told = p]
<1>1. /\ s.buttons = <<>> /\ ~Mouse!TouchIsActive(s)
      /\ s' = y /\ inside' = inside /\ held' = held /\ given' = given
  BY DEF Mouse!Track, Mouse!InUse
<1>2. s \in Pointers /\ Quiet(s)
  BY <1>1, Resting
<1>3. g \in [Tabs -> BOOLEAN] /\ p \in [Tabs -> SUBSET AnyButtons] /\ \A u \in Tabs : p[u] = {}
  BY <1>2 DEF Pointers, Quiet
<1>. HIDE DEF g, p
<1>4. /\ y \in Pointers /\ y.buttons = s.buttons /\ y.touch = s.touch /\ y.hasTouch = s.hasTouch /\ y.move = s.move
      /\ y.focus = s.focus /\ y.surface = s.surface /\ y.term = s.term
      /\ y.ongoing = s.ongoing /\ y.scroll = s.scroll /\ y.told = p
  BY <1>2, <1>3 DEF Pointers
<1>. HIDE DEF y
<1>5. Quiet(y)
  BY <1>2, <1>3, <1>4 DEF Quiet
<1>6. y.touch # "dragging" /\ (~y.hasTouch => y.touch = "inhibited")
  BY <1>1, <1>4, ActiveIs DEF MInv
<1>7. MInv(y, inside, held, given)
  BY <1>1, <1>4, <1>5, <1>6, RestsOk
<1>. QED
  BY <1>1, <1>7

LEMMA MouseOverrideStep ==
    ASSUME MInv(s, inside, held, given), Admitted = {}, Mouse!Override
    PROVE  MInv(s', inside', held', given')
<1>. DEFINE y == [s EXCEPT !.override = ~s.override]
<1>1. /\ s.buttons = <<>> /\ ~Mouse!TouchIsActive(s)
      /\ s' = [s EXCEPT !.override = ~@] /\ inside' = inside /\ held' = held /\ given' = given
  BY DEF Mouse!Override, Mouse!InUse
<1>2. s \in Pointers /\ Quiet(s)
  BY <1>1, Resting
<1>3. s' = y
  BY <1>1, <1>2 DEF Pointers
<1>4. /\ y \in Pointers /\ y.buttons = s.buttons /\ y.touch = s.touch /\ y.hasTouch = s.hasTouch /\ y.move = s.move
      /\ y.focus = s.focus /\ y.surface = s.surface /\ y.term = s.term
      /\ y.ongoing = s.ongoing /\ y.scroll = s.scroll /\ y.told = s.told
  BY <1>2 DEF Pointers
<1>. HIDE DEF y
<1>5. Quiet(y)
  BY <1>2, <1>4 DEF Quiet
<1>6. y.touch # "dragging" /\ (~y.hasTouch => y.touch = "inhibited")
  BY <1>1, <1>4, ActiveIs DEF MInv
<1>7. MInv(y, inside, held, given)
  BY <1>1, <1>4, <1>5, <1>6, RestsOk
<1>. QED
  BY <1>1, <1>3, <1>7

\* A selection ends before the button is up.
LEMMA LessDrag ==
    ASSUME NEW v, DInv(v), NEW y \in Pointers, y.buttons = v.buttons, y.told = v.told, y.tracking = v.tracking,
           y.override = v.override, y.focus = v.focus, y.surface[y.focus] = v.surface[v.focus],
           \A u \in Tabs : (y.ongoing[u] => v.ongoing[u]) /\ (y.scroll[u] => y.ongoing[u])
    PROVE  DInv(y)
<1>1. \A t \in Tabs : Mouse!Grabbed(y, t) = Mouse!Grabbed(v, t)
  BY DEF Mouse!Grabbed
<1>. QED
  BY <1>1 DEF DInv

LEMMA MouseCancelStep ==
    ASSUME MInv(s, inside, held, given), NEW t \in Tabs, Mouse!SelectionCancel(t)
    PROVE  MInv(s', inside', held', given')
<1>. DEFINE y == Mouse!SelectionEnds(s, t)
<1>1. s' = y /\ inside' = inside /\ held' = held /\ given' = given
  BY DEF Mouse!SelectionCancel
<1>2. s \in Pointers
  BY DEF MInv
<1>3. /\ y \in Pointers /\ Kept(s, y) /\ y.buttons = s.buttons /\ y.told = s.told
      /\ y.touch = s.touch /\ y.menu = s.menu /\ y.move = s.move
      /\ \A u \in Tabs :
            /\ y.ongoing[u] = (u # t /\ s.ongoing[u])
            /\ y.scroll[u] = (u # t /\ s.scroll[u])
  BY <1>2, EndsIs
<1>. HIDE DEF y
<1>4. y.touch # "dragging" => DInv(y)
  <2>. SUFFICES ASSUME y.touch # "dragging" PROVE DInv(y)
    OBVIOUS
  <2>1. DInv(s)
    BY <1>3 DEF MInv
  <2>2. \A u \in Tabs : (y.ongoing[u] => s.ongoing[u]) /\ (y.scroll[u] => y.ongoing[u])
    BY <1>3, <2>1 DEF DInv
  <2>. QED
    BY <1>3, <2>1, <2>2, LessDrag DEF Kept
<1>5. y.touch = "dragging" => ByFinger(y)
  <2>. SUFFICES ASSUME y.touch = "dragging" PROVE ByFinger(y)
    OBVIOUS
  <2>1. ByFinger(s)
    BY <1>3 DEF MInv
  <2>. DEFINE a == Mouse!AsTouched(s)
              b == Mouse!AsTouched(y)
  <2>2. /\ a \in Pointers /\ Alike(s, a) /\ a.focus = s.term /\ a.surface[a.focus] = s.touched /\ DInv(a)
    BY <1>2, <2>1, AsTouchedIs DEF ByFinger
  <2>3. /\ b \in Pointers /\ Alike(y, b) /\ b.focus = y.term /\ b.surface[b.focus] = y.touched
    BY <1>3, AsTouchedIs
  <2>. HIDE DEF a, b
  <2>4. \A u \in Tabs : (b.ongoing[u] => a.ongoing[u]) /\ (b.scroll[u] => b.ongoing[u])
    <3>1. \A u \in Tabs : a.scroll[u] => a.ongoing[u]
      BY <2>2 DEF DInv
    <3>. QED
      BY <1>3, <2>2, <2>3, <3>1 DEF Alike
  <2>5. /\ b.buttons = a.buttons /\ b.told = a.told /\ b.tracking = a.tracking /\ b.override = a.override
        /\ b.focus = a.focus /\ b.surface[b.focus] = a.surface[a.focus]
    BY <1>3, <2>2, <2>3 DEF Alike, Kept
  <2>6. DInv(b)
    BY <2>2, <2>3, <2>4, <2>5, LessDrag
  <2>. QED
    BY <1>3, <2>1, <2>6 DEF ByFinger, Kept, b
<1>6. /\ y.focus = s.focus /\ y.surface = s.surface /\ y.term = s.term /\ y.hasTouch = s.hasTouch
  BY <1>3 DEF Kept
<1>. QED
  BY <1>1, <1>3, <1>4, <1>5, <1>6 DEF MInv, Settled

LEMMA MouseInit == Mouse!Init => MInv(s, inside, held, given)
<1>. SUFFICES ASSUME Mouse!Init PROVE MInv(s, inside, held, given)
  OBVIOUS
<1>1. PICK t \in Tabs :
         s = [term |-> t, focus |-> "none", surface |-> [u \in Tabs |-> "none"], buttons |-> <<>>,
              touch |-> "idle", touched |-> "none", hasTouch |-> TRUE, hasPointer |-> TRUE, menu |-> FALSE,
              move |-> "off", ongoing |-> [u \in Tabs |-> FALSE], scroll |-> [u \in Tabs |-> FALSE],
              tracking |-> [u \in Tabs |-> FALSE], override |-> FALSE, told |-> [u \in Tabs |-> {}]]
  BY DEF Mouse!Init, Mouse!None
<1>2. ~inside /\ held = {} /\ ~given
  BY DEF Mouse!Init
<1>3. <<>> \in Seq(Trackers) /\ "none" \in SurfacesOrNone
  BY DEF SurfacesOrNone
<1>4. /\ s \in Pointers /\ s.buttons = <<>> /\ s.touch = "idle" /\ s.focus = "none" /\ s.hasTouch /\ s.move = "off"
  BY <1>1, <1>3 DEF Pointers
<1>5. Quiet(s)
  BY <1>1 DEF Quiet
<1>6. DInv(s) /\ Entries(s.buttons) = {}
  BY <1>4, <1>5, QuietOk, NoEntries DEF Pointers
<1>. QED
  BY <1>2, <1>4, <1>6 DEF MInv

LEMMA MouseStep ==
    ASSUME MInv(s, inside, held, given), Admitted = {}, Mouse!Next
    PROVE  MInv(s', inside', held', given')
<1>1. CASE \E surface \in Mouse!Surfaces : Mouse!WlPointerEnter(surface) \/ Mouse!WlTouchDown(surface)
  BY <1>1, MouseEnterStep, MouseTouchDownStep
<1>2. CASE Mouse!WlPointerLeave
  BY <1>2, MouseLeaveStep
<1>3. CASE Mouse!CompositorTakesPointer
  BY <1>3, MouseTakenStep
<1>4. CASE \E button \in Buttons, binding \in Mouse!Bindings : Mouse!WlPointerButtonPress(button, binding)
  BY <1>4, MousePressStep
<1>5. CASE \E button \in Buttons, tab \in Tabs : Mouse!WlPointerButtonRelease(button, tab)
  BY <1>5, MouseReleaseStep
<1>6. CASE \E outside \in BOOLEAN : Mouse!WlPointerMotion(outside)
  BY <1>6, MouseMotionStep
<1>7. CASE Mouse!FdmCsdMove
  BY <1>7, MouseCsdStep
<1>8. CASE \E late, far, outside \in BOOLEAN, binding \in Mouse!Bindings :
              Mouse!WlTouchMotion(late, far, outside, binding)
  BY <1>8, MouseTouchMotionStep
<1>9. CASE \E binding \in Mouse!Bindings, tab \in Tabs : Mouse!WlTouchUp(binding, tab)
  BY <1>9, MouseTouchUpStep
<1>10. CASE Mouse!WlTouchCancel
  BY <1>10, MouseTouchCancelStep
<1>11. CASE \E pointer, touch \in BOOLEAN : Mouse!SeatHandleCapabilities(pointer, touch)
  BY <1>11, MouseCapabilitiesStep
<1>12. CASE \E t \in Tabs : Mouse!TabSwitch(t) \/ Mouse!SelectionCancel(t)
  BY <1>12, MouseTabSwitchStep, MouseCancelStep
<1>13. CASE \E t \in Tabs, on \in BOOLEAN : Mouse!Track(t, on)
  BY <1>13, MouseTrackStep
<1>14. CASE Mouse!Override
  BY <1>14, MouseOverrideStep
<1>. QED
  BY <1>1, <1>2, <1>3, <1>4, <1>5, <1>6, <1>7, <1>8, <1>9, <1>10, <1>11, <1>12, <1>13, <1>14 DEF Mouse!Next

LEMMA MouseUnchanged ==
    ASSUME MInv(s, inside, held, given), UNCHANGED mouseVars
    PROVE  MInv(s', inside', held', given')
BY DEF mouseVars

LEMMA MouseDragsEnd == ASSUME MInv(s, inside, held, given) PROVE Mouse!DragsEnd
<1>1. s \in Pointers /\ s.buttons \in Seq(Trackers) /\ s.move # "stale"
  BY DEF MInv, Pointers
<1>2. DOMAIN s.buttons = 1 .. Len(s.buttons)
  BY <1>1, LenProperties
<1>3. \A t \in Tabs : /\ s.ongoing[t] => \E b \in Entries(s.buttons) : b.surface = "grid"
                      /\ s.scroll[t] => s.ongoing[t]
                      /\ \A k \in s.told[t] : \E b \in Entries(s.buttons) : b.button = k /\ b.send
  <2>1. CASE s.touch = "dragging"
    <3>1. DInv(Mouse!AsTouched(s)) /\ Alike(s, Mouse!AsTouched(s))
      BY <1>1, <2>1, AsTouchedIs DEF MInv, ByFinger
    <3>. DEFINE a == Mouse!AsTouched(s)
    <3>. HIDE DEF a
    <3>2. DInv(a) /\ a.buttons = s.buttons /\ a.ongoing = s.ongoing /\ a.scroll = s.scroll /\ a.told = s.told
      BY <3>1 DEF a, Alike
    <3>. QED
      BY <3>2 DEF DInv
  <2>2. CASE s.touch # "dragging"
    BY <2>2 DEF MInv, DInv
  <2>. QED
    BY <2>1, <2>2
<1>4. Mouse!DragsAreHeld
  <2>. DEFINE onGrid == {s.buttons[k].button : k \in {k \in DOMAIN s.buttons : s.buttons[k].surface = "grid"}}
              sent == {s.buttons[k].button : k \in {k \in DOMAIN s.buttons : s.buttons[k].send}}
  <2>1. \A k \in 1 .. Len(s.buttons) :
           /\ s.buttons[k].surface = "grid" => s.buttons[k].button \in onGrid
           /\ s.buttons[k].send => s.buttons[k].button \in sent
    BY <1>2
  <2>. HIDE DEF onGrid, sent
  <2>2. \A t \in Tabs : (s.ongoing[t] => onGrid # {}) /\ (s.scroll[t] => s.ongoing[t]) /\ s.told[t] \subseteq sent
    BY <1>3, <2>1 DEF Entries
  <2>. QED
    BY <2>2 DEF Mouse!DragsAreHeld, onGrid, sent
<1>5. ~inside /\ ~Mouse!TouchIsActive(s) => s.buttons = <<>>
  BY ActiveIs DEF MInv
<1>. QED
  BY <1>1, <1>4, <1>5 DEF Mouse!DragsEnd, Mouse!NothingIsLeftBehind

LEMMA TheOthers ==
    ASSUME MCNext
    PROVE  /\ part' = part
           /\ part = "pointer" => Mouse!Next
           /\ part = "keyboard" => Keyb!Next
BY DEF MCNext

\* Whatever windows, modes and shortcuts take a press, its release is not lost: no drag, button or
\* timer outlives the pointer or the finger that began it, no key repeats that is up, and no
\* application is told of half a key stroke, however the compositor's events, fingers, tabs and
\* applications interleave (input.c), when what is known to go wrong is left out as in
\* the run (Pointer's and Keyboard's Defects).
THEOREM PressesAreLetGo ==
    Admitted = {} => (MCSpec => []HeldInputIsLetGo)
<1>. DEFINE Inv == /\ part = "pointer" => MInv(s, inside, held, given)
                   /\ part = "keyboard" => KInv(Seat)
<1>. SUFFICES ASSUME Admitted = {} PROVE MCSpec => []HeldInputIsLetGo
  OBVIOUS
<1>1. MCInit => Inv
  BY MouseInit, KeysInit DEF MCInit
<1>2. Inv /\ [MCNext]_<<part, vars, mouseVars, keyVars, urlVars, clipVars>> => Inv'
  <2>. SUFFICES ASSUME Inv, [MCNext]_<<part, vars, mouseVars, keyVars, urlVars, clipVars>>
                PROVE  Inv'
    OBVIOUS
  <2>1. ASSUME part = "pointer" PROVE MInv(s', inside', held', given') /\ part' = part
    <3>1. CASE MCNext
      BY <2>1, <3>1, TheOthers, MouseStep
    <3>2. CASE UNCHANGED <<part, vars, mouseVars, keyVars, urlVars, clipVars>>
      BY <2>1, <3>2, MouseUnchanged
    <3>. QED
      BY <3>1, <3>2
  <2>2. ASSUME part = "keyboard" PROVE KInv(Seat)' /\ part' = part
    <3>1. CASE MCNext
      BY <2>2, <3>1, TheOthers, KeysStep
    <3>2. CASE UNCHANGED <<part, vars, mouseVars, keyVars, urlVars, clipVars>>
      BY <2>2, <3>2, KeysUnchanged
    <3>. QED
      BY <3>1, <3>2
  <2>3. part' = part
    BY TheOthers
  <2>. QED
    BY <2>1, <2>2, <2>3
<1>3. Inv => HeldInputIsLetGo
  BY MouseDragsEnd, KeysAreLetGo DEF HeldInputIsLetGo
<1>. QED
  BY <1>1, <1>2, <1>3, PTL DEF MCSpec

(***************************************************************************)
(* URL mode, and URLs that are hovered or clicked                          *)
(***************************************************************************)

Ranges == UNION {{screen.osc8[i] : i \in DOMAIN screen.osc8} \cup {screen.auto[i] : i \in DOMAIN screen.auto}
                 : screen \in Screens}
Alphabet == {Letters[i] : i \in DOMAIN Letters}
Words == Seq(Alphabet)
LabelsOf == [url : {r.url : r \in Ranges}, key : Words]

\* What is found on a screen, with hyperlinks
Found(screen) == Urls!UrlsCollect(screen, TRUE)

Views ==
    [shows : Screens, cols : {"wide", "narrow"}, urls : Seq(LabelsOf), keys : Words,
     launch : Launchers \cup {"none"}, action : {"none", "copy", "launch", "persistent"},
     ime : BOOLEAN, reenable : BOOLEAN, appIme : BOOLEAN, hover : SUBSET Ranges,
     tagged : SUBSET {"wide", "narrow"}, cache : SUBSET Seq(Ranges), lives : BOOLEAN]

\* No label begins that of another URL, and every URL has one.
GoodLabels(q) ==
    /\ \A i, j \in 1 .. Len(q) : q[i].key # <<>> /\ q[j].key # <<>> /\ Urls!StartsWith(q[i].key, q[j].key)
                                    => q[i].url = q[j].url
    /\ \A i \in 1 .. Len(q) : \E j \in 1 .. Len(q) : q[j].key # <<>> /\ q[j].url = q[i].url

\* What was typed begins a label, and there is more to type.
Typing(x) ==
    x.keys # <<>> => \E i \in 1 .. Len(x.urls) :
        x.urls[i].key # <<>> /\ Urls!StartsWith(x.urls[i].key, x.keys) /\ x.urls[i].key # x.keys

\* In URL mode the input method is off, and what it will be is remembered, as is what a URL is chosen for.
Ime(x) ==
    /\ x.urls = <<>> => x.ime = x.appIme /\ ~x.reenable
    /\ x.urls # <<>> => ~x.ime /\ x.reenable = x.appIme /\ x.action # "none"

\* What is hovered is what was last found, and is underlined where it is.
Hovering(x) ==
    /\ \A c \in x.cache : c = Found(x.shows)
    /\ x.cache = {} => x.hover = {}
    /\ \A u \in x.hover : /\ x.tagged = {x.cols}
                          /\ \E i \in 1 .. Len(Found(x.shows)) : Found(x.shows)[i] = u

VInv(x) == x \in Views /\ GoodLabels(x.urls) /\ Typing(x) /\ Ime(x) /\ Hovering(x)

\* A terminal that waits for a token lives, and its launcher is still the one that was chosen.
Waits(k) == k.tab \in Tabs /\ term[k.tab].lives /\ (k.launch = "own" \/ term[k.tab].launch = k.chosen)

UInv ==
    /\ labels \in [active : Tabs, labels : SUBSET (Tabs \X Nat)]
    /\ term \in [Tabs -> Views]
    /\ \A t \in Tabs : VInv(term[t])
    /\ labels.labels = {<<labels.active, i>> : i \in 1 .. Len(term[labels.active].urls)}
    /\ \A t \in Tabs : t # labels.active => term[t].urls = <<>>
    /\ term[labels.active].lives
    /\ \A k \in tokens : Waits(k)
    /\ opened = TRUE

\* What is computed one after another: its first value is given, and what follows each.
Follows(f, first, n, step) == f[0] = first /\ \A k \in 1 .. n : f[k] = step[<<k, f[k - 1]>>]

LEMMA OneByOne ==
    ASSUME NEW S, NEW first \in S, NEW n \in Nat, NEW step \in [(1 .. n) \X S -> S]
    PROVE  \E f \in [0 .. n -> S] : Follows(f, first, n, step)
<1>. DEFINE Upto(m) == \E f \in [0 .. m -> S] :
                           f[0] = first /\ \A k \in 1 .. m : f[k] = step[<<k, f[k - 1]>>]
            Have == {m \in Nat : m <= n => Upto(m)}
<1>1. 0 \in Have
  <2>. DEFINE f == [k \in 0 .. 0 |-> first]
  <2>1. f \in [0 .. 0 -> S] /\ f[0] = first /\ \A k \in 1 .. 0 : f[k] = step[<<k, f[k - 1]>>]
    OBVIOUS
  <2>. QED
    BY <2>1
<1>2. ASSUME NEW m \in Have PROVE m + 1 \in Have
  <2>. SUFFICES ASSUME m + 1 <= n PROVE Upto(m + 1)
    OBVIOUS
  <2>1. m \in Nat /\ m + 1 \in 1 .. n /\ m <= n /\ (m + 1) - 1 = m
    OBVIOUS
  <2>2. PICK f \in [0 .. m -> S] : f[0] = first /\ \A k \in 1 .. m : f[k] = step[<<k, f[k - 1]>>]
    BY <2>1
  <2>. DEFINE last == step[<<m + 1, f[m]>>]
              g == [k \in 0 .. m + 1 |-> IF k = m + 1 THEN last ELSE f[k]]
  <2>3. f[m] \in S /\ last \in S
    BY <2>1
  <2>. HIDE DEF last
  <2>4. g \in [0 .. m + 1 -> S] /\ g[0] = first /\ g[m + 1] = last /\ \A k \in 0 .. m : g[k] = f[k]
    BY <2>1, <2>2, <2>3
  <2>. HIDE DEF g
  <2>5. ASSUME NEW k \in 1 .. m + 1 PROVE g[k] = step[<<k, g[k - 1]>>]
    <3>1. CASE k = m + 1
      <4>1. g[k - 1] = f[m]
        BY <2>1, <2>4, <3>1
      <4>. QED
        BY <2>4, <3>1, <4>1 DEF last
    <3>2. CASE k \in 1 .. m
      <4>1. k \in 0 .. m /\ k - 1 \in 0 .. m
        BY <2>1, <3>2
      <4>. QED
        BY <2>2, <2>4, <3>2, <4>1
    <3>. QED
      BY <2>1, <3>1, <3>2
  <2>. QED
    BY <2>4, <2>5
<1>. HIDE DEF Have
<1>3. Have \subseteq Nat
  BY DEF Have
<1>4. n \in Have
  BY <1>1, <1>2, <1>3, Inductive
<1>. HIDE DEF Upto
<1>5. Upto(n)
  BY <1>4 DEF Have
<1>. QED
  BY <1>5 DEF Upto, Follows

LEMMA ScreensAre ==
    ASSUME NEW screen \in Screens
    PROVE  screen.osc8 \in Seq(Ranges) /\ screen.auto \in Seq(Ranges)
<1>1. /\ screen.osc8 \in Seq({screen.osc8[i] : i \in DOMAIN screen.osc8})
      /\ screen.auto \in Seq({screen.auto[i] : i \in DOMAIN screen.auto})
  BY UrlAssumption DEF InOrder
<1>2. /\ {screen.osc8[i] : i \in DOMAIN screen.osc8} \subseteq Ranges
      /\ {screen.auto[i] : i \in DOMAIN screen.auto} \subseteq Ranges
  <2>. DEFINE Of(x) == {x.osc8[i] : i \in DOMAIN x.osc8} \cup {x.auto[i] : i \in DOMAIN x.auto}
  <2>1. Ranges = UNION {Of(x) : x \in Screens}
    BY DEF Ranges
  <2>2. /\ {screen.osc8[i] : i \in DOMAIN screen.osc8} \subseteq Of(screen)
        /\ {screen.auto[i] : i \in DOMAIN screen.auto} \subseteq Of(screen)
    OBVIOUS
  <2>. HIDE DEF Of
  <2>3. Of(screen) \subseteq Ranges
    BY <2>1
  <2>. QED
    BY <2>2, <2>3
<1>. QED
  BY <1>1, <1>2, SeqMonotonic

\* urls_collect(): what is found is a list of what is on the screen.
LEMMA CollectIs ==
    ASSUME NEW screen \in Screens, NEW osc8 \in BOOLEAN
    PROVE  Urls!UrlsCollect(screen, osc8) \in Seq(Ranges)
<1>. DEFINE links == IF osc8 THEN screen.osc8 ELSE <<>>
            auto == screen.auto
            n == Len(auto)
            Taken1(k) == \E i \in 1 .. Len(links) : Urls!Overlap(links[i], auto[k])
            After(k, q) == IF Taken1(k) THEN q ELSE Append(q, auto[k])
            Is(f) == f = [k \in 0 .. n |-> IF k = 0 THEN <<>>
                                           ELSE IF Taken1(k) THEN f[k - 1] ELSE Append(f[k - 1], auto[k])]
            kept == CHOOSE f : Is(f)
<1>1. links \in Seq(Ranges) /\ auto \in Seq(Ranges) /\ n \in Nat /\ \A k \in 1 .. n : auto[k] \in Ranges
  <2>1. auto \in Seq(Ranges) /\ links \in Seq(Ranges)
    BY ScreensAre, EmptySeq
  <2>. QED
    BY <2>1, LenProperties, ElementOfSeq
<1>2. Urls!UrlsCollect(screen, osc8) = links \o kept[n]
  BY Zenon DEF Urls!UrlsCollect
<1>. HIDE DEF links, auto
<1>3. \A k \in 1 .. n, q \in Seq(Ranges) : After(k, q) \in Seq(Ranges)
  BY <1>1, AppendProperties
<1>4. \E f : Is(f)
  <2>. DEFINE step == [p \in (1 .. n) \X Seq(Ranges) |-> After(p[1], p[2])]
  <2>1. \A p \in (1 .. n) \X Seq(Ranges) : p[1] \in 1 .. n /\ p[2] \in Seq(Ranges)
    OBVIOUS
  <2>. HIDE DEF Taken1
  <2>2. step \in [(1 .. n) \X Seq(Ranges) -> Seq(Ranges)]
    <3>. HIDE DEF After
    <3>. QED
      BY <1>3, <2>1
  <2>3. \A k \in 1 .. n, q \in Seq(Ranges) : step[<<k, q>>] = After(k, q)
    OBVIOUS
  <2>. HIDE DEF step
  <2>4. <<>> \in Seq(Ranges)
    BY EmptySeq
  <2>5. PICK f \in [0 .. n -> Seq(Ranges)] : f[0] = <<>> /\ \A k \in 1 .. n : f[k] = step[<<k, f[k - 1]>>]
    <3>. DEFINE S == Seq(Ranges)
                none == <<>>
    <3>1. none \in S /\ n \in Nat /\ step \in [(1 .. n) \X S -> S]
      BY <1>1, <2>2, <2>4
    <3>. HIDE DEF n, S, none
    <3>2. \E f \in [0 .. n -> S] : Follows(f, none, n, step)
      BY <3>1, OneByOne, Zenon
    <3>. QED
      BY <3>2 DEF S, none, Follows
  <2>6. \A k \in 1 .. n : k - 1 \in 0 .. n /\ k \in 0 .. n /\ k # 0
    BY <1>1
  <2>7. \A k \in 1 .. n : f[k - 1] \in Seq(Ranges)
    BY <2>6
  <2>8. \A k \in 1 .. n : f[k] = After(k, f[k - 1])
    BY <2>3, <2>5, <2>7
  <2>9. \A k \in 0 .. n : k = 0 \/ k \in 1 .. n
    BY <1>1
  <2>10. \A k \in 0 .. n : f[k] = IF k = 0 THEN <<>> ELSE After(k, f[k - 1])
    BY <2>5, <2>8, <2>9
  <2>11. Is(f)
    BY <2>10
  <2>. QED
    BY <2>11
<1>5. Is(kept)
  BY <1>4, Zenon
<1>. HIDE DEF kept
<1>. DEFINE Have == {k \in Nat : k <= n => kept[k] \in Seq(Ranges)}
<1>6. 0 \in Have
  <2>1. 0 \in 0 .. n
    BY <1>1
  <2>2. kept[0] = <<>>
    BY <1>5, <2>1
  <2>. QED
    BY <2>2, EmptySeq
<1>7. ASSUME NEW k \in Have PROVE k + 1 \in Have
  <2>. SUFFICES ASSUME k + 1 <= n PROVE kept[k + 1] \in Seq(Ranges)
    OBVIOUS
  <2>1. k + 1 \in 0 .. n /\ k + 1 \in 1 .. n /\ (k + 1) - 1 = k /\ k + 1 # 0
    BY <1>1
  <2>2. kept[k] \in Seq(Ranges)
    BY <1>1
  <2>. HIDE DEF Taken1
  <2>3. kept[k + 1] = After(k + 1, kept[k])
    BY <1>5, <2>1
  <2>. QED
    BY <1>3, <2>1, <2>2, <2>3
<1>. HIDE DEF Have
<1>8. Have \subseteq Nat
  BY DEF Have
<1>9. n \in Have
  BY <1>1, <1>6, <1>7, <1>8, Inductive
<1>10. kept[n] \in Seq(Ranges)
  BY <1>1, <1>9 DEF Have
<1>. QED
  BY <1>1, <1>2, <1>10, ConcatProperties

\* One word begins with another, letter for letter.
Starts(a, b) == Len(b) <= Len(a) /\ \A i \in 1 .. Len(b) : a[i] = b[i]

LEMMA StartsIs ==
    ASSUME NEW a \in Words, NEW b \in Words
    PROVE  Urls!StartsWith(a, b) <=> Starts(a, b)
<1>1. Len(a) \in Nat /\ Len(b) \in Nat /\ \A i \in 1 .. Len(a) : a[i] \in Alphabet
  BY LenProperties, ElementOfSeq DEF Words
<1>2. CASE ~(Len(b) <= Len(a))
  BY <1>1, <1>2 DEF Urls!StartsWith, Starts
<1>3. CASE Len(b) <= Len(a)
  <2>. DEFINE c == SubSeq(a, 1, Len(b))
  <2>1. \A i \in 1 .. Len(b) : a[i] \in Alphabet
    BY <1>1, <1>3
  <2>2. /\ c \in Seq(Alphabet) /\ Len(c) = IF 1 <= Len(b) THEN Len(b) - 1 + 1 ELSE 0
        /\ \A i \in 1 .. Len(b) - 1 + 1 : c[i] = a[1 + i - 1]
    BY <1>1, <2>1, SubSeqProperties
  <2>3. Len(c) = Len(b) /\ \A i \in 1 .. Len(b) : c[i] = a[i]
    BY <1>1, <2>2
  <2>. HIDE DEF c
  <2>4. (\A i \in 1 .. Len(b) : a[i] = b[i]) => c = b
    <3>. SUFFICES ASSUME \A i \in 1 .. Len(b) : a[i] = b[i] PROVE c = b
      OBVIOUS
    <3>1. \A i \in 1 .. Len(c) : c[i] = b[i]
      BY <2>3
    <3>. QED
      BY <2>2, <2>3, <3>1, SeqEqual DEF Words
  <2>5. c = b => \A i \in 1 .. Len(b) : a[i] = b[i]
    BY <2>3
  <2>. QED
    BY <1>1, <1>3, <2>4, <2>5 DEF Urls!StartsWith, Starts, c
<1>. QED
  BY <1>2, <1>3

\* Leaves of a tree: none of the words begins with another.
Tree(q) ==
    /\ q \in Seq(Words) /\ q # <<>>
    /\ \A i \in 1 .. Len(q) : q[i] # <<>>
    /\ \A i, j \in 1 .. Len(q) : Starts(q[i], q[j]) => i = j

Extended(word) == [i \in 1 .. Len(Letters) |-> Append(word, Letters[i])]

LEMMA LettersAre ==
    /\ Letters \in Words /\ Len(Letters) \in Nat /\ Len(Letters) >= 2
    /\ \A i \in 1 .. Len(Letters) : Letters[i] \in Alphabet
    /\ \A i, j \in 1 .. Len(Letters) : Letters[i] = Letters[j] => i = j
<1>1. Letters \in Seq(Alphabet)
  BY UrlAssumption DEF InOrder, Alphabet
<1>. QED
  BY <1>1, UrlAssumption, LenProperties, ElementOfSeq DEF Words

LEMMA ExtendedIs ==
    ASSUME NEW word \in Words
    PROVE  /\ Extended(word) \in Seq(Words) /\ Len(Extended(word)) = Len(Letters) /\ Len(word) \in Nat
           /\ \A i \in 1 .. Len(Letters) :
                /\ Extended(word)[i] \in Words /\ Len(Extended(word)[i]) = Len(word) + 1
                /\ \A k \in 1 .. Len(word) : Extended(word)[i][k] = word[k]
                /\ Extended(word)[i][Len(word) + 1] = Letters[i]
<1>1. \A i \in 1 .. Len(Letters) : Append(word, Letters[i]) \in Words
  BY LettersAre, AppendProperties DEF Words
<1>2. Extended(word) \in Seq(Words) /\ Len(Extended(word)) = Len(Letters)
  BY <1>1, LettersAre DEF Extended
<1>3. \A i \in 1 .. Len(Letters) : Extended(word)[i] = Append(word, Letters[i])
  BY DEF Extended
<1>4. Len(word) \in Nat
  BY LenProperties DEF Words
<1>5. ASSUME NEW i \in 1 .. Len(Letters)
      PROVE  /\ Len(Append(word, Letters[i])) = Len(word) + 1
             /\ \A k \in 1 .. Len(word) : Append(word, Letters[i])[k] = word[k]
             /\ Append(word, Letters[i])[Len(word) + 1] = Letters[i]
  BY LettersAre, AppendProperties DEF Words
<1>. QED
  BY <1>1, <1>2, <1>3, <1>4, <1>5

\* The tree grows: its first leaf gives way to as many as there are letters.
LEMMA TreeGrows ==
    ASSUME NEW q, Tree(q)
    PROVE  /\ Tree(Tail(q) \o Extended(Head(q)))
           /\ Len(q) \in Nat /\ Len(Tail(q) \o Extended(Head(q))) >= Len(q) + 1
<1>. DEFINE head == Head(q)
            rest == Tail(q)
            m == Len(rest)
            new == Extended(head)
            all == rest \o new
<1>1. /\ q \in Seq(Words) /\ q # <<>> /\ Len(q) \in Nat \ {0} /\ rest \in Seq(Words) /\ m = Len(q) - 1
      /\ head = q[1] /\ head \in Words /\ \A i \in 1 .. m : i + 1 \in 1 .. Len(q) /\ rest[i] = q[i + 1]
  BY TailIs DEF Tree
<1>2. /\ new \in Seq(Words) /\ Len(new) = Len(Letters) /\ Len(head) \in Nat
      /\ \A i \in 1 .. Len(Letters) :
           /\ new[i] \in Words /\ Len(new[i]) = Len(head) + 1
           /\ \A k \in 1 .. Len(head) : new[i][k] = head[k]
           /\ new[i][Len(head) + 1] = Letters[i]
  BY <1>1, ExtendedIs
<1>. HIDE DEF head, rest, new
<1>3. /\ all \in Seq(Words) /\ Len(all) = m + Len(Letters)
      /\ \A i \in 1 .. m : all[i] = rest[i]
      /\ \A i \in 1 .. Len(Letters) : all[m + i] = new[i]
  <2>1. /\ all \in Seq(Words) /\ Len(all) = Len(rest) + Len(new)
        /\ \A i \in 1 .. Len(rest) : all[i] = rest[i]
        /\ \A k \in 1 .. Len(new) : all[Len(rest) + k] = new[k]
    <3>1. rest \in Seq(Words) /\ new \in Seq(Words)
      BY <1>1, <1>2
    <3>. QED
      BY <3>1, AppendIs
  <2>. HIDE DEF all
  <2>. QED
    BY <1>2, <2>1
<1>. HIDE DEF all
<1>4. Len(all) >= Len(q) + 1
  BY <1>1, <1>3, LettersAre
<1>5. all # <<>>
  BY <1>1, <1>3, <1>4, EmptySeq
<1>6. \A i \in 1 .. Len(all) : \/ i \in 1 .. m /\ all[i] = q[i + 1] /\ i + 1 \in 1 .. Len(q) /\ i + 1 # 1
                               \/ i - m \in 1 .. Len(Letters) /\ all[i] = new[i - m] /\ i = m + (i - m)
  BY <1>1, <1>3, LettersAre
<1>7. \A i \in 1 .. Len(q) : q[i] \in Words /\ Len(q[i]) \in Nat /\ Len(q[i]) # 0
  <2>1. \A i \in 1 .. Len(q) : q[i] \in Words /\ q[i] # <<>>
    BY <1>1, ElementOfSeq DEF Tree
  <2>. QED
    BY <2>1, EmptySeq DEF Words
<1>8. \A i \in 1 .. Len(all) : all[i] # <<>>
  <2>1. \A i \in 1 .. Len(Letters) : Len(new[i]) # 0
    BY <1>2
  <2>2. \A i \in 1 .. Len(all) : Len(all[i]) # 0
    BY <1>6, <1>7, <2>1
  <2>. QED
    BY <2>2, EmptySeq
<1>9. ASSUME NEW i \in 1 .. Len(all), NEW j \in 1 .. Len(all), Starts(all[i], all[j]) PROVE i = j
  <2>1. \A a, b \in 1 .. Len(q) : Starts(q[a], q[b]) => a = b
    BY DEF Tree
  <2>2. 1 \in 1 .. Len(q) /\ head = q[1] /\ Len(head) # 0
    BY <1>1, <1>7
  <2>. DEFINE Old(k) == k \in 1 .. m /\ all[k] = q[k + 1] /\ k + 1 \in 1 .. Len(q) /\ k + 1 # 1
              New(k) == k - m \in 1 .. Len(Letters) /\ all[k] = new[k - m] /\ k = m + (k - m)
  <2>3. ASSUME Old(i), Old(j) PROVE i = j
    BY <1>9, <2>1, <2>3
  <2>4. ASSUME Old(i), New(j) PROVE FALSE
    <3>1. Starts(q[i + 1], new[j - m])
      BY <1>9, <2>4
    <3>2. Starts(q[i + 1], head)
      BY SMTT(30), <1>2, <1>7, <2>4, <3>1 DEF Starts
    <3>. QED
      BY <2>1, <2>2, <2>4, <3>2
  <2>5. ASSUME New(i), Old(j) PROVE FALSE
    <3>1. Starts(new[i - m], q[j + 1])
      BY <1>9, <2>5
    <3>2. Starts(head, q[j + 1]) \/ Starts(q[j + 1], head)
      <4>. DEFINE old == q[j + 1]
                  leaf == new[i - m]
      <4>1. /\ Len(old) \in Nat /\ Len(leaf) = Len(head) + 1
            /\ \A k \in 1 .. Len(head) : leaf[k] = head[k]
        BY <1>2, <1>7, <2>5
      <4>. HIDE DEF old, leaf
      <4>4. Len(old) <= Len(leaf) /\ \A k \in 1 .. Len(old) : leaf[k] = old[k]
        BY <3>1 DEF Starts, old, leaf
      <4>2. CASE Len(old) <= Len(head)
        <5>1. Starts(head, old)
          BY <1>2, <4>1, <4>2, <4>4 DEF Starts
        <5>. QED
          BY <5>1 DEF old
      <4>3. CASE Len(old) = Len(head) + 1
        <5>1. Starts(old, head)
          BY <1>2, <4>1, <4>3, <4>4 DEF Starts
        <5>. QED
          BY <5>1 DEF old
      <4>. QED
        BY <1>2, <4>1, <4>2, <4>3, <4>4
    <3>. QED
      BY <2>1, <2>2, <2>5, <3>2
  <2>6. ASSUME New(i), New(j) PROVE i = j
    <3>1. Starts(new[i - m], new[j - m])
      BY <1>9, <2>6
    <3>2. Len(head) + 1 \in 1 .. Len(new[j - m])
      BY <1>2, <2>6
    <3>3. new[i - m][Len(head) + 1] = new[j - m][Len(head) + 1]
      BY <3>1, <3>2 DEF Starts
    <3>4. Letters[i - m] = Letters[j - m]
      BY <1>2, <2>6, <3>3
    <3>5. i - m = j - m
      BY <2>6, <3>4, LettersAre
    <3>. QED
      BY <2>6, <3>5
  <2>7. (Old(i) \/ New(i)) /\ (Old(j) \/ New(j))
    BY <1>6
  <2>. HIDE DEF Old, New
  <2>. QED
    BY <2>3, <2>4, <2>5, <2>6, <2>7
<1>10. Tree(all)
  BY <1>3, <1>5, <1>8, <1>9 DEF Tree
<1>. QED
  BY <1>1, <1>4, <1>10 DEF all, rest, new, head

FirstLeaves == [i \in 1 .. Len(Letters) |-> <<Letters[i]>>]

LEMMA FirstLeavesAre == Tree(FirstLeaves) /\ Len(FirstLeaves) = Len(Letters)
<1>1. ASSUME NEW i \in 1 .. Len(Letters)
      PROVE  FirstLeaves[i] \in Words /\ Len(FirstLeaves[i]) = 1 /\ FirstLeaves[i][1] = Letters[i]
  BY LettersAre DEF FirstLeaves, Words
<1>2. FirstLeaves \in Seq(Words) /\ Len(FirstLeaves) = Len(Letters)
  <2>1. \A i \in 1 .. Len(Letters) : <<Letters[i]>> \in Words
    BY LettersAre DEF Words
  <2>. QED
    BY <2>1, LettersAre DEF FirstLeaves
<1>3. FirstLeaves # <<>>
  BY <1>2, LettersAre, EmptySeq
<1>4. \A i \in 1 .. Len(Letters) : FirstLeaves[i] # <<>>
  BY <1>1, EmptySeq
<1>5. ASSUME NEW i \in 1 .. Len(Letters), NEW j \in 1 .. Len(Letters), Starts(FirstLeaves[i], FirstLeaves[j])
      PROVE  i = j
  <2>1. Len(FirstLeaves[j]) = 1 /\ FirstLeaves[i][1] = Letters[i] /\ FirstLeaves[j][1] = Letters[j]
    BY <1>1
  <2>2. FirstLeaves[i][1] = FirstLeaves[j][1]
    BY <1>5, <2>1 DEF Starts
  <2>. QED
    BY <2>1, <2>2, LettersAre
<1>. QED
  BY <1>2, <1>3, <1>4, <1>5 DEF Tree

\* generate_key_combos(): as many labels as there are URLs, none of which begins another.
LEMMA KeyCombosAre ==
    ASSUME NEW n \in Nat \ {0}
    PROVE  /\ \A i \in 1 .. n : Urls!KeyCombos(n)[i] \in Words /\ Urls!KeyCombos(n)[i] # <<>>
           /\ \A i, j \in 1 .. n : Starts(Urls!KeyCombos(n)[i], Urls!KeyCombos(n)[j]) => i = j
<1>. DEFINE Trees == {q \in Seq(Words) : Tree(q)}
            After(q) == IF Len(q) >= n THEN q ELSE Tail(q) \o Extended(Head(q))
            Is(f) == f = [k \in 0 .. n |-> IF k = 0 THEN FirstLeaves ELSE After(f[k - 1])]
            grown == CHOOSE f : Is(f)
<1>1. Urls!KeyCombos(n) = SubSeq(grown[n], 1, n)
  BY Zenon DEF Urls!KeyCombos, FirstLeaves, Extended
<1>2. FirstLeaves \in Trees
  BY FirstLeavesAre DEF Tree
<1>3. \A q \in Trees : /\ After(q) \in Trees /\ Len(q) \in Nat /\ Len(After(q)) \in Nat
                       /\ Len(q) >= n => Len(After(q)) >= n
                       /\ ~(Len(q) >= n) => Len(After(q)) >= Len(q) + 1
  <2>1. ASSUME NEW q \in Trees
        PROVE  /\ After(q) \in Trees /\ Len(q) \in Nat /\ Len(After(q)) \in Nat
               /\ Len(q) >= n => Len(After(q)) >= n
               /\ ~(Len(q) >= n) => Len(After(q)) >= Len(q) + 1
    <3>. DEFINE r == Tail(q) \o Extended(Head(q))
    <3>1. Tree(q) /\ Tree(r) /\ Len(q) \in Nat /\ Len(r) >= Len(q) + 1
      BY <2>1, TreeGrows
    <3>. HIDE DEF r
    <3>2. r \in Trees /\ Len(r) \in Nat
      BY <3>1, LenProperties DEF Tree
    <3>3. After(q) = IF Len(q) >= n THEN q ELSE r
      BY DEF r
    <3>. HIDE DEF After
    <3>. QED
      BY <2>1, <3>1, <3>2, <3>3
  <2>. QED
    BY <2>1
<1>. HIDE DEF Trees, After
<1>4. \E f : Is(f)
  <2>. DEFINE step == [p \in (1 .. n) \X Trees |-> After(p[2])]
  <2>1. \A p \in (1 .. n) \X Trees : p[2] \in Trees
    OBVIOUS
  <2>2. step \in [(1 .. n) \X Trees -> Trees]
    BY <1>3, <2>1
  <2>3. \A k \in 1 .. n, q \in Trees : step[<<k, q>>] = After(q)
    OBVIOUS
  <2>. HIDE DEF step
  <2>4. \E f \in [0 .. n -> Trees] : Follows(f, FirstLeaves, n, step)
    BY <1>2, <2>2, OneByOne, Zenon
  <2>5. PICK f \in [0 .. n -> Trees] : f[0] = FirstLeaves /\ \A k \in 1 .. n : f[k] = step[<<k, f[k - 1]>>]
    BY <2>4 DEF Follows
  <2>6. \A k \in 1 .. n : k - 1 \in 0 .. n /\ k \in 0 .. n /\ k # 0
    OBVIOUS
  <2>7. \A k \in 1 .. n : f[k - 1] \in Trees
    BY <2>6
  <2>8. \A k \in 1 .. n : f[k] = After(f[k - 1])
    BY <2>3, <2>5, <2>7
  <2>9. \A k \in 0 .. n : k = 0 \/ k \in 1 .. n
    OBVIOUS
  <2>10. \A k \in 0 .. n : f[k] = IF k = 0 THEN FirstLeaves ELSE After(f[k - 1])
    BY <2>5, <2>8, <2>9
  <2>. QED
    BY <2>10
<1>5. Is(grown)
  BY <1>4, Zenon
<1>. HIDE DEF grown
<1>. DEFINE Have == {k \in Nat : k <= n => /\ grown[k] \in Trees
                                           /\ Len(grown[k]) >= n \/ Len(grown[k]) >= k + 1}
<1>6. 0 \in Have
  <2>1. grown[0] = FirstLeaves
    BY <1>5
  <2>. QED
    BY <1>2, <2>1, FirstLeavesAre, LettersAre
<1>7. ASSUME NEW k \in Have PROVE k + 1 \in Have
  <2>. SUFFICES ASSUME k + 1 <= n
                PROVE  /\ grown[k + 1] \in Trees
                       /\ Len(grown[k + 1]) >= n \/ Len(grown[k + 1]) >= (k + 1) + 1
    OBVIOUS
  <2>1. k \in Nat /\ k + 1 \in 0 .. n /\ (k + 1) - 1 = k /\ k + 1 # 0
    OBVIOUS
  <2>2. grown[k] \in Trees /\ (Len(grown[k]) >= n \/ Len(grown[k]) >= k + 1)
    BY <2>1
  <2>3. grown[k + 1] = After(grown[k])
    BY <1>5, <2>1
  <2>. QED
    BY <1>3, <2>1, <2>2, <2>3
<1>. HIDE DEF Have
<1>8. Have \subseteq Nat
  BY DEF Have
<1>9. n \in Have
  BY <1>6, <1>7, <1>8, Inductive
<1>. DEFINE q == grown[n]
<1>10. q \in Seq(Words) /\ Tree(q) /\ Len(q) >= n
  BY <1>9 DEF Have, Trees
<1>. HIDE DEF q
<1>11. \A i \in 1 .. n : i \in 1 .. Len(q) /\ q[i] \in Words
  <2>1. Len(q) \in Nat
    BY <1>10, LenProperties
  <2>. QED
    BY <1>10, <2>1, ElementOfSeq
<1>12. \A i \in 1 .. n : Urls!KeyCombos(n)[i] = q[i]
  <2>1. \A i \in 1 .. n - 1 + 1 : SubSeq(q, 1, n)[i] = q[1 + i - 1]
    BY <1>11, SubSeqProperties
  <2>. QED
    BY <1>1, <2>1 DEF q
<1>. QED
  BY <1>10, <1>11, <1>12 DEF Tree

\* The greatest of some numbers
LEMMA GreatestExists ==
    ASSUME NEW n \in Nat, NEW S, S \subseteq 1 .. n, S # {}
    PROVE  \E x \in S : \A y \in S : y <= x
<1>. DEFINE T == {n - x : x \in S}
<1>1. T \subseteq Nat /\ T # {}
  <2>1. \A x \in S : x \in 1 .. n /\ n - x \in Nat
    OBVIOUS
  <2>2. T \subseteq Nat
    BY <2>1
  <2>3. T # {}
    OBVIOUS
  <2>. QED
    BY <2>2, <2>3
<1>. HIDE DEF T
<1>2. PICK a \in T : \A b \in T : a <= b
  BY <1>1, LeastExists
<1>3. PICK x \in S : a = n - x
  BY DEF T
<1>4. ASSUME NEW y \in S PROVE y <= x
  <2>1. n - y \in T
    BY DEF T
  <2>2. n - x <= n - y
    BY <1>2, <1>3, <2>1
  <2>3. x \in Int /\ y \in Int
    OBVIOUS
  <2>. QED
    BY <2>2, <2>3
<1>. QED
  BY <1>4

\* Those of some numbers that are not less than one of them are as many only for that one.
LEMMA PlacesDiffer ==
    ASSUME NEW n \in Nat, NEW S, S \subseteq 1 .. n
    PROVE  /\ \A a \in S : Cardinality({k \in S : k >= a}) \in 1 .. n
           /\ \A a, b \in S : Cardinality({k \in S : k >= a}) = Cardinality({k \in S : k >= b}) => a = b
<1>. DEFINE From(a) == {k \in S : k >= a}
<1>1. IsFiniteSet(1 .. n) /\ Cardinality(1 .. n) = n
  BY FS_Interval
<1>2. IsFiniteSet(S) /\ Cardinality(S) <= n
  BY <1>1, FS_Subset
<1>3. \A a : IsFiniteSet(From(a)) /\ Cardinality(From(a)) <= Cardinality(S)
  <2>1. \A a : From(a) \subseteq S
    OBVIOUS
  <2>. HIDE DEF From
  <2>. QED
    BY <1>2, <2>1, FS_Subset
<1>4. ASSUME NEW a \in S PROVE Cardinality(From(a)) \in 1 .. n
  <2>1. From(a) # {}
    OBVIOUS
  <2>. HIDE DEF From
  <2>2. Cardinality(From(a)) \in Nat /\ Cardinality(S) \in Nat
    BY <1>2, <1>3, FS_CardinalityType
  <2>3. Cardinality(From(a)) # 0
    BY <1>3, <2>1, FS_EmptySet
  <2>. QED
    BY <1>2, <1>3, <2>2, <2>3
<1>5. ASSUME NEW a \in S, NEW b \in S, Cardinality(From(a)) = Cardinality(From(b)), a < b PROVE FALSE
  <2>1. \A k \in S : k \in Int
    OBVIOUS
  <2>2. \A k \in S : k >= b => k >= a
    BY <1>5, <2>1
  <2>3. a >= a /\ ~(a >= b)
    BY <1>5, <2>1
  <2>4. From(b) \subseteq From(a) /\ a \in From(a) /\ a \notin From(b)
    BY <2>2, <2>3
  <2>5. IsFiniteSet(From(a))
    BY <1>3
  <2>. HIDE DEF From
  <2>6. From(a) = From(b)
    BY <1>5, <2>4, <2>5, FS_Subset
  <2>. QED
    BY <2>4, <2>6
<1>6. ASSUME NEW a \in S, NEW b \in S, Cardinality(From(a)) = Cardinality(From(b)) PROVE a = b
  <2>1. ~(a < b) /\ ~(b < a)
    <3>. HIDE DEF From
    <3>. QED
      BY <1>5, <1>6
  <2>2. a \in Int /\ b \in Int
    OBVIOUS
  <2>. QED
    BY <2>1, <2>2
<1>. QED
  BY <1>4, <1>6

LEMMA SameCount == \A S : Urls!Cardinality(S) = Cardinality(S)
BY Zenon DEF Urls!Cardinality, Cardinality

\* urls_assign_key_combos(): every URL has a label, which begins no other's.
LEMMA LabelledIs ==
    ASSUME NEW urls \in Seq(Ranges)
    PROVE  /\ Urls!Labelled(urls) \in Seq(LabelsOf)
           /\ GoodLabels(Urls!Labelled(urls))
<1>. DEFINE n == Len(urls)
            Part(i) == \E j \in i + 1 .. n : urls[j].id = urls[i].id /\ urls[j].url = urls[i].url
            Again(i) == \E j \in i + 1 .. n : urls[j].url = urls[i].url
            new == {i \in 1 .. n : ~Again(i)}
            place(i) == Cardinality({j \in new : j >= i})
            last(i) == CHOOSE j \in new : urls[j].url = urls[i].url
            Key(i) == IF Part(i) THEN <<>> ELSE Urls!KeyCombos(n)[place(last(i))]
            q == [i \in 1 .. n |-> [url |-> urls[i].url, key |-> Key(i)]]
<1>1. Urls!Labelled(urls) = q
  BY SameCount, Zenon DEF Urls!Labelled
<1>2. n \in Nat /\ \A i \in 1 .. n : urls[i] \in Ranges
  BY LenProperties, ElementOfSeq
<1>3. \A i \in 1 .. n : \E j \in new : urls[j].url = urls[i].url /\ ~Part(j)
  <2>1. ASSUME NEW i \in 1 .. n
        PROVE  \E j \in new : urls[j].url = urls[i].url /\ ~Part(j)
    <3>. DEFINE same == {j \in 1 .. n : urls[j].url = urls[i].url}
    <3>1. same \subseteq 1 .. n /\ same # {}
      OBVIOUS
    <3>. HIDE DEF same
    <3>2. PICK j \in same : \A k \in same : k <= j
      BY <1>2, <3>1, GreatestExists
    <3>3. j \in 1 .. n /\ urls[j].url = urls[i].url
      BY DEF same
    <3>4. \A k \in j + 1 .. n : k \in 1 .. n /\ ~(k <= j)
      BY <1>2, <3>3
    <3>5. ~Again(j) /\ ~Part(j)
      BY <3>2, <3>3, <3>4 DEF same
    <3>. QED
      BY <3>3, <3>5
  <2>. QED
    BY <2>1
<1>. HIDE DEF Part, Again
<1>4. \A i \in 1 .. n : last(i) \in new /\ urls[last(i)].url = urls[i].url
  <2>1. \A i \in 1 .. n : \E j \in new : urls[j].url = urls[i].url
    BY <1>3
  <2>. QED
    BY <2>1, Zenon
<1>. HIDE DEF last
<1>5. \A i \in 1 .. n : place(last(i)) \in 1 .. n
  BY <1>2, <1>4, PlacesDiffer
<1>6. \A i, j \in 1 .. n : place(last(i)) = place(last(j)) => last(i) = last(j)
  BY <1>2, <1>4, PlacesDiffer
<1>. HIDE DEF place, new
<1>7. \A i \in 1 .. n : q[i] = [url |-> urls[i].url, key |-> Key(i)]
  OBVIOUS
<1>8. \A i \in 1 .. n : /\ Key(i) \in Words
                        /\ ~Part(i) => Key(i) = Urls!KeyCombos(n)[place(last(i))] /\ Key(i) # <<>>
                        /\ Part(i) => Key(i) = <<>>
  <2>1. ASSUME NEW i \in 1 .. n
        PROVE  /\ Key(i) \in Words
               /\ ~Part(i) => Key(i) = Urls!KeyCombos(n)[place(last(i))] /\ Key(i) # <<>>
               /\ Part(i) => Key(i) = <<>>
    <3>1. n \in Nat \ {0}
      BY <1>2
    <3>2. <<>> \in Words
      BY EmptySeq DEF Words
    <3>. HIDE DEF n
    <3>. QED
      BY <1>5, <3>1, <3>2, KeyCombosAre
  <2>. QED
    BY <2>1
<1>9. q \in Seq(LabelsOf) /\ Len(q) = n
  <2>1. \A i \in 1 .. n : [url |-> urls[i].url, key |-> Key(i)] \in LabelsOf
    BY <1>2, <1>8 DEF LabelsOf
  <2>. HIDE DEF Key
  <2>. QED
    BY <1>2, <2>1
<1>10. ASSUME NEW i \in 1 .. n, NEW j \in 1 .. n, q[i].key # <<>>, q[j].key # <<>>,
              Urls!StartsWith(q[i].key, q[j].key)
       PROVE  q[i].url = q[j].url
  <2>1. /\ q[i].key = Key(i) /\ q[j].key = Key(j) /\ q[i].url = urls[i].url /\ q[j].url = urls[j].url
    BY <1>7
  <2>. HIDE DEF q
  <2>2. ~Part(i) /\ ~Part(j)
    BY <1>8, <1>10, <2>1
  <2>3. Starts(Key(i), Key(j))
    BY <1>8, <1>10, <2>1, StartsIs
  <2>4. /\ Key(i) = Urls!KeyCombos(n)[place(last(i))]
        /\ Key(j) = Urls!KeyCombos(n)[place(last(j))]
    BY <1>8, <2>2
  <2>5. place(last(i)) = place(last(j))
    <3>1. n \in Nat \ {0}
      BY <1>2
    <3>. HIDE DEF n, Key
    <3>. QED
      BY <1>5, <2>3, <2>4, <3>1, KeyCombosAre
  <2>6. last(i) = last(j)
    BY <1>6, <2>5
  <2>. QED
    BY <1>4, <2>1, <2>6
<1>11. ASSUME NEW i \in 1 .. n
       PROVE  \E j \in 1 .. n : q[j].key # <<>> /\ q[j].url = q[i].url
  <2>1. PICK j \in new : urls[j].url = urls[i].url /\ ~Part(j)
    BY <1>3
  <2>2. j \in 1 .. n
    BY DEF new
  <2>3. q[j].key = Key(j) /\ q[j].url = urls[j].url /\ q[i].url = urls[i].url
    BY <1>7, <2>2
  <2>. HIDE DEF q
  <2>. QED
    BY <1>8, <2>1, <2>2, <2>3
<1>. HIDE DEF q
<1>. QED
  BY <1>1, <1>9, <1>10, <1>11 DEF GoodLabels


\* urls_reset(): nothing of URL mode is left, and the input method is as the application asked.
LEMMA ResetIs ==
    ASSUME NEW x, VInv(x)
    PROVE  LET r == Urls!UrlsReset(x)
           IN /\ VInv(r) /\ r.urls = <<>>
              /\ r.lives = x.lives /\ r.launch = x.launch /\ r.cols = x.cols
              /\ r.hover = x.hover /\ r.cache = x.cache
<1>1. CASE x.urls = <<>>
  BY <1>1 DEF Urls!UrlsReset
<1>2. CASE x.urls # <<>>
  <2>. DEFINE r == [x EXCEPT !.urls = <<>>, !.action = "none", !.keys = <<>>, !.reenable = FALSE,
                             !.ime = x.ime \/ x.reenable]
  <2>1. Urls!UrlsReset(x) = r
    BY <1>2 DEF Urls!UrlsReset, Urls!None
  <2>2. x \in Views
    BY DEF VInv
  <2>3. /\ r.urls = <<>> /\ r.keys = <<>> /\ r.ime = (x.ime \/ x.reenable) /\ r.reenable = FALSE
        /\ r.appIme = x.appIme /\ r.lives = x.lives /\ r.launch = x.launch /\ r.cols = x.cols
        /\ r.hover = x.hover /\ r.cache = x.cache /\ r.tagged = x.tagged /\ r.shows = x.shows
    BY <2>2 DEF Views
  <2>4. r \in Views
    BY <2>2, EmptySeq DEF Views, Words
  <2>. HIDE DEF r
  <2>5. GoodLabels(r.urls)
    BY <2>3, EmptySeq DEF GoodLabels
  <2>6. Typing(r) /\ Hovering(r)
    BY <2>3, Zenon DEF Typing, Hovering, VInv
  <2>7. Ime(r)
    BY <1>2, <2>2, <2>3 DEF Ime, VInv, Views
  <2>. QED
    BY <2>1, <2>3, <2>4, <2>5, <2>6, <2>7 DEF VInv
<1>. QED
  BY <1>1, <1>2

\* urls_hover_clear(), and what the terminal shows is another screen.
LEMMA ClearedIs ==
    ASSUME NEW x, VInv(x), NEW screen \in Screens
    PROVE  LET r == [Urls!HoverCleared(x) EXCEPT !.shows = screen]
           IN VInv(r) /\ r.urls = x.urls /\ r.lives = x.lives /\ r.launch = x.launch
<1>. DEFINE r == [Urls!HoverCleared(x) EXCEPT !.shows = screen]
<1>1. x \in Views
  BY DEF VInv
<1>2. /\ r.urls = x.urls /\ r.keys = x.keys /\ r.ime = x.ime /\ r.reenable = x.reenable
      /\ r.appIme = x.appIme /\ r.lives = x.lives /\ r.launch = x.launch
      /\ r.hover = {} /\ r.cache = {} /\ r.action = x.action
  BY <1>1 DEF Views, Urls!HoverCleared
<1>3. r \in Views
  BY <1>1 DEF Views, Urls!HoverCleared
<1>. HIDE DEF r
<1>4. GoodLabels(r.urls) /\ Typing(r) /\ Ime(r)
  BY <1>2, Zenon DEF VInv, Typing, Ime
<1>5. Hovering(r)
  BY <1>2 DEF Hovering
<1>. QED
  BY <1>2, <1>3, <1>4, <1>5 DEF VInv, r

LEMMA HoverClearedIs ==
    ASSUME NEW x, VInv(x)
    PROVE  LET r == Urls!HoverCleared(x)
           IN VInv(r) /\ r.urls = x.urls /\ r.lives = x.lives /\ r.launch = x.launch
<1>1. x \in Views /\ x.shows \in Screens
  BY DEF VInv, Views
<1>2. Urls!HoverCleared(x) = [Urls!HoverCleared(x) EXCEPT !.shows = x.shows]
  BY <1>1 DEF Views, Urls!HoverCleared
<1>. QED
  BY <1>1, <1>2, ClearedIs

\* render_resize(), when no URL was looked for or the columns stay as they are
LEMMA ResizedIs ==
    ASSUME NEW x, VInv(x), NEW cols \in {"wide", "narrow"}, x.cache = {} \/ x.cols = cols
    PROVE  LET r == [Urls!UrlsReset(x) EXCEPT !.cols = cols]
           IN VInv(r) /\ r.urls = <<>> /\ r.lives = x.lives /\ r.launch = x.launch
<1>. DEFINE y == Urls!UrlsReset(x)
            r == [y EXCEPT !.cols = cols]
<1>1. /\ VInv(y) /\ y.urls = <<>> /\ y.lives = x.lives /\ y.launch = x.launch /\ y.cols = x.cols
      /\ y.hover = x.hover /\ y.cache = x.cache
  BY ResetIs
<1>. HIDE DEF y
<1>2. y \in Views
  BY <1>1 DEF VInv
<1>3. /\ r.urls = y.urls /\ r.keys = y.keys /\ r.ime = y.ime /\ r.reenable = y.reenable
      /\ r.appIme = y.appIme /\ r.lives = y.lives /\ r.launch = y.launch /\ r.cols = cols
      /\ r.hover = y.hover /\ r.cache = y.cache /\ r.tagged = y.tagged /\ r.shows = y.shows
  BY <1>2 DEF Views
<1>4. r \in Views
  BY <1>2 DEF Views
<1>. HIDE DEF r
<1>5. GoodLabels(r.urls) /\ Typing(r) /\ Ime(r)
  BY <1>1, <1>3, Zenon DEF VInv, Typing, Ime
<1>6. Hovering(r)
  BY <1>1, <1>3 DEF VInv, Hovering
<1>. QED
  BY <1>1, <1>3, <1>4, <1>5, <1>6 DEF VInv, r, y

\* One terminal changes, and its URLs stay as they are.
LEMMA ViewChanges ==
    ASSUME UInv, NEW t \in Tabs, NEW v, VInv(v), term' = [term EXCEPT ![t] = v],
           v.urls = term[t].urls, v.lives = term[t].lives, v.launch = term[t].launch,
           \A k \in tokens' : Waits(k), UNCHANGED <<labels, opened>>
    PROVE  UInv'
<1>1. term \in [Tabs -> Views] /\ v \in Views /\ labels.active \in Tabs
  BY DEF UInv, VInv
<1>2. /\ term' \in [Tabs -> Views]
      /\ \A u \in Tabs : /\ term'[u] = IF u = t THEN v ELSE term[u]
                         /\ term'[u].urls = term[u].urls /\ term'[u].lives = term[u].lives
                         /\ term'[u].launch = term[u].launch
  BY <1>1
<1>3. \A u \in Tabs : VInv(term'[u])
  BY <1>2 DEF UInv
<1>4. \A k \in tokens' : Waits(k)'
  BY <1>2 DEF Waits
<1>5. labels'.labels = {<<labels'.active, i>> : i \in 1 .. Len(term'[labels'.active].urls)}
  BY <1>1, <1>2 DEF UInv
<1>6. \A u \in Tabs : u # labels'.active => term'[u].urls = <<>>
  BY <1>2 DEF UInv
<1>7. term'[labels'.active].lives
  BY <1>1, <1>2 DEF UInv
<1>. QED
  BY <1>2, <1>3, <1>4, <1>5, <1>6, <1>7 DEF UInv

\* What is not in URL mode has no labels.
LEMMA LabelsAre ==
    ASSUME UInv
    PROVE  /\ labels.active \in Tabs /\ VInv(term[labels.active])
           /\ term[labels.active].urls = <<>> => labels.labels = {}
           /\ Urls!LabelsReset(labels.active) = {}
           /\ \A t \in Tabs : t # labels.active => Urls!LabelsReset(t) = labels.labels
<1>1. /\ labels.active \in Tabs
      /\ labels.labels = {<<labels.active, i>> : i \in 1 .. Len(term[labels.active].urls)}
      /\ \A t \in Tabs : t # labels.active => term[t].urls = <<>>
      /\ VInv(term[labels.active])
  BY DEF UInv
<1>2. term[labels.active].urls = <<>> => labels.labels = {}
  BY <1>1, EmptySeq
<1>. QED
  BY <1>1, <1>2 DEF Urls!LabelsReset, Urls!InUrlMode

\* URL mode ends, if it was on.
LEMMA ModeEnds ==
    ASSUME UInv, NEW v, VInv(v), term' = [term EXCEPT ![labels.active] = v], v.urls = <<>>,
           v.lives = term[labels.active].lives, v.launch = term[labels.active].launch,
           labels' = [labels EXCEPT !.labels = Urls!LabelsReset(labels.active)],
           \A k \in tokens' : Waits(k), opened' = opened
    PROVE  UInv'
<1>. DEFINE a == labels.active
<1>1. term \in [Tabs -> Views] /\ v \in Views /\ a \in Tabs
  BY DEF UInv, VInv
<1>2. /\ term' \in [Tabs -> Views]
      /\ \A u \in Tabs : /\ term'[u] = IF u = a THEN v ELSE term[u]
                         /\ term'[u].lives = term[u].lives /\ term'[u].launch = term[u].launch
  BY <1>1
<1>3. \A u \in Tabs : VInv(term'[u])
  BY <1>2 DEF UInv
<1>4. \A k \in tokens' : Waits(k)'
  BY <1>2 DEF Waits
<1>5. labels' = [active |-> a, labels |-> {}]
  BY LabelsAre DEF UInv
<1>6. \A u \in Tabs : term'[u].urls = <<>>
  BY <1>2 DEF UInv
<1>7. labels'.labels = {<<labels'.active, i>> : i \in 1 .. Len(term'[labels'.active].urls)}
  BY <1>1, <1>5, <1>6, EmptySeq
<1>8. term'[labels'.active].lives
  BY <1>1, <1>2, <1>5 DEF UInv
<1>. QED
  BY <1>1, <1>2, <1>3, <1>4, <1>5, <1>6, <1>7, <1>8 DEF UInv

LEMMA OutputStep ==
    ASSUME UInv, NEW t \in Tabs, NEW screen \in Screens, Urls!Output(t, screen)
    PROVE  UInv'
<1>. DEFINE v == [Urls!HoverCleared(term[t]) EXCEPT !.shows = screen]
<1>1. VInv(term[t]) /\ term \in [Tabs -> Views] /\ \A k \in tokens : Waits(k)
  BY DEF UInv
<1>2. VInv(v) /\ v.urls = term[t].urls /\ v.lives = term[t].lives /\ v.launch = term[t].launch
  BY <1>1, ClearedIs
<1>3. term' = [term EXCEPT ![t] = v] /\ UNCHANGED <<labels, tokens, opened>>
  BY <1>1 DEF Urls!Output
<1>. HIDE DEF v
<1>. QED
  BY <1>1, <1>2, <1>3, ViewChanges

LEMMA AppImeStep ==
    ASSUME UInv, NEW t \in Tabs, Urls!AppIme(t), Admitted = {}
    PROVE  UInv'
<1>. DEFINE x == term[t]
            v == [x EXCEPT !.ime = ~x.appIme, !.appIme = ~x.appIme]
<1>1. VInv(x) /\ x \in Views /\ term \in [Tabs -> Views] /\ \A k \in tokens : Waits(k)
  BY DEF UInv
<1>2. x.urls = <<>> /\ UNCHANGED <<labels, tokens, opened>>
  BY DEF Urls!AppIme, Urls!InUrlMode
<1>3. term' = [term EXCEPT ![t] = v]
  BY <1>1 DEF Urls!AppIme, Views
<1>. HIDE DEF x
<1>4. /\ v \in Views /\ v.urls = x.urls /\ v.keys = x.keys /\ v.ime = ~x.appIme /\ v.appIme = ~x.appIme
      /\ v.reenable = x.reenable /\ v.lives = x.lives /\ v.launch = x.launch /\ v.cols = x.cols
      /\ v.hover = x.hover /\ v.cache = x.cache /\ v.tagged = x.tagged /\ v.shows = x.shows
  BY <1>1 DEF Views
<1>. HIDE DEF v
<1>5. GoodLabels(v.urls) /\ Typing(v) /\ Hovering(v)
  <2>1. GoodLabels(x.urls) /\ Typing(x) /\ Hovering(x)
    BY <1>1 DEF VInv
  <2>2. GoodLabels(v.urls)
    BY <1>4, <2>1
  <2>3. Typing(v)
    BY <1>4, <2>1, Zenon DEF Typing
  <2>4. Hovering(v)
    BY <1>4, <2>1, ZenonT(30) DEF Hovering
  <2>. QED
    BY <2>2, <2>3, <2>4
<1>6. Ime(v)
  BY <1>1, <1>2, <1>4 DEF VInv, Ime
<1>. QED
  BY <1>1, <1>2, <1>3, <1>4, <1>5, <1>6, ViewChanges DEF VInv, x

LEMMA UrlsRenderStep ==
    ASSUME UInv, Admitted = {}, NEW launcher \in Launchers, NEW action \in {"copy", "launch", "persistent"},
           NEW osc8 \in BOOLEAN, Urls!UrlsRender(launcher, action, osc8)
    PROVE  UInv'
<1>. DEFINE t == labels.active
            x == term[t]
            urls == Urls!Labelled(Urls!UrlsCollect(x.shows, osc8))
            v == [x EXCEPT !.urls = urls, !.launch = launcher, !.action = action,
                           !.reenable = x.reenable \/ x.ime, !.ime = FALSE]
<1>1. /\ VInv(x) /\ x \in Views /\ term \in [Tabs -> Views] /\ t \in Tabs /\ x.lives
      /\ \A k \in tokens : Waits(k)
  BY DEF UInv
<1>2. urls \in Seq(LabelsOf) /\ GoodLabels(urls)
  <2>1. x.shows \in Screens
    BY <1>1 DEF Views
  <2>. HIDE DEF x
  <2>. QED
    BY <2>1, CollectIs, LabelledIs
<1>3. /\ x.urls = <<>> /\ urls # <<>> /\ \A k \in tokens : k.tab # t \/ k.launch = "own"
      /\ labels' = [labels EXCEPT !.labels = labels.labels \cup {<<t, i>> : i \in 1 .. Len(urls)}]
      /\ UNCHANGED <<tokens, opened>>
  BY DEF Urls!UrlsRender, Urls!InUrlMode
<1>4. term' = [term EXCEPT ![t] = v]
  BY <1>1 DEF Urls!UrlsRender, Views
<1>. HIDE DEF urls
<1>5. /\ v.urls = urls /\ v.keys = x.keys /\ v.ime = FALSE /\ v.reenable = (x.reenable \/ x.ime)
      /\ v.action = action /\ v.appIme = x.appIme /\ v.lives = x.lives /\ v.cols = x.cols
      /\ v.hover = x.hover /\ v.cache = x.cache /\ v.tagged = x.tagged /\ v.shows = x.shows
      /\ v.launch = launcher
  BY <1>1 DEF Views
<1>6. v \in Views
  BY <1>1, <1>2 DEF Views
<1>. HIDE DEF x, v
<1>7. Typing(v)
  <2>1. x.keys = <<>>
    BY <1>1, <1>3, EmptySeq DEF VInv, Typing
  <2>. QED
    BY <1>5, <2>1 DEF Typing
<1>8. Ime(v)
  BY <1>1, <1>3, <1>5 DEF VInv, Ime, Views
<1>9. Hovering(v)
  BY <1>1, <1>5, ZenonT(30) DEF VInv, Hovering
<1>10. VInv(v)
  BY <1>2, <1>5, <1>6, <1>7, <1>8, <1>9 DEF VInv
<1>11. /\ term' \in [Tabs -> Views]
       /\ \A u \in Tabs : term'[u] = IF u = t THEN v ELSE term[u]
  BY <1>1, <1>4, <1>6
<1>12. \A u \in Tabs : VInv(term'[u])
  BY <1>10, <1>11 DEF UInv
<1>13. \A k \in tokens' : Waits(k)'
  BY <1>1, <1>3, <1>5, <1>11 DEF Waits, x
<1>14. labels' = [active |-> t, labels |-> {<<t, i>> : i \in 1 .. Len(urls)}]
  <2>1. labels.labels = {}
    BY <1>3, LabelsAre DEF x
  <2>. QED
    BY <1>3, <2>1 DEF UInv
<1>15. labels'.labels = {<<labels'.active, i>> : i \in 1 .. Len(term'[labels'.active].urls)}
  BY <1>1, <1>5, <1>11, <1>14
<1>16. labels' \in [active : Tabs, labels : SUBSET (Tabs \X Nat)]
  BY <1>1, <1>14
<1>17. \A u \in Tabs : u # labels'.active => term'[u].urls = <<>>
  BY <1>11, <1>14 DEF UInv
<1>18. term'[labels'.active].lives
  BY <1>1, <1>5, <1>11, <1>14
<1>. QED
  BY <1>3, <1>11, <1>12, <1>13, <1>15, <1>16, <1>17, <1>18 DEF UInv

\* What else was typed of the keys that are typed, or nothing of them
LEMMA KeysChange ==
    ASSUME NEW x, VInv(x), NEW keys \in Words, Typing([x EXCEPT !.keys = keys])
    PROVE  LET r == [x EXCEPT !.keys = keys]
           IN VInv(r) /\ r.urls = x.urls /\ r.lives = x.lives /\ r.launch = x.launch
<1>. DEFINE r == [x EXCEPT !.keys = keys]
<1>1. x \in Views /\ GoodLabels(x.urls) /\ Ime(x) /\ Hovering(x)
  BY DEF VInv
<1>2. /\ r \in Views /\ r.urls = x.urls /\ r.ime = x.ime /\ r.reenable = x.reenable /\ r.action = x.action
      /\ r.appIme = x.appIme /\ r.lives = x.lives /\ r.launch = x.launch /\ r.cols = x.cols
      /\ r.hover = x.hover /\ r.cache = x.cache /\ r.tagged = x.tagged /\ r.shows = x.shows
  BY <1>1 DEF Views
<1>. HIDE DEF r
<1>3. GoodLabels(r.urls)
  BY <1>1, <1>2
<1>4. Ime(r)
  BY <1>1, <1>2, Zenon DEF Ime
<1>5. Hovering(r)
  BY <1>1, <1>2, Zenon DEF Hovering
<1>6. Typing(r)
  BY DEF r
<1>. QED
  BY <1>2, <1>3, <1>4, <1>5, <1>6 DEF VInv, r

\* What is chosen waits for its token.
LEMMA AwaitedIs ==
    ASSUME UInv, NEW url, NEW launch
    PROVE  \A k \in Urls!Awaited(labels.active, url, launch) : Waits(k)
<1>1. labels.active \in Tabs /\ term[labels.active].lives /\ \A k \in tokens : Waits(k)
  BY DEF UInv
<1>. DEFINE new == [tab |-> labels.active, url |-> url, launch |-> launch, chosen |-> term[labels.active].launch]
<1>2. new.tab = labels.active /\ new.chosen = term[labels.active].launch
  OBVIOUS
<1>3. Urls!Awaited(labels.active, url, launch) = tokens \cup {new}
  BY DEF Urls!Awaited
<1>. HIDE DEF new
<1>4. Waits(new)
  BY <1>1, <1>2 DEF Waits
<1>. QED
  BY <1>1, <1>3, <1>4

LEMMA UrlsInputStep ==
    ASSUME UInv, NEW letter \in Alphabet, Urls!UrlsInput(letter)
    PROVE  UInv'
<1>. DEFINE t == labels.active
            x == term[t]
            keys == Append(x.keys, letter)
            valid == {i \in 1 .. Len(x.urls) : x.urls[i].key # <<>> /\ Urls!StartsWith(x.urls[i].key, keys)}
            matches == {i \in valid : x.urls[i].key = keys}
            match == CHOOSE i \in matches : \A j \in matches : i <= j
            chosen == Urls!Awaited(t, x.urls[match].url, "term's")
            ends == /\ term' = [term EXCEPT ![t] = Urls!UrlsReset(x)]
                    /\ labels' = [labels EXCEPT !.labels = Urls!LabelsReset(t)]
<1>1. /\ VInv(x) /\ x \in Views /\ term \in [Tabs -> Views] /\ t \in Tabs
      /\ \A k \in tokens : Waits(k)
  BY DEF UInv
<1>2. x.urls # <<>> /\ valid # {} /\ opened' = opened
  BY DEF Urls!UrlsInput, Urls!InUrlMode
<1>3. x.action \in {"copy", "launch", "persistent"}
  BY <1>1, <1>2 DEF VInv, Ime, Views
<1>4. keys \in Words
  BY <1>1, AppendProperties DEF Views, Words
<1>5. CASE matches = {}
  <2>. DEFINE v == [x EXCEPT !.keys = keys]
  <2>1. term' = [term EXCEPT ![t].keys = keys] /\ UNCHANGED <<labels, tokens>>
    BY <1>5 DEF Urls!UrlsInput
  <2>2. term' = [term EXCEPT ![t] = v]
    BY <1>1, <2>1 DEF Views
  <2>3. v.keys = keys /\ v.urls = x.urls
    BY <1>1 DEF Views
  <2>4. Typing(v)
    <3>1. PICK i \in valid : x.urls[i].key # keys
      BY <1>2, <1>5
    <3>. HIDE DEF v
    <3>. QED
      BY <2>3, <3>1 DEF Typing
  <2>5. VInv(v) /\ v.urls = x.urls /\ v.lives = x.lives /\ v.launch = x.launch
    BY <1>1, <1>4, <2>4, KeysChange
  <2>. HIDE DEF v
  <2>. QED
    BY <1>1, <1>2, <2>1, <2>2, <2>5, ViewChanges
<1>6. CASE matches # {} /\ x.action = "persistent"
  <2>. DEFINE v == [x EXCEPT !.keys = <<>>]
  <2>1. term' = [term EXCEPT ![t].keys = <<>>] /\ labels' = labels /\ tokens' = chosen
    BY <1>6 DEF Urls!UrlsInput
  <2>2. term' = [term EXCEPT ![t] = v]
    BY <1>1, <2>1 DEF Views
  <2>3. Typing(v)
    BY <1>1 DEF Views, Typing
  <2>4. VInv(v) /\ v.urls = x.urls /\ v.lives = x.lives /\ v.launch = x.launch
    <3>1. <<>> \in Words
      BY EmptySeq DEF Words
    <3>. QED
      BY <1>1, <2>3, <3>1, KeysChange
  <2>5. \A k \in tokens' : Waits(k)
    BY <2>1, AwaitedIs
  <2>. HIDE DEF v
  <2>. QED
    BY <1>1, <1>2, <2>1, <2>2, <2>4, <2>5, ViewChanges
<1>7. CASE matches # {} /\ x.action \in {"copy", "launch"}
  <2>1. ends /\ (tokens' = tokens \/ tokens' = chosen)
    <3>1. CASE x.action = "launch"
      BY <1>7, <3>1 DEF Urls!UrlsInput
    <3>2. CASE x.action = "copy"
      BY <1>7, <3>2 DEF Urls!UrlsInput
    <3>. QED
      BY <1>7, <3>1, <3>2
  <2>2. \A k \in tokens' : Waits(k)
    BY <1>1, <2>1, AwaitedIs
  <2>. DEFINE v == Urls!UrlsReset(x)
  <2>3. VInv(v) /\ v.urls = <<>> /\ v.lives = x.lives /\ v.launch = x.launch
    BY <1>1, ResetIs
  <2>4. term' = [term EXCEPT ![t] = v] /\ labels' = [labels EXCEPT !.labels = Urls!LabelsReset(t)]
    BY <2>1
  <2>. HIDE DEF v
  <2>. QED
    BY <1>2, <2>2, <2>3, <2>4, ModeEnds
<1>. QED
  BY <1>3, <1>5, <1>6, <1>7

LEMMA UrlBackSpaceStep ==
    ASSUME UInv, Urls!BackSpace
    PROVE  UInv'
<1>. DEFINE t == labels.active
            x == term[t]
            keys == SubSeq(x.keys, 1, Len(x.keys) - 1)
            v == [x EXCEPT !.keys = keys]
<1>1. /\ VInv(x) /\ x \in Views /\ term \in [Tabs -> Views] /\ t \in Tabs
      /\ \A k \in tokens : Waits(k)
  BY DEF UInv
<1>2. /\ x.keys # <<>> /\ UNCHANGED <<labels, tokens, opened>>
      /\ term' = [term EXCEPT ![t].keys = keys]
  BY DEF Urls!BackSpace
<1>3. x.keys \in Words /\ x.urls \in Seq(LabelsOf)
  BY <1>1 DEF Views
<1>4. /\ keys \in Words /\ Len(x.keys) \in Nat /\ Len(keys) = Len(x.keys) - 1
      /\ \A i \in 1 .. Len(keys) : keys[i] = x.keys[i]
  <2>1. Len(x.keys) \in Nat \ {0} /\ \A i \in 1 .. Len(x.keys) : x.keys[i] \in Alphabet
    BY <1>2, <1>3, EmptySeq, ElementOfSeq DEF Words
  <2>2. \A i \in 1 .. Len(x.keys) - 1 : x.keys[i] \in Alphabet
    BY <2>1
  <2>3. /\ keys \in Seq(Alphabet)
        /\ Len(keys) = IF 1 <= Len(x.keys) - 1 THEN Len(x.keys) - 1 - 1 + 1 ELSE 0
        /\ \A i \in 1 .. Len(x.keys) - 1 - 1 + 1 : keys[i] = x.keys[1 + i - 1]
    BY <2>1, <2>2, SubSeqProperties
  <2>4. Len(keys) = Len(x.keys) - 1
    BY <2>1, <2>3
  <2>. QED
    BY <2>1, <2>3, <2>4 DEF Words
<1>. HIDE DEF keys
<1>5. term' = [term EXCEPT ![t] = v]
  BY <1>1, <1>2 DEF Views
<1>6. Typing(v)
  <2>1. PICK i \in 1 .. Len(x.urls) :
           x.urls[i].key # <<>> /\ Urls!StartsWith(x.urls[i].key, x.keys) /\ x.urls[i].key # x.keys
    BY <1>1, <1>2 DEF VInv, Typing
  <2>. DEFINE key == x.urls[i].key
  <2>2. key \in Words
    <3>1. x.urls[i] \in LabelsOf
      BY <1>3, ElementOfSeq
    <3>. QED
      BY <3>1 DEF LabelsOf
  <2>. HIDE DEF key
  <2>3. Len(key) \in Nat
    BY <2>2, LenProperties DEF Words
  <2>4. Starts(key, x.keys)
    BY <1>3, <2>1, <2>2, StartsIs DEF key
  <2>5. Starts(key, keys) /\ Len(key) # Len(keys)
    BY SMTT(30), <1>4, <2>3, <2>4 DEF Starts
  <2>6. Urls!StartsWith(key, keys) /\ key # keys
    BY <1>4, <2>2, <2>5, StartsIs
  <2>7. v.keys = keys /\ v.urls = x.urls
    BY <1>1 DEF Views
  <2>. HIDE DEF v
  <2>. QED
    BY <2>1, <2>6, <2>7 DEF Typing, key
<1>7. VInv(v) /\ v.urls = x.urls /\ v.lives = x.lives /\ v.launch = x.launch
  BY <1>1, <1>4, <1>6, KeysChange
<1>. HIDE DEF v
<1>. QED
  BY <1>1, <1>2, <1>5, <1>7, ViewChanges

LEMMA UrlCancelStep ==
    ASSUME UInv, Urls!UrlCancel
    PROVE  UInv'
<1>. DEFINE t == labels.active
            v == Urls!UrlsReset(term[t])
<1>1. VInv(term[t]) /\ term \in [Tabs -> Views] /\ t \in Tabs /\ \A k \in tokens : Waits(k)
  BY DEF UInv
<1>2. VInv(v) /\ v.urls = <<>> /\ v.lives = term[t].lives /\ v.launch = term[t].launch
  BY <1>1, ResetIs
<1>3. /\ term' = [term EXCEPT ![t] = v] /\ UNCHANGED <<tokens, opened>>
      /\ labels' = [labels EXCEPT !.labels = Urls!LabelsReset(t)]
  BY DEF Urls!UrlCancel
<1>. HIDE DEF v
<1>. QED
  BY <1>1, <1>2, <1>3, ModeEnds

LEMMA UrlsOpenAtPositionStep ==
    ASSUME UInv, NEW cell, NEW ctrl \in BOOLEAN, Urls!UrlsOpenAtPosition(cell, ctrl)
    PROVE  UInv'
<1>. DEFINE t == labels.active
            x == term[t]
            v == IF ctrl THEN Urls!HoverCleared(Urls!UrlsReset(x)) ELSE Urls!UrlsReset(x)
<1>1. VInv(x) /\ term \in [Tabs -> Views] /\ t \in Tabs /\ \A k \in tokens : Waits(k)
  BY DEF UInv
<1>2. VInv(v) /\ v.urls = <<>> /\ v.lives = x.lives /\ v.launch = x.launch
  <2>. DEFINE y == Urls!UrlsReset(x)
  <2>1. VInv(y) /\ y.urls = <<>> /\ y.lives = x.lives /\ y.launch = x.launch
    BY <1>1, ResetIs
  <2>2. v = IF ctrl THEN Urls!HoverCleared(y) ELSE y
    OBVIOUS
  <2>. HIDE DEF y, v
  <2>. QED
    BY <2>1, <2>2, HoverClearedIs
<1>3. /\ term' = [term EXCEPT ![t] = v] /\ opened' = opened
      /\ labels' = [labels EXCEPT !.labels = Urls!LabelsReset(t)]
  BY DEF Urls!UrlsOpenAtPosition
<1>4. tokens' = tokens \/ \E url : tokens' = Urls!Awaited(t, url, "own")
  BY Zenon DEF Urls!UrlsOpenAtPosition
<1>5. \A k \in tokens' : Waits(k)
  BY <1>1, <1>4, AwaitedIs
<1>. HIDE DEF v
<1>. QED
  BY <1>1, <1>2, <1>3, <1>5, ModeEnds

LEMMA ActivationTokenDoneStep ==
    ASSUME UInv, NEW k \in tokens, Urls!ActivationTokenDone(k)
    PROVE  UInv'
<1>1. Waits(k) /\ opened = TRUE
  BY DEF UInv
<1>2. opened' = TRUE
  BY <1>1 DEF Urls!ActivationTokenDone, Waits
<1>3. tokens' \subseteq tokens /\ UNCHANGED <<labels, term>>
  BY DEF Urls!ActivationTokenDone
<1>4. \A j \in tokens' : Waits(j)'
  BY <1>3 DEF UInv, Waits
<1>. QED
  BY <1>2, <1>3, <1>4 DEF UInv

LEMMA UrlsHoverUpdateStep ==
    ASSUME UInv, NEW cell, Urls!UrlsHoverUpdate(cell)
    PROVE  UInv'
<1>. DEFINE t == labels.active
            x == term[t]
            found == Found(x.shows)
            cache == IF x.cache = {} THEN Urls!UrlsCollect(x.shows, TRUE) ELSE CHOOSE c \in x.cache : TRUE
            hit == {i \in 1 .. Len(cache) : Urls!Covers(cache[i], cell)}
            same == \E u \in x.hover : Urls!Covers(u, cell)
            hover == IF same THEN x.hover ELSE {cache[i] : i \in {j \in hit : \A k \in hit : j <= k}}
            tagged == IF same THEN x.tagged ELSE {x.cols : i \in hit}
            v == [x EXCEPT !.cache = {cache}, !.hover = hover, !.tagged = tagged]
<1>1. VInv(x) /\ x \in Views /\ term \in [Tabs -> Views] /\ t \in Tabs /\ \A k \in tokens : Waits(k)
  BY DEF UInv
<1>2. UNCHANGED <<labels, tokens, opened>>
  BY DEF Urls!UrlsHoverUpdate
<1>3. term' = [term EXCEPT ![t] = v]
  BY <1>1, Zenon DEF Urls!UrlsHoverUpdate
<1>4. cache = found
  BY <1>1 DEF VInv, Hovering, Found
<1>5. found \in Seq(Ranges) /\ \A i \in 1 .. Len(found) : found[i] \in Ranges
  <2>1. found \in Seq(Ranges)
    BY <1>1, CollectIs DEF Views, Found
  <2>. HIDE DEF found
  <2>. QED
    BY <2>1, ElementOfSeq
<1>. HIDE DEF cache, found
<1>6. \A i \in hit : i \in 1 .. Len(found) /\ cache[i] = found[i]
  BY <1>4
<1>. HIDE DEF hit
<1>7. hover \in SUBSET Ranges /\ tagged \in SUBSET {"wide", "narrow"}
  <2>1. x.hover \in SUBSET Ranges /\ x.tagged \in SUBSET {"wide", "narrow"} /\ x.cols \in {"wide", "narrow"}
    BY <1>1 DEF Views
  <2>. QED
    BY <1>5, <1>6, <2>1
<1>8. \A u \in hover : tagged = {x.cols} /\ \E i \in 1 .. Len(found) : found[i] = u
  <2>1. CASE same
    BY <1>1, <2>1 DEF VInv, Hovering, found
  <2>2. CASE ~same
    BY <1>6, <2>2
  <2>. QED
    BY <2>1, <2>2
<1>. HIDE DEF hover, tagged
<1>9. v \in Views
  BY <1>1, <1>4, <1>5, <1>7 DEF Views
<1>10. /\ v.urls = x.urls /\ v.keys = x.keys /\ v.ime = x.ime /\ v.reenable = x.reenable /\ v.action = x.action
       /\ v.appIme = x.appIme /\ v.lives = x.lives /\ v.launch = x.launch /\ v.cols = x.cols
       /\ v.hover = hover /\ v.cache = {cache} /\ v.tagged = tagged /\ v.shows = x.shows
  BY <1>1 DEF Views
<1>. HIDE DEF v
<1>11. GoodLabels(v.urls) /\ Typing(v) /\ Ime(v)
  <2>1. GoodLabels(x.urls) /\ Typing(x) /\ Ime(x)
    BY <1>1 DEF VInv
  <2>2. GoodLabels(v.urls)
    BY <1>10, <2>1
  <2>3. Typing(v)
    BY <1>10, <2>1, Zenon DEF Typing
  <2>4. Ime(v)
    BY <1>10, <2>1, Zenon DEF Ime
  <2>. QED
    BY <2>2, <2>3, <2>4
<1>12. Hovering(v)
  BY <1>4, <1>8, <1>10 DEF Hovering, found
<1>. QED
  BY <1>1, <1>2, <1>3, <1>9, <1>10, <1>11, <1>12, ViewChanges DEF VInv

LEMMA UrlsHoverClearStep ==
    ASSUME UInv, Urls!UrlsHoverClear
    PROVE  UInv'
<1>. DEFINE t == labels.active
            v == Urls!HoverCleared(term[t])
<1>1. VInv(term[t]) /\ term \in [Tabs -> Views] /\ t \in Tabs /\ \A k \in tokens : Waits(k)
  BY DEF UInv
<1>2. VInv(v) /\ v.urls = term[t].urls /\ v.lives = term[t].lives /\ v.launch = term[t].launch
  BY <1>1, HoverClearedIs
<1>3. term' = [term EXCEPT ![t] = v] /\ UNCHANGED <<labels, tokens, opened>>
  BY DEF Urls!UrlsHoverClear
<1>. HIDE DEF v
<1>. QED
  BY <1>1, <1>2, <1>3, ViewChanges

LEMMA UrlScrollbackUpStep ==
    ASSUME UInv, NEW screen \in Screens, Urls!ScrollbackUp(screen)
    PROVE  UInv'
<1>. DEFINE t == labels.active
            v == [Urls!HoverCleared(term[t]) EXCEPT !.shows = screen]
<1>1. VInv(term[t]) /\ term \in [Tabs -> Views] /\ t \in Tabs /\ \A k \in tokens : Waits(k)
  BY DEF UInv
<1>2. VInv(v) /\ v.urls = term[t].urls /\ v.lives = term[t].lives /\ v.launch = term[t].launch
  BY <1>1, ClearedIs
<1>3. term' = [term EXCEPT ![t] = v] /\ UNCHANGED <<labels, tokens, opened>>
  BY DEF Urls!ScrollbackUp
<1>. HIDE DEF v
<1>. QED
  BY <1>1, <1>2, <1>3, ViewChanges

LEMMA UrlRenderResizeStep ==
    ASSUME UInv, NEW cols \in {"wide", "narrow"}, Urls!RenderResize(cols), Admitted = {}
    PROVE  UInv'
<1>. DEFINE t == labels.active
            v == [Urls!UrlsReset(term[t]) EXCEPT !.cols = cols]
<1>1. VInv(term[t]) /\ term \in [Tabs -> Views] /\ t \in Tabs /\ \A k \in tokens : Waits(k)
  BY DEF UInv
<1>2. /\ term' = [term EXCEPT ![t] = v] /\ UNCHANGED <<tokens, opened>> /\ term[t].cache = {}
      /\ labels' = [labels EXCEPT !.labels = Urls!LabelsReset(t)]
  BY DEF Urls!RenderResize
<1>3. VInv(v) /\ v.urls = <<>> /\ v.lives = term[t].lives /\ v.launch = term[t].launch
  BY <1>1, <1>2, ResizedIs
<1>. HIDE DEF v
<1>. QED
  BY <1>1, <1>2, <1>3, ModeEnds

\* Another tab is shown, and no terminal is in URL mode.
LEMMA AnotherIsShown ==
    ASSUME UInv, NEW t \in Tabs, labels' = [labels EXCEPT !.active = t, !.labels = {}],
           term' \in [Tabs -> Views],
           \A u \in Tabs : VInv(term'[u]) /\ term'[u].urls = <<>> /\ term'[u].launch = term[u].launch,
           term'[t].lives, \A k \in tokens : term'[k.tab].lives, UNCHANGED <<tokens, opened>>
    PROVE  UInv'
<1>1. labels' = [active |-> t, labels |-> {}]
  BY DEF UInv
<1>2. labels'.labels = {<<labels'.active, i>> : i \in 1 .. Len(term'[labels'.active].urls)}
  BY <1>1, EmptySeq
<1>3. \A k \in tokens' : Waits(k)'
  BY DEF UInv, Waits
<1>. QED
  BY <1>1, <1>2, <1>3 DEF UInv

LEMMA UrlTabSwitchStep ==
    ASSUME UInv, NEW t \in Tabs, Urls!TabSwitch(t), Admitted = {}
    PROVE  UInv'
<1>. DEFINE a == labels.active
            v == [Urls!UrlsReset(term[t]) EXCEPT !.cols = term[a].cols]
<1>1. /\ VInv(term[t]) /\ term \in [Tabs -> Views] /\ a \in Tabs /\ \A k \in tokens : Waits(k)
      /\ \A u \in Tabs : VInv(term[u]) /\ (u # a => term[u].urls = <<>>)
  BY DEF UInv
<1>2. /\ t # a /\ term[t].lives /\ term[a].urls = <<>>
      /\ term[t].cache = {} \/ term[t].cols = term[a].cols
      /\ labels' = [labels EXCEPT !.active = t, !.labels = Urls!LabelsReset(t)]
      /\ term' = [term EXCEPT ![t] = v] /\ UNCHANGED <<tokens, opened>>
  BY DEF Urls!TabSwitch, Urls!Switched, Urls!InUrlMode
<1>3. VInv(v) /\ v.urls = <<>> /\ v.lives = term[t].lives /\ v.launch = term[t].launch
  <2>1. term[a].cols \in {"wide", "narrow"}
    BY <1>1 DEF Views
  <2>. QED
    BY <1>1, <1>2, <2>1, ResizedIs
<1>. HIDE DEF v
<1>4. labels' = [labels EXCEPT !.active = t, !.labels = {}]
  BY <1>2, LabelsAre
<1>5. /\ term' \in [Tabs -> Views]
      /\ \A u \in Tabs : term'[u] = IF u = t THEN v ELSE term[u]
  BY <1>1, <1>2, <1>3 DEF VInv
<1>6. /\ \A u \in Tabs : VInv(term'[u]) /\ term'[u].urls = <<>> /\ term'[u].launch = term[u].launch
      /\ \A u \in Tabs : term'[u].lives = term[u].lives
  BY <1>1, <1>2, <1>3, <1>5
<1>7. \A k \in tokens : term'[k.tab].lives
  BY <1>1, <1>6 DEF Waits
<1>. QED
  BY <1>2, <1>4, <1>5, <1>6, <1>7, AnotherIsShown

LEMMA EndedIs ==
    ASSUME NEW x, VInv(x)
    PROVE  LET r == [Urls!HoverCleared(Urls!UrlsReset(x)) EXCEPT !.lives = FALSE]
           IN VInv(r) /\ r.urls = <<>> /\ r.launch = x.launch
<1>. DEFINE y == Urls!UrlsReset(x)
            z == Urls!HoverCleared(y)
            r == [z EXCEPT !.lives = FALSE]
<1>1. VInv(y) /\ y.urls = <<>> /\ y.launch = x.launch
  BY ResetIs
<1>. HIDE DEF y
<1>2. VInv(z) /\ z.urls = <<>> /\ z.launch = x.launch
  BY <1>1, HoverClearedIs
<1>. HIDE DEF z
<1>3. z \in Views /\ GoodLabels(z.urls) /\ Typing(z) /\ Ime(z) /\ Hovering(z)
  BY <1>2 DEF VInv
<1>4. /\ r \in Views /\ r.urls = z.urls /\ r.keys = z.keys /\ r.ime = z.ime /\ r.reenable = z.reenable
      /\ r.action = z.action /\ r.appIme = z.appIme /\ r.launch = z.launch /\ r.cols = z.cols
      /\ r.hover = z.hover /\ r.cache = z.cache /\ r.tagged = z.tagged /\ r.shows = z.shows
  BY <1>3 DEF Views
<1>. HIDE DEF r
<1>5. GoodLabels(r.urls)
  BY <1>3, <1>4
<1>6. Typing(r)
  BY <1>3, <1>4, Zenon DEF Typing
<1>7. Ime(r)
  BY <1>3, <1>4, Zenon DEF Ime
<1>8. Hovering(r)
  BY <1>3, <1>4, Zenon DEF Hovering
<1>. QED
  BY <1>2, <1>4, <1>5, <1>6, <1>7, <1>8 DEF VInv, r, z, y

LEMMA UrlShellExitsStep ==
    ASSUME UInv, NEW t \in Tabs, Urls!ShellExits(t), Admitted = {}
    PROVE  UInv'
<1>. DEFINE d == [Urls!HoverCleared(Urls!UrlsReset(term[t])) EXCEPT !.lives = FALSE]
            Gone(f) == [f EXCEPT ![t] = [Urls!HoverCleared(Urls!UrlsReset(@)) EXCEPT !.lives = FALSE]]
            W(u) == [Urls!UrlsReset(term[u]) EXCEPT !.cols = term[t].cols]
<1>1. /\ term \in [Tabs -> Views] /\ labels.active \in Tabs /\ \A k \in tokens : Waits(k)
      /\ \A u \in Tabs : VInv(term[u]) /\ (u # labels.active => term[u].urls = <<>>)
  BY DEF UInv
<1>2. PICK other \in Tabs \ {t} :
         /\ term[t].lives /\ term[other].lives
         /\ term[t].urls = <<>> /\ \A k \in tokens : k.tab # t
         /\ term[other].cache = {} \/ term[other].cols = term[t].cols
         /\ IF t = labels.active
            THEN /\ labels' = [labels EXCEPT !.active = other, !.labels = Urls!LabelsReset(other)]
                 /\ term' = Gone([term EXCEPT ![other] = W(other)])
            ELSE labels' = labels /\ term' = Gone(term)
         /\ UNCHANGED <<tokens, opened>>
  BY Zenon DEF Urls!ShellExits, Urls!InUrlMode
<1>3. VInv(d) /\ d.urls = <<>> /\ d.launch = term[t].launch
  BY <1>1, EndedIs
<1>4. /\ VInv(W(other)) /\ W(other).urls = <<>> /\ W(other).lives = term[other].lives
      /\ W(other).launch = term[other].launch
  <2>1. term[t].cols \in {"wide", "narrow"}
    BY <1>1 DEF Views
  <2>. QED
    BY <1>1, <1>2, <2>1, ResizedIs
<1>5. \A f : f \in [Tabs -> Views] /\ f[t] = term[t] => Gone(f) = [f EXCEPT ![t] = d]
  OBVIOUS
<1>. HIDE DEF d, W, Gone
<1>6. d \in Views /\ W(other) \in Views
  BY <1>3, <1>4 DEF VInv
<1>7. CASE t = labels.active
  <2>. DEFINE f == [term EXCEPT ![other] = W(other)]
  <2>1. f \in [Tabs -> Views] /\ f[t] = term[t] /\ \A u \in Tabs : f[u] = IF u = other THEN W(other) ELSE term[u]
    BY <1>1, <1>2, <1>6
  <2>2. term' = Gone(f)
    BY <1>2, <1>7
  <2>. HIDE DEF f
  <2>3. term' = [f EXCEPT ![t] = d]
    BY <1>5, <2>1, <2>2
  <2>4. /\ term' \in [Tabs -> Views]
        /\ \A u \in Tabs : term'[u] = IF u = t THEN d ELSE IF u = other THEN W(other) ELSE term[u]
    BY <1>6, <2>1, <2>3
  <2>5. labels' = [labels EXCEPT !.active = other, !.labels = {}]
    BY <1>2, <1>7, LabelsAre
  <2>6. \A u \in Tabs : VInv(term'[u]) /\ term'[u].urls = <<>> /\ term'[u].launch = term[u].launch
    BY ZenonT(30), <1>1, <1>2, <1>3, <1>4, <1>7, <2>4
  <2>7. term'[other].lives /\ \A k \in tokens : term'[k.tab].lives
    BY <1>1, <1>2, <1>4, <2>4 DEF Waits
  <2>. QED
    BY <1>2, <2>4, <2>5, <2>6, <2>7, AnotherIsShown
<1>8. CASE t # labels.active
  <2>1. labels' = labels /\ term' = Gone(term) /\ UNCHANGED <<tokens, opened>>
    BY <1>2, <1>8
  <2>2. term' = [term EXCEPT ![t] = d]
    BY <1>1, <1>5, <2>1
  <2>3. /\ term' \in [Tabs -> Views]
        /\ \A u \in Tabs : term'[u] = IF u = t THEN d ELSE term[u]
    BY <1>1, <1>6, <2>2
  <2>4. \A u \in Tabs : VInv(term'[u]) /\ (u # labels'.active => term'[u].urls = <<>>)
    BY <1>1, <1>3, <2>1, <2>3
  <2>5. \A k \in tokens' : Waits(k)'
    BY <1>1, <1>2, <2>1, <2>3 DEF Waits
  <2>6. term'[labels'.active] = term[labels.active]
    BY <1>1, <1>8, <2>1, <2>3
  <2>. QED
    BY <2>1, <2>3, <2>4, <2>5, <2>6 DEF UInv
<1>. QED
  BY <1>7, <1>8

LEMMA UInvInit == Urls!Init => UInv
<1>. SUFFICES ASSUME Urls!Init PROVE UInv
  OBVIOUS
<1>1. PICK t \in Tabs : labels = [active |-> t, labels |-> {}]
  BY DEF Urls!Init
<1>2. PICK screen \in Screens : term = [u \in Tabs |-> Urls!Fresh(screen)]
  BY DEF Urls!Init
<1>. DEFINE x == Urls!Fresh(screen)
<1>3. /\ x \in Views /\ x.urls = <<>> /\ x.keys = <<>> /\ x.ime = TRUE /\ x.appIme = TRUE
      /\ x.reenable = FALSE /\ x.hover = {} /\ x.cache = {} /\ x.lives = TRUE
  BY EmptySeq DEF Urls!Fresh, Urls!None, Views, Words
<1>. HIDE DEF x
<1>4. VInv(x)
  <2>1. Len(x.urls) = 0 /\ x.cache = {}
    BY <1>3, EmptySeq
  <2>2. GoodLabels(x.urls)
    BY <2>1 DEF GoodLabels
  <2>3. Typing(x) /\ Ime(x) /\ Hovering(x)
    BY <1>3, <2>1 DEF Typing, Ime, Hovering
  <2>. QED
    BY <1>3, <2>2, <2>3 DEF VInv
<1>5. \A u \in Tabs : term[u] = x
  BY <1>2 DEF x
<1>6. term \in [Tabs -> Views]
  BY <1>2, <1>3 DEF x
<1>7. labels.labels = {<<labels.active, i>> : i \in 1 .. Len(term[labels.active].urls)}
  BY <1>1, <1>3, <1>5, EmptySeq
<1>8. tokens = {} /\ opened = TRUE
  BY DEF Urls!Init
<1>. QED
  BY <1>1, <1>3, <1>4, <1>5, <1>6, <1>7, <1>8 DEF UInv

LEMMA UInvStep ==
    ASSUME UInv, Urls!Next, Admitted = {}
    PROVE  UInv'
<1>1. CASE \E t \in Tabs, screen \in Screens : Urls!Output(t, screen)
  BY <1>1, OutputStep
<1>2. CASE \E t \in Tabs : Urls!AppIme(t) \/ Urls!TabSwitch(t) \/ Urls!ShellExits(t)
  BY <1>2, AppImeStep, UrlTabSwitchStep, UrlShellExitsStep
<1>3. CASE \E launcher \in Launchers, action \in {"copy", "launch", "persistent"}, osc8 \in BOOLEAN :
              Urls!UrlsRender(launcher, action, osc8)
  BY <1>3, UrlsRenderStep
<1>4. CASE \E i \in 1 .. Len(Letters) : Urls!UrlsInput(Letters[i])
  BY <1>4, UrlsInputStep, LettersAre
<1>5. CASE Urls!BackSpace \/ Urls!UrlCancel \/ Urls!UrlsHoverClear
  BY <1>5, UrlBackSpaceStep, UrlCancelStep, UrlsHoverClearStep
<1>6. CASE \E cell \in Cells, ctrl \in BOOLEAN : Urls!UrlsOpenAtPosition(cell, ctrl)
  BY <1>6, UrlsOpenAtPositionStep
<1>7. CASE \E k \in tokens : Urls!ActivationTokenDone(k)
  BY <1>7, ActivationTokenDoneStep
<1>8. CASE \E cell \in Cells : Urls!UrlsHoverUpdate(cell)
  BY <1>8, UrlsHoverUpdateStep
<1>9. CASE \E screen \in Screens : Urls!ScrollbackUp(screen)
  BY <1>9, UrlScrollbackUpStep
<1>10. CASE \E cols \in {"wide", "narrow"} : Urls!RenderResize(cols)
  BY <1>10, UrlRenderResizeStep
<1>. QED
  BY <1>1, <1>2, <1>3, <1>4, <1>5, <1>6, <1>7, <1>8, <1>9, <1>10 DEF Urls!Next

LEMMA UrlsUnchanged == ASSUME UInv, UNCHANGED urlVars PROVE UInv'
<1>1. labels' = labels /\ term' = term /\ tokens' = tokens /\ opened' = opened
  BY DEF urlVars
<1>2. \A k \in tokens' : Waits(k)'
  BY <1>1 DEF UInv, Waits
<1>. QED
  BY <1>1, <1>2 DEF UInv

LEMMA UInvIs == ASSUME UInv PROVE Urls!UrlsAreOpenedAsShown
<1>1. ASSUME NEW t \in Tabs
      PROVE  LET x == term[t]
                 keyed == {i \in 1 .. Len(x.urls) : x.urls[i].key # <<>>}
             IN /\ x.keys # <<>> => \E i \in keyed : Urls!StartsWith(x.urls[i].key, x.keys) /\ x.urls[i].key # x.keys
                /\ \A i, j \in keyed : Urls!StartsWith(x.urls[i].key, x.urls[j].key) => x.urls[i].url = x.urls[j].url
                /\ \A i \in 1 .. Len(x.urls) : \E j \in keyed : x.urls[j].url = x.urls[i].url
                /\ \A u \in x.hover : x.tagged = {x.cols}
                     /\ \E i \in 1 .. Len(Urls!UrlsCollect(x.shows, TRUE)) : Urls!UrlsCollect(x.shows, TRUE)[i] = u
                /\ x.lives /\ ~Urls!InUrlMode(t) => x.ime = x.appIme
  <2>1. Typing(term[t]) /\ GoodLabels(term[t].urls) /\ Ime(term[t]) /\ Hovering(term[t])
    BY DEF UInv, VInv
  <2>2. ~Urls!InUrlMode(t) => term[t].urls = <<>>
    BY DEF Urls!InUrlMode
  <2>. DEFINE x == term[t]
  <2>. HIDE DEF x
  <2>3. Typing(x) /\ GoodLabels(x.urls) /\ Ime(x) /\ Hovering(x) /\ (~Urls!InUrlMode(t) => x.urls = <<>>)
    BY <2>1, <2>2 DEF x
  <2>. DEFINE keyed == {i \in 1 .. Len(x.urls) : x.urls[i].key # <<>>}
  <2>4. x.keys # <<>> => \E i \in keyed : Urls!StartsWith(x.urls[i].key, x.keys) /\ x.urls[i].key # x.keys
    BY <2>3 DEF Typing
  <2>5. \A i, j \in keyed : Urls!StartsWith(x.urls[i].key, x.urls[j].key) => x.urls[i].url = x.urls[j].url
    BY <2>3 DEF GoodLabels
  <2>6. \A i \in 1 .. Len(x.urls) : \E j \in keyed : x.urls[j].url = x.urls[i].url
    BY <2>3 DEF GoodLabels
  <2>7. \A u \in x.hover : x.tagged = {x.cols}
           /\ \E i \in 1 .. Len(Urls!UrlsCollect(x.shows, TRUE)) : Urls!UrlsCollect(x.shows, TRUE)[i] = u
    BY <2>3 DEF Hovering, Found
  <2>8. ~Urls!InUrlMode(t) => x.ime = x.appIme
    BY <2>3, Zenon DEF Ime
  <2>. QED
    BY <2>4, <2>5, <2>6, <2>7, <2>8 DEF x
<1>. QED
  BY <1>1 DEF UInv, Urls!UrlsAreOpenedAsShown

\* A URL that is chosen by its label, or clicked, is the one that is opened, by the launcher it was
\* chosen for; its label, which begins no other URL's, is in the window that shows it, what is
\* hovered is there, and out of URL mode the input method is as the application asked, however
\* many tabs, URLs and letters there are and whatever the applications, the user and the
\* compositor's tokens do (url-mode.c), when what is known to go wrong is left out as in the
\* run (UrlMode's Defects).
THEOREM UrlsAreAsShown ==
    Admitted = {} => (MCSpec => []UrlsAreOpenedAsShown)
<1>. DEFINE Inv == part = "urls" => UInv
<1>. SUFFICES ASSUME Admitted = {} PROVE MCSpec => []UrlsAreOpenedAsShown
  OBVIOUS
<1>1. MCInit => Inv
  BY UInvInit DEF MCInit
<1>2. Inv /\ [MCNext]_<<part, vars, mouseVars, keyVars, urlVars, clipVars>> => Inv'
  <2>. SUFFICES ASSUME Inv, [MCNext]_<<part, vars, mouseVars, keyVars, urlVars, clipVars>>,
                       part' = "urls"
                PROVE  UInv'
    OBVIOUS
  <2>1. CASE part = "urls" /\ Urls!Next
    BY <2>1, UInvStep
  <2>2. CASE part' = part /\ UNCHANGED urlVars
    BY <2>2, UrlsUnchanged
  <2>. QED
    BY <2>1, <2>2 DEF MCNext
<1>3. Inv => UrlsAreOpenedAsShown
  BY UInvIs DEF UrlsAreOpenedAsShown
<1>. QED
  BY <1>1, <1>2, <1>3, PTL DEF MCSpec
===============================================================================
