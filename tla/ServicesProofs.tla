---------------------------- MODULE ServicesProofs ----------------------------
(***************************************************************************)
(* Proofs about the parts of ServiceParts, for every value of their        *)
(* constants.  A behaviour of PartsSpec moves one part, so each proof has  *)
(* two halves: what a part's own Init and Next establish and keep, and a   *)
(* lemma that a step of PartsSpec is, for the part that moves, a step of   *)
(* that part or none.  The last section puts the parts together: what all  *)
(* of them promise, by the kind of the promise.                            *)
(***************************************************************************)
EXTENDS ServiceParts, SequenceTheorems, FiniteSetTheorems, WellFoundedInduction,
        TLAPS

-----------------------------------------------------------------------------
(* Whole numbers and their quotients. *)

\* What the quotient of a division is: the multiples of b on both sides of a.
LEMMA Quotient ==
  ASSUME NEW a \in Int, NEW b \in Nat \ {0}
  PROVE  a \div b \in Int /\ b * (a \div b) <= a /\ a < b * (a \div b) + b
  OBVIOUS

\* The quotient is the number between those multiples.
LEMMA QuotientIs ==
  ASSUME NEW a \in Int, NEW b \in Nat \ {0}, NEW q \in Int, b * q <= a, a < b * q + b
  PROVE  a \div b = q
<1> DEFINE p == a \div b
<1>1. p \in Int /\ b * p <= a /\ a < b * p + b
  BY Quotient
<1>2. ~(p < q)
  <2> SUFFICES ASSUME p < q PROVE FALSE
    OBVIOUS
  <2>1. b * (p + 1) <= b * q
    BY <1>1
  <2> QED
    BY <2>1, <1>1
<1>3. ~(q < p)
  <2> SUFFICES ASSUME q < p PROVE FALSE
    OBVIOUS
  <2>1. b * (q + 1) <= b * p
    BY <1>1
  <2> QED
    BY <2>1, <1>1
<1> QED
  BY <1>1, <1>2, <1>3

\* A larger number has no smaller quotient.
LEMMA QuotientGrows ==
  ASSUME NEW a \in Int, NEW c \in Int, NEW b \in Nat \ {0}, a <= c
  PROVE  a \div b <= c \div b
<1> DEFINE p == a \div b
           q == c \div b
<1>1. p \in Int /\ b * p <= a /\ a < b * p + b
  BY Quotient
<1>2. q \in Int /\ b * q <= c /\ c < b * q + b
  BY Quotient
<1> SUFFICES ASSUME q < p PROVE FALSE
  BY <1>1, <1>2
<1>3. b * (q + 1) <= b * p
  BY <1>1, <1>2
<1> QED
  BY <1>1, <1>2, <1>3

\* A set of numbers that is not empty has a least one.
LEMMA LeastNumber ==
  ASSUME NEW S, S \subseteq Nat, S # {}
  PROVE  \E s \in S : \A x \in S : s <= x
<1> DEFINE R == OpToRel(<, Nat)
<1>1. IsWellFoundedOn(R, Nat)
  BY NatLessThanWellFounded
<1>2. \A x, y \in Nat : y < x => <<y, x>> \in R
  BY DEF OpToRel
<1> HIDE DEF R
<1>3. PICK s \in S : \A y \in S : ~(<<y, s>> \in R)
  BY <1>1, WFMin
<1>4. \A y \in S : ~(y < s)
  BY <1>2, <1>3
<1> QED
  BY <1>3, <1>4
-----------------------------------------------------------------------------
(* The panel: LanPanel. *)

\* A step of the model is one of the panel or none, when the panel moves.
LEMMA PanelMoves ==
  ASSUME [PartsNext]_<<part, moving>>, part = "panel"
  PROVE  part' = "panel" /\ (Panel!Next \/ UNCHANGED panelVars)
<1>1. CASE PartsNext
  BY <1>1 DEF PartsNext
<1>2. CASE UNCHANGED <<part, moving>>
  BY <1>2 DEF moving
<1> QED
  BY <1>1, <1>2

\* The LED is off once its thread is done, which the end waits for.
LampInv ==
  /\ light = "done" => ~led
  /\ panelMain = "ended" => light = "done"

\* Only the thread of the LED changes it, and nothing starts that thread again.
LEMMA LampKept ==
  ASSUME LampInv, Panel!Next \/ UNCHANGED panelVars
  PROVE  LampInv'
<1>1. CASE Panel!Lamp
  BY <1>1 DEF LampInv, Panel!Lamp, Panel!On, Panel!Off, Panel!Put, Panel!LedGoes, Panel!server
<1>2. CASE Panel!Main
  BY <1>2 DEF LampInv, Panel!Main, Panel!Acquire, Panel!Accept, Panel!Refuse, Panel!Unserved,
    Panel!Release, Panel!AcceptFails, Panel!Close, Panel!End, Panel!Joined, Panel!lamp
<1>3. CASE Panel!Connect \/ Panel!Signal \/ Panel!Publish
  BY <1>3 DEF LampInv, Panel!Connect, Panel!Signal, Panel!Publish, Panel!lamp, Panel!server
<1>4. ASSUME NEW c \in Clients, Panel!Work(c)
      PROVE  LampInv'
  BY <1>4 DEF LampInv, Panel!Work, Panel!Read, Panel!Open, Panel!Stat, Panel!Send, Panel!Take,
    Panel!Create, Panel!Fill, Panel!Rename, Panel!Export, Panel!Done, Panel!Release, Panel!lamp, Panel!server
<1>5. CASE UNCHANGED panelVars
  BY <1>5 DEF LampInv, panelVars
<1> QED
  BY <1>1, <1>2, <1>3, <1>4, <1>5 DEF Panel!Next

\* A duty is none or in 20..95, one level's share above 20 for each level.
LEMMA DutyRange ==
  ASSUME NEW l \in Lights
  PROVE  /\ Panel!Duty(l) \in {0} \cup 20..95
         /\ l.lux < l.threshold * l.levels =>
              Panel!Level(l) - 1 \in 0..(l.levels - 1)
<1> DEFINE q == l.lux \div l.threshold
           n == l.levels - 1
           x == Panel!Level(l) - 1
<1>1. /\ l.lux \in Nat /\ l.threshold \in Nat \ {0} /\ l.levels \in Nat \ {0, 1}
      /\ n \in Nat \ {0}
  BY LightsAssumption
<1>2. q \in Int /\ l.threshold * q <= l.lux /\ l.lux < l.threshold * q + l.threshold
  <2>1. l.lux \in Int /\ l.threshold \in Nat \ {0}
    BY <1>1
  <2> QED
    BY ONLY <2>1, Quotient
<1>3. 0 <= q
  <2> SUFFICES ASSUME q <= -1 PROVE FALSE
    BY <1>2
  <2>1. l.threshold * (q + 1) <= 0
    BY <1>1, <1>2
  <2> QED
    BY <2>1, <1>1, <1>2
<1>4. ASSUME l.lux < l.threshold * l.levels
      PROVE  q <= n
  <2> SUFFICES ASSUME l.levels <= q PROVE FALSE
    BY <1>1, <1>2
  <2>1. l.threshold * l.levels <= l.threshold * q
    BY <1>1, <1>2
  <2> QED
    BY <2>1, <1>1, <1>2, <1>4
<1>5. x = n - q
  BY <1>1, <1>2 DEF Panel!Level
<1>6. ASSUME l.lux < l.threshold * l.levels
      PROVE  x \in 0..n /\ (x * 75) \div n \in 0..75
  <2>1. x \in 0..n
    BY <1>1, <1>2, <1>3, <1>4, <1>5, <1>6
  <2> DEFINE d == (x * 75) \div n
  <2>2. d \in Int /\ n * d <= x * 75 /\ x * 75 < n * d + n
    <3>1. x * 75 \in Int /\ n \in Nat \ {0}
      BY <2>1, <1>1
    <3> HIDE DEF x, n
    <3> QED
      BY ONLY <3>1, Quotient
  <2>3. 0 <= d
    <3> SUFFICES ASSUME d <= -1 PROVE FALSE
      BY <2>2
    <3>1. n * (d + 1) <= 0
      BY <1>1, <2>2
    <3> QED
      BY <3>1, <2>1, <2>2, <1>1
  <2>4. d <= 75
    <3> SUFFICES ASSUME 76 <= d PROVE FALSE
      BY <2>2
    <3>1. n * 76 <= n * d
      BY <1>1, <2>2
    <3> QED
      BY <3>1, <2>1, <2>2, <1>1
  <2> QED
    BY <2>1, <2>2, <2>3, <2>4
<1>7. CASE l.lux >= l.threshold * l.levels
  BY <1>7, <1>1 DEF Panel!Duty
<1>8. CASE l.lux < l.threshold * l.levels
  <2>1. Panel!Duty(l) = 20 + ((x * 75) \div n)
    BY <1>8, <1>1 DEF Panel!Duty
  <2> QED
    BY <2>1, <1>6, <1>8
<1> QED
  BY <1>1, <1>6, <1>7, <1>8

\* More light is no higher level, and a level that is no higher is no higher duty.
LEMMA DutyOrder ==
  ASSUME NEW a \in Lights, NEW b \in Lights, a.threshold = b.threshold, a.levels = b.levels, a.lux <= b.lux
  PROVE  Panel!Duty(b) <= Panel!Duty(a)
<1> DEFINE t == a.threshold
           n == a.levels - 1
           m == a.threshold * a.levels
           x == Panel!Level(a) - 1
           y == Panel!Level(b) - 1
<1>1. /\ a.lux \in Nat /\ b.lux \in Nat /\ t \in Nat \ {0} /\ a.levels \in Nat \ {0, 1}
      /\ n \in Nat \ {0} /\ m \in Nat
  BY LightsAssumption
<1>2. Panel!Duty(a) \in {0} \cup 20..95 /\ Panel!Duty(b) \in {0} \cup 20..95
  BY DutyRange
<1>3. CASE b.lux >= m
  BY <1>1, <1>2, <1>3 DEF Panel!Duty
<1>4. CASE b.lux < m
  <2>1. a.lux < m
    BY <1>1, <1>4
  <2>2. x \in Int /\ y \in Int /\ y <= x
    <3>1. a.lux \div t <= b.lux \div t
      BY <1>1, QuotientGrows
    <3>2. a.lux \div t \in Int /\ b.lux \div t \in Int
      BY <1>1, Quotient
    <3> QED
      BY <3>1, <3>2, <1>1 DEF Panel!Level
  <2>3. (y * 75) \div n <= (x * 75) \div n
    BY <2>2, <1>1, QuotientGrows
  <2>4. (y * 75) \div n \in Int /\ (x * 75) \div n \in Int
    BY <2>2, <1>1, Quotient
  <2>5. Panel!Duty(a) = 20 + ((x * 75) \div n) /\ Panel!Duty(b) = 20 + ((y * 75) \div n)
    BY <2>1, <1>4, <1>1 DEF Panel!Duty
  <2> QED
    BY <2>3, <2>4, <2>5
<1> QED
  BY <1>1, <1>3, <1>4

\* Once the panel's server is gone its LED is off, and more light never makes
\* the LED brighter.
THEOREM LampIsRight == PartsSpec => []LightIsRight
<1>1. PartsInit => LampInv
  BY DEF PartsInit, Panel!Init, LampInv
<1>2. (part = "panel" => LampInv) /\ [PartsNext]_<<part, moving>> => (part = "panel" => LampInv)'
  <2> SUFFICES ASSUME part = "panel" => LampInv, [PartsNext]_<<part, moving>>, part' = "panel"
               PROVE  LampInv'
    OBVIOUS
  <2>1. part = "panel"
    BY DEF PartsNext
  <2> QED
    BY <2>1, PanelMoves, LampKept
<1>3. (part = "panel" => LampInv) => LightIsRight
  BY DutyRange, DutyOrder DEF LightIsRight, LampInv, Panel!LedIsOff, Panel!DutyFalls
<1> QED
  BY <1>1, <1>2, <1>3, PTL DEF PartsSpec

-----------------------------------------------------------------------------
(* The history of the temperature: RoutineHistory. *)

\* A step of the model is one of the history or none, when the history moves.
LEMMA HistoryMoves ==
  ASSUME [PartsNext]_<<part, moving>>, part = "history"
  PROVE  part' = "history" /\ (History!Next \/ UNCHANGED historyVars)
<1>1. CASE PartsNext
  BY <1>1 DEF PartsNext
<1>2. CASE UNCHANGED <<part, moving>>
  BY <1>2 DEF moving
<1> QED
  BY <1>1, <1>2

Point == [at : Int, live : BOOLEAN]
Curve == [at : Nat, interval : Intervals, attached : BOOLEAN, points : Seq(Point), slot : Int, live : BOOLEAN]
\* The points p of the interval i end at the slot s, with none left out.
EvenTo(p, i, s) == \A k \in 1..Len(p) : p[k].at \div i = s - (Len(p) - k)
\* A curve with points has a slot, and they are one for each slot up to it.
GoodCurve(c) ==
  /\ c \in Curve /\ (c.slot = -1 <=> c.points = <<>>) /\ c.slot >= -1
  /\ EvenTo(c.points, c.interval, c.slot)

\* The parts of a curve.
LEMMA CurveParts ==
  ASSUME NEW c \in Curve
  PROVE  /\ c.at \in Nat /\ c.interval \in Nat \ {0} /\ c.interval \in Intervals
         /\ c.attached \in BOOLEAN /\ c.points \in Seq(Point) /\ c.slot \in Int /\ c.live \in BOOLEAN
  BY CurveAssumption DEF Curve

\* The curve c with the points p, the last of them in the slot s, is a curve.
With(c, p, s) == [c EXCEPT !.points = p, !.slot = s]
\* It is a curve, with those points.
LEMMA CurveWith ==
  ASSUME NEW c \in Curve, NEW p \in Seq(Point), NEW s \in Int
  PROVE  /\ With(c, p, s) \in Curve /\ With(c, p, s).points = p /\ With(c, p, s).slot = s
         /\ With(c, p, s).interval = c.interval
<1> DEFINE d == With(c, p, s)
           e == [at |-> c.at, interval |-> c.interval, attached |-> c.attached, points |-> p,
                 slot |-> s, live |-> c.live]
<1>1. d = e
  <2>1. DOMAIN c = {"at", "interval", "attached", "points", "slot", "live"}
    BY DEF Curve
  <2>2. \A f \in DOMAIN c : d[f] = e[f]
    <3> SUFFICES ASSUME NEW f \in {"at", "interval", "attached", "points", "slot", "live"}
                 PROVE  With(c, p, s)[f] = e[f]
      BY <2>1
    <3>1. CASE f = "points"
      BY <2>1, <3>1 DEF With
    <3>2. CASE f = "slot"
      BY <2>1, <3>2 DEF With
    <3>3. CASE f = "at"
      BY <2>1, <3>3 DEF With
    <3>4. CASE f = "interval"
      BY <2>1, <3>4 DEF With
    <3>5. CASE f = "attached"
      BY <2>1, <3>5 DEF With
    <3>6. CASE f = "live"
      BY <2>1, <3>6 DEF With
    <3> QED
      BY <3>1, <3>2, <3>3, <3>4, <3>5, <3>6
  <2>3. DOMAIN d = DOMAIN c /\ DOMAIN e = DOMAIN c /\ d = [f \in DOMAIN c |-> d[f]] /\ e = [f \in DOMAIN c |-> e[f]]
    BY <2>1 DEF With
  <2> HIDE DEF d, e
  <2> QED
    BY <2>2, <2>3
<1>2. c.at \in Nat /\ c.interval \in Intervals /\ c.attached \in BOOLEAN /\ c.live \in BOOLEAN
  BY CurveParts
<1> HIDE DEF d
<1>3. d.points = p /\ d.slot = s /\ d.interval = c.interval
  BY <1>1
<1>4. d \in Curve
  BY <1>1, <1>2 DEF Curve
<1> QED
  BY <1>3, <1>4 DEF d

\* What is left of an even row of points is even.
LEMMA NewestEven ==
  ASSUME NEW p \in Seq(Point), NEW i \in Nat \ {0}, NEW s \in Int, EvenTo(p, i, s), p # <<>>
  PROVE  /\ History!Newest(p) \in Seq(Point) /\ History!Newest(p) # <<>>
         /\ EvenTo(History!Newest(p), i, s)
<1>1. CASE Len(p) <= Points
  BY <1>1 DEF History!Newest
<1>2. CASE ~(Len(p) <= Points)
  <2> DEFINE q == SubSeq(p, Len(p) - Points + 1, Len(p))
  <2>1. History!Newest(p) = q
    BY <1>2 DEF History!Newest
  <2>2. Points \in Nat \ {0} /\ Len(p) \in Nat /\ Len(p) > Points
    BY <1>2, CurveAssumption
  <2>3. q \in Seq(Point) /\ Len(q) = Points /\ \A k \in 1..Points : q[k] = p[Len(p) - Points + k]
    BY <2>2
  <2>4. ASSUME NEW k \in 1..Points
        PROVE  q[k].at \div i = s - (Points - k)
    <3>1. Len(p) - Points + k \in 1..Len(p)
      BY <2>2
    <3>2. p[Len(p) - Points + k].at \div i = s - (Len(p) - (Len(p) - Points + k))
      BY <3>1 DEF EvenTo
    <3> QED
      BY <3>2, <2>2, <2>3
  <2> HIDE DEF q
  <2> QED
    BY <2>1, <2>2, <2>3, <2>4 DEF EvenTo
<1> QED
  BY <1>1, <1>2

\* The points before a new one in the slot s: they end at the slot before it.
LEMMA BridgedEven ==
  ASSUME NEW c, GoodCurve(c), NEW s \in Nat, c.slot < s
  PROVE  /\ History!Bridged(c, s) \in Seq(Point)
         /\ EvenTo(History!Bridged(c, s), c.interval, s - 1)
<1> DEFINE n == s - c.slot - 1
           gap == [k \in 1..n |-> [at |-> (c.slot + k) * c.interval, live |-> FALSE]]
<1>1. /\ c.slot \in Int /\ c.interval \in Nat \ {0} /\ n \in Nat /\ c.points \in Seq(Point)
      /\ n = s - c.slot - 1
  <2>1. c \in Curve
    BY DEF GoodCurve
  <2>2. c.slot \in Int /\ c.interval \in Nat \ {0} /\ c.points \in Seq(Point)
    BY <2>1, CurveParts
  <2> QED
    BY <2>2
<1>2. gap \in Seq(Point) /\ Len(gap) = n
  <2>1. \A k \in 1..n : [at |-> (c.slot + k) * c.interval, live |-> FALSE] \in Point
    BY <1>1 DEF Point
  <2> QED
    BY <2>1, <1>1
<1>3. CASE c.slot = -1
  BY <1>3 DEF History!Bridged, History!NoSlot, GoodCurve, EvenTo, Curve
<1>4. CASE c.slot # -1
  <2>1. History!Bridged(c, s) = IF Len(gap) >= Points THEN <<>> ELSE c.points \o gap
    BY <1>4 DEF History!Bridged, History!NoSlot, History!Missing
  <2>2. \A k \in 1..n : gap[k].at \div c.interval = c.slot + k
    <3> SUFFICES ASSUME NEW k \in 1..n PROVE gap[k].at \div c.interval = c.slot + k
      OBVIOUS
    <3> DEFINE a == (c.slot + k) * c.interval
    <3>1. gap[k].at = a
      OBVIOUS
    <3>2. a \in Int /\ c.slot + k \in Int /\ c.interval * (c.slot + k) <= a
          /\ a < c.interval * (c.slot + k) + c.interval
      BY <1>1
    <3> HIDE DEF a
    <3>3. a \div c.interval = c.slot + k
      BY <3>2, <1>1, QuotientIs
    <3> QED
      BY <3>1, <3>3
  <2> DEFINE r == c.points \o gap
             l == Len(c.points)
  <2>3. r \in Seq(Point) /\ l \in Nat /\ Len(r) = l + n
        /\ \A k \in 1..(l + n) : r[k] = IF k <= l THEN c.points[k] ELSE gap[k - l]
    <3>1. c.points \in Seq(Point) /\ gap \in Seq(Point) /\ Len(gap) = n /\ l \in Nat
      BY <1>1, <1>2
    <3> HIDE DEF gap, n
    <3> QED
      BY <3>1, ConcatProperties
  <2> HIDE DEF r, gap, n, l
  <2>4. EvenTo(r, c.interval, s - 1)
    <3> SUFFICES ASSUME NEW k \in 1..Len(r)
                 PROVE  r[k].at \div c.interval = (s - 1) - (Len(r) - k)
      BY DEF EvenTo
    <3>0. k \in Int /\ l \in Nat /\ k \in 1..(l + n) /\ Len(r) = l + n
      BY <1>1, <2>3
    <3>6. /\ c.slot - (l - k) = (s - 1) - ((l + n) - k)
          /\ c.slot + (k - l) = (s - 1) - ((l + n) - k)
      <4> DEFINE at == c.slot
      <4>1. at \in Int /\ k \in Int /\ l \in Nat /\ s \in Nat /\ n \in Nat /\ n = s - at - 1
        BY <1>1, <3>0
      <4> HIDE DEF at
      <4>2. /\ at - (l - k) = (s - 1) - ((l + n) - k)
            /\ at + (k - l) = (s - 1) - ((l + n) - k)
        BY ONLY <4>1
      <4> QED
        BY <4>2 DEF at
    <3>1. CASE k <= l
      <4>1. c.points[k].at \div c.interval = c.slot - (l - k)
        BY <3>1, <2>3 DEF GoodCurve, EvenTo, l
      <4>2. c.slot - (l - k) = (s - 1) - ((l + n) - k)
        BY <3>6
      <4> QED
        BY <4>1, <4>2, <3>0, <3>1, <2>3
    <3>5. CASE ~(k <= l)
      <4>1. k - l \in 1..n
        BY <3>0, <3>5, <1>1
      <4>2. gap[k - l].at \div c.interval = c.slot + (k - l)
        BY <4>1, <2>2
      <4>3. c.slot + (k - l) = (s - 1) - ((l + n) - k)
        BY <3>6
      <4> QED
        BY <4>2, <4>3, <3>0, <3>5, <2>3
    <3> QED
      BY <3>1, <3>5
  <2>5. <<>> \in Seq(Point) /\ EvenTo(<<>>, c.interval, s - 1)
    BY DEF EvenTo
  <2>6. History!Bridged(c, s) \in {<<>>, r}
    BY <2>1 DEF r
  <2> QED
    BY <2>3, <2>4, <2>5, <2>6
<1> QED
  BY <1>3, <1>4

\* A sample keeps the curve even, whatever the clock and the interval did before.
LEMMA SampledGood ==
  ASSUME NEW c, GoodCurve(c), NEW lives \in BOOLEAN
  PROVE  GoodCurve(History!Sampled(c, lives)) /\ History!Sampled(c, lives).interval = c.interval
<1> DEFINE s == c.at \div c.interval
           point == [at |-> c.at, live |-> lives]
           b == IF s < c.slot THEN History!Empty(c) ELSE c
           p == Append(History!Bridged(b, s), point)
<1>1. /\ c \in Curve /\ c.at \in Nat /\ c.interval \in Nat \ {0} /\ c.slot \in Int
      /\ c.points \in Seq(Point)
  BY CurveAssumption DEF GoodCurve, Curve
<1>2. s \in Nat /\ point \in Point
  <2>1. s \in Int /\ c.interval * s <= c.at /\ c.at < c.interval * s + c.interval
    <3>1. c.at \in Int /\ c.interval \in Nat \ {0}
      BY <1>1
    <3> QED
      BY ONLY <3>1, Quotient
  <2>2. 0 <= s
    <3> SUFFICES ASSUME s <= -1 PROVE FALSE
      BY <2>1
    <3>1. c.interval * (s + 1) <= 0
      BY <1>1, <2>1
    <3> QED
      BY <3>1, <2>1, <1>1
  <2> QED
    BY <2>1, <2>2, <1>1 DEF Point
<1>3. CASE c.at = 0
  BY <1>3 DEF History!Sampled, History!Unknown
<1>4. CASE c.at # 0 /\ c.slot = s /\ c.points # <<>>
  <2> DEFINE q == [c.points EXCEPT ![Len(c.points)] = point]
  <2>1. History!Sampled(c, lives) = [c EXCEPT !.points = q]
    BY <1>4 DEF History!Sampled, History!Unknown
  <2> DEFINE l == Len(c.points)
  <2>2. l \in Nat \ {0} /\ q \in Seq(Point) /\ Len(q) = l
        /\ \A k \in 1..l : q[k] = IF k = l THEN point ELSE c.points[k]
    BY <1>1, <1>2, <1>4
  <2>3. EvenTo(q, c.interval, s)
    <3> SUFFICES ASSUME NEW k \in 1..l PROVE q[k].at \div c.interval = s - (l - k)
      BY <2>2 DEF EvenTo
    <3>1. CASE k = l
      BY <3>1, <2>2, <1>2
    <3>2. CASE k # l
      BY <3>2, <2>2, <1>4 DEF GoodCurve, EvenTo
    <3> QED
      BY <3>1, <3>2
  <2>4. q # <<>>
    BY <2>2
  <2> HIDE DEF q, s
  <2> DEFINE d == [c EXCEPT !.points = q]
  <2>5. d = With(c, q, c.slot)
    BY <1>1 DEF Curve, With
  <2>6. d \in Curve /\ d.points = q /\ d.slot = c.slot /\ d.interval = c.interval
    <3> HIDE DEF d
    <3>1. q \in Seq(Point) /\ c.slot \in Int /\ c \in Curve
      BY <2>2, <1>1
    <3> QED
      BY <2>5, <3>1, CurveWith
  <2> HIDE DEF d
  <2> QED
    BY <2>1, <2>3, <2>4, <2>6, <1>2, <1>4 DEF GoodCurve, d
<1>5. CASE c.at # 0 /\ ~(c.slot = s /\ c.points # <<>>)
  <2>1. History!Sampled(c, lives) = [b EXCEPT !.points = History!Newest(p), !.slot = s]
    BY <1>5 DEF History!Sampled, History!Unknown
  <2>2. GoodCurve(b) /\ b.interval = c.interval /\ b.slot < s
    <3>1. CASE s < c.slot
      <4>1. b = With(c, <<>>, -1)
        BY <3>1 DEF History!Empty, History!NoSlot, With
      <4> HIDE DEF b
      <4>2. b \in Curve /\ b.points = <<>> /\ b.slot = -1 /\ b.interval = c.interval
        <5>1. <<>> \in Seq(Point) /\ -1 \in Int
          OBVIOUS
        <5> QED
          BY <4>1, <5>1, <1>1, CurveWith
      <4> QED
        BY <4>2, <1>2 DEF GoodCurve, EvenTo
    <3>2. CASE ~(s < c.slot)
      <4>1. c.slot # s
        BY <1>5, <1>2 DEF GoodCurve
      <4> HIDE DEF s
      <4> QED
        BY <3>2, <4>1, <1>1, <1>2
    <3> QED
      BY <3>1, <3>2
  <2> HIDE DEF b
  <2>3. /\ History!Bridged(b, s) \in Seq(Point)
        /\ EvenTo(History!Bridged(b, s), c.interval, s - 1)
    BY <2>2, <1>2, BridgedEven
  <2> DEFINE h == History!Bridged(b, s)
  <2> HIDE DEF h
  <2>4. p \in Seq(Point) /\ p # <<>> /\ Len(p) = Len(h) + 1 /\ Len(h) \in Nat
        /\ \A k \in 1..(Len(h) + 1) : p[k] = IF k = Len(h) + 1 THEN point ELSE h[k]
    BY <2>3, <1>2 DEF h
  <2>5. EvenTo(p, c.interval, s)
    <3> SUFFICES ASSUME NEW k \in 1..(Len(h) + 1)
                 PROVE  p[k].at \div c.interval = s - (Len(h) + 1 - k)
      BY <2>4 DEF EvenTo
    <3>1. CASE k = Len(h) + 1
      BY <3>1, <2>4, <1>2
    <3>2. CASE k # Len(h) + 1
      <4>1. k \in 1..Len(h)
        BY <3>2, <2>4
      <4>2. h[k].at \div c.interval = s - 1 - (Len(h) - k)
        BY <4>1, <2>3 DEF EvenTo, h
      <4> HIDE DEF p, s
      <4> QED
        BY <4>1, <4>2, <3>2, <2>4, <1>2
    <3> QED
      BY <3>1, <3>2
  <2> HIDE DEF p, s
  <2>6. /\ History!Newest(p) \in Seq(Point) /\ History!Newest(p) # <<>>
        /\ EvenTo(History!Newest(p), c.interval, s)
    BY <2>4, <2>5, <1>1, <1>2, NewestEven
  <2> DEFINE w == History!Newest(p)
  <2> HIDE DEF w
  <2>7. b \in Curve
    BY <2>2 DEF GoodCurve
  <2> DEFINE d == [b EXCEPT !.points = w, !.slot = s]
  <2>8. d \in Curve /\ d.points = w /\ d.slot = s /\ d.interval = b.interval
    <3>1. d = With(b, w, s) /\ w \in Seq(Point) /\ s \in Int
      BY <2>6, <1>2 DEF w, With
    <3> HIDE DEF d
    <3> QED
      BY <3>1, <2>7, CurveWith
  <2> HIDE DEF d
  <2> QED
    BY <2>1, <2>2, <2>6, <2>8, <1>2 DEF GoodCurve, w, d
<1> QED
  BY <1>3, <1>4, <1>5

\* An empty curve with the interval of config.json.
LEMMA FreshWith ==
  ASSUME NEW t, NEW i
  PROVE  [History!Fresh(t) EXCEPT !.interval = i] =
           [at |-> t, interval |-> i, attached |-> FALSE, points |-> <<>>, slot |-> -1, live |-> FALSE]
<1> DEFINE c == [at |-> t, interval |-> Default, attached |-> FALSE, points |-> <<>>, slot |-> -1, live |-> FALSE]
           d == [c EXCEPT !.interval = i]
           e == [at |-> t, interval |-> i, attached |-> FALSE, points |-> <<>>, slot |-> -1, live |-> FALSE]
           F == {"at", "interval", "attached", "points", "slot", "live"}
<1>1. DOMAIN d = F /\ DOMAIN e = F /\ d = [f \in F |-> d[f]] /\ e = [f \in F |-> e[f]]
  OBVIOUS
<1>2. d.at = t /\ d.interval = i /\ d.attached = FALSE /\ d.points = <<>> /\ d.slot = -1 /\ d.live = FALSE
  OBVIOUS
<1>3. e.at = t /\ e.interval = i /\ e.attached = FALSE /\ e.points = <<>> /\ e.slot = -1 /\ e.live = FALSE
  OBVIOUS
<1> HIDE DEF c, d, e
<1>4. \A f \in F : d[f] = e[f]
  BY <1>2, <1>3
<1>5. d = e
  BY <1>1, <1>4
<1> QED
  BY <1>5 DEF c, d, e, History!Fresh, History!NoSlot

\* Nothing else than a sample adds points, and a new interval begins a new curve.
LEMMA CurveSteps ==
  ASSUME NEW c, GoodCurve(c), NEW lives \in BOOLEAN, NEW t \in Nat, NEW i \in Intervals
  PROVE  /\ GoodCurve(History!Applied(c, lives)) /\ GoodCurve(History!Moved(c, t))
         /\ GoodCurve(History!Adopted(c, i)) /\ GoodCurve([History!Fresh(t) EXCEPT !.interval = i])
         /\ GoodCurve(History!Fresh(t))
<1>0. c \in Curve
  BY DEF GoodCurve
<1>1. GoodCurve(History!Applied(c, lives))
  <2> DEFINE e == IF c.attached THEN c ELSE History!Empty(c)
             d == [e EXCEPT !.attached = TRUE, !.live = lives]
  <2>1. GoodCurve(e)
    <3>1. CASE c.attached
      BY <3>1
    <3>2. CASE ~c.attached
      <4>1. e = With(c, <<>>, -1) /\ <<>> \in Seq(Point) /\ -1 \in Int
        BY <3>2 DEF History!Empty, History!NoSlot, With
      <4> HIDE DEF e
      <4>2. e \in Curve /\ e.points = <<>> /\ e.slot = -1
        BY <4>1, <1>0, CurveWith
      <4> QED
        BY <4>2 DEF GoodCurve, EvenTo
    <3> QED
      BY <3>1, <3>2
  <2> HIDE DEF e
  <2>2. e \in Curve
    BY <2>1 DEF GoodCurve
  <2>3. /\ e.at \in Nat /\ e.interval \in Intervals /\ e.points \in Seq(Point) /\ e.slot \in Int
    BY <2>2, CurveParts
  <2>4. d = [at |-> e.at, interval |-> e.interval, attached |-> TRUE, points |-> e.points, slot |-> e.slot, live |-> lives]
    <3> DEFINE f == [at |-> e.at, interval |-> e.interval, attached |-> TRUE, points |-> e.points, slot |-> e.slot, live |-> lives]
    <3>1. DOMAIN e = {"at", "interval", "attached", "points", "slot", "live"}
      BY <2>2 DEF Curve
    <3>2. d.at = e.at /\ d.interval = e.interval /\ d.attached = TRUE
      BY <3>1
    <3>3. d.points = e.points /\ d.slot = e.slot /\ d.live = lives
      BY <3>1
    <3>4. DOMAIN d = DOMAIN e /\ DOMAIN f = DOMAIN e /\ d = [x \in DOMAIN e |-> d[x]] /\ f = [x \in DOMAIN e |-> f[x]]
      BY <3>1
    <3>5. /\ f.at = e.at /\ f.interval = e.interval /\ f.attached = TRUE
          /\ f.points = e.points /\ f.slot = e.slot /\ f.live = lives
      OBVIOUS
    <3> HIDE DEF d, f
    <3>6. \A x \in DOMAIN e : d[x] = f[x]
      BY <3>1, <3>2, <3>3, <3>5
    <3>7. d = f
      BY <3>4, <3>6
    <3> QED
      BY <3>7 DEF f
  <2> HIDE DEF d
  <2>5. d \in Curve
    BY <2>3, <2>4 DEF Curve
  <2>6. d.points = e.points /\ d.slot = e.slot /\ d.interval = e.interval
    BY <2>4
  <2>7. GoodCurve(d)
    BY <2>1, <2>5, <2>6 DEF GoodCurve
  <2>8. History!Applied(c, lives) = History!Sampled(d, lives)
    BY DEF History!Applied, d, e
  <2> QED
    BY <2>7, <2>8, SampledGood
<1>2. GoodCurve(History!Moved(c, t))
  <2> DEFINE d == [c EXCEPT !.at = t]
  <2>1. d = [at |-> t, interval |-> c.interval, attached |-> c.attached, points |-> c.points, slot |-> c.slot, live |-> c.live]
    BY <1>0 DEF Curve
  <2>2. /\ c.interval \in Intervals /\ c.points \in Seq(Point) /\ c.slot \in Int
        /\ c.attached \in BOOLEAN /\ c.live \in BOOLEAN
    BY <1>0, CurveParts
  <2> HIDE DEF d
  <2>3. d \in Curve
    BY <2>1, <2>2 DEF Curve
  <2>4. d.points = c.points /\ d.slot = c.slot /\ d.interval = c.interval
    BY <2>1
  <2>5. GoodCurve(d)
    BY <2>3, <2>4 DEF GoodCurve
  <2>6. GoodCurve(History!Sampled(d, c.live))
    BY <2>5, <2>2, SampledGood
  <2>7. History!Moved(c, t) = d \/ History!Moved(c, t) = History!Sampled(d, c.live)
    BY DEF History!Moved, d
  <2> QED
    BY <2>5, <2>6, <2>7
<1>3. GoodCurve(History!Adopted(c, i))
  <2>1. CASE c.interval = i
    BY <2>1 DEF History!Adopted
  <2>2. CASE c.interval # i
    <3> DEFINE d == History!Adopted(c, i)
    <3>1. d = [at |-> c.at, interval |-> i, attached |-> c.attached, points |-> <<>>, slot |-> -1, live |-> c.live]
      <4>1. d = [[c EXCEPT !.points = <<>>, !.slot = -1] EXCEPT !.interval = i]
        BY <2>2 DEF History!Adopted, History!Empty, History!NoSlot
      <4> HIDE DEF d
      <4> QED
        BY <4>1, <1>0 DEF Curve
    <3> HIDE DEF d
    <3>2. /\ c.at \in Nat /\ c.attached \in BOOLEAN /\ c.live \in BOOLEAN /\ <<>> \in Seq(Point)
      BY <1>0, CurveParts
    <3>3. d \in Curve
      BY <3>1, <3>2 DEF Curve
    <3>4. d.points = <<>> /\ d.slot = -1
      BY <3>1
    <3>5. GoodCurve(d)
      BY <3>3, <3>4 DEF GoodCurve, EvenTo
    <3> QED
      BY <3>5 DEF d
  <2> QED
    BY <2>1, <2>2
<1>4. ASSUME NEW j \in Intervals
      PROVE  GoodCurve([at |-> t, interval |-> j, attached |-> FALSE, points |-> <<>>, slot |-> -1, live |-> FALSE])
  <2> DEFINE d == [at |-> t, interval |-> j, attached |-> FALSE, points |-> <<>>, slot |-> -1, live |-> FALSE]
  <2>1. d \in Curve
    BY DEF Curve
  <2> QED
    BY <2>1 DEF GoodCurve, EvenTo
<1>5. GoodCurve(History!Fresh(t))
  BY <1>4, CurveAssumption DEF History!Fresh, History!NoSlot
<1>6. GoodCurve([History!Fresh(t) EXCEPT !.interval = i])
  <2>1. [History!Fresh(t) EXCEPT !.interval = i] =
          [at |-> t, interval |-> i, attached |-> FALSE, points |-> <<>>, slot |-> -1, live |-> FALSE]
    BY FreshWith
  <2> QED
    BY <2>1, <1>4
<1> QED
  BY <1>1, <1>2, <1>3, <1>5, <1>6

\* The curve is even, its window lies on it, and what config.json may hold is an
\* interval.
HistoryInv ==
  /\ GoodCurve(histCurve) /\ setting \in Intervals
  /\ histStart \in Nat /\ histStart <= History!Latest(histCurve)
  /\ follow \in BOOLEAN /\ (follow => histStart = History!Latest(histCurve))

\* The window that is shown lies on the curve.
LEMMA ShowsLatest ==
  ASSUME NEW c, GoodCurve(c)
  PROVE  /\ History!Latest(c) \in Nat
         /\ c.points = <<>> => History!Latest(c) = 0
         /\ HistoryInv /\ History!Show(c) =>
              /\ histStart' \in Nat /\ histStart' <= History!Latest(c)
              /\ follow => histStart' = History!Latest(c)
<1>1. c.points \in Seq(Point)
  BY CurveParts DEF GoodCurve
<1>2. History!Latest(c) \in Nat /\ (c.points = <<>> => History!Latest(c) = 0)
  BY <1>1, CurveAssumption DEF History!Latest
<1> QED
  BY <1>2 DEF HistoryInv, History!Show

\* The timer, the buttons, another program and a restart keep the curve even.
LEMMA HistoryKept ==
  ASSUME HistoryInv, History!Next \/ UNCHANGED historyVars
  PROVE  HistoryInv'
<1>0. GoodCurve(histCurve) /\ setting \in Intervals /\ histCurve.at \in Nat
  BY CurveParts DEF HistoryInv, GoodCurve
<1>1. ASSUME NEW t \in History!Time, NEW lives \in BOOLEAN, NEW read \in BOOLEAN, History!Tick(t, lives, read)
      PROVE  HistoryInv'
  <2>0. t \in Nat
    BY DEF History!Time
  <2> DEFINE moved == IF ~demo /\ t = History!Unknown THEN histCurve
                      ELSE IF ~demo /\ History!Stepped(t) THEN History!Fresh(t) ELSE History!Moved(histCurve, t)
             applied == History!Applied(moved, lives)
             c == IF read THEN History!Adopted(applied, setting) ELSE applied
  <2>1. GoodCurve(moved)
    BY <1>0, <2>0, CurveSteps
  <2> HIDE DEF moved
  <2>2. GoodCurve(applied)
    BY <1>0, <2>0, <2>1, CurveSteps
  <2> HIDE DEF applied
  <2>3. GoodCurve(c)
    BY <1>0, <2>0, <2>2, CurveSteps
  <2>4. histCurve' = c /\ History!Show(c) /\ UNCHANGED <<setting, follow>>
    BY <1>1 DEF History!Tick, moved, applied
  <2> HIDE DEF c
  <2> QED
    BY <2>3, <2>4, ShowsLatest DEF HistoryInv
<1>2. CASE History!ChangeInterval
  <2>1. PICK i \in Intervals : /\ setting' = i /\ histCurve' = History!Adopted(histCurve, i)
                               /\ History!Show(History!Adopted(histCurve, i)) /\ follow' = follow
    BY <1>2 DEF History!ChangeInterval
  <2>2. GoodCurve(History!Adopted(histCurve, i))
    BY <1>0, CurveSteps
  <2> QED
    BY <2>1, <2>2, ShowsLatest DEF HistoryInv
<1>3. CASE History!OtherSaves \/ History!Export
  BY <1>3 DEF HistoryInv, History!OtherSaves, History!Export, History!storage
<1>4. CASE History!Previous \/ History!Forward
  <2>1. History!Latest(histCurve) \in Nat /\ histStart \in Nat /\ CurveWindow \in Nat
    BY <1>0, ShowsLatest, CurveAssumption DEF HistoryInv
  <2>2. UNCHANGED <<histCurve, setting>>
    BY <1>4 DEF History!Previous, History!Forward
  <2> DEFINE l == History!Latest(histCurve)
  <2> HIDE DEF l
  <2>3. /\ histStart' \in Nat /\ histStart' <= l
        /\ follow' \in BOOLEAN /\ (follow' => histStart' = l)
    <3>1. CASE History!Previous
      <4>1. follow' = FALSE
        BY <3>1 DEF History!Previous
      <4>2. histStart' \in Nat /\ histStart' <= histStart /\ histStart <= l
        BY <3>1, <2>1 DEF HistoryInv, History!Previous, l
      <4>3. l \in Nat
        BY <2>1 DEF l
      <4>4. histStart' <= l
        BY <4>2, <4>3, <2>1
      <4> QED
        BY <4>1, <4>2, <4>4
    <3>2. CASE History!Forward
      <4>1. follow' = (histStart' = l)
        BY <3>2 DEF History!Forward, l
      <4>2. histStart' \in Nat /\ histStart' <= l
        BY <3>2, <2>1 DEF History!Forward, l
      <4> QED
        BY <4>1, <4>2
    <3> QED
      BY <3>1, <3>2, <1>4
  <2>4. l = History!Latest(histCurve')
    BY <2>2 DEF l
  <2> QED
    BY <1>0, <2>2, <2>3, <2>4 DEF HistoryInv
<1>5. CASE History!Restart
  <2> DEFINE t == IF demo THEN 1 ELSE histCurve.at
  <2>1. histCurve' = [History!Fresh(t) EXCEPT !.interval = setting] /\ UNCHANGED setting
        /\ histStart' = 0 /\ follow' = TRUE
    BY <1>5 DEF History!Restart
  <2>2. GoodCurve(histCurve')
    BY <1>0, <2>1, CurveSteps
  <2>3. histCurve'.points = <<>>
    BY <2>1 DEF History!Fresh
  <2>4. History!Latest(histCurve') = 0
    BY <2>2, <2>3, ShowsLatest
  <2> QED
    BY <1>0, <2>1, <2>2, <2>4 DEF HistoryInv
<1>6. CASE UNCHANGED historyVars
  BY <1>6 DEF HistoryInv, historyVars, History!Latest
<1> QED
  BY <1>1, <1>2, <1>3, <1>4, <1>5, <1>6 DEF History!Next, History!Timer

\* Through gaps, changes of the interval and clocks that are set, the curve has
\* one point for each slot up to the latest.
THEOREM CurveStaysEven == PartsSpec => []CurveIsEven
<1>1. PartsInit => HistoryInv
  <2> SUFFICES ASSUME PartsInit PROVE HistoryInv
    OBVIOUS
  <2>1. /\ demo \in BOOLEAN /\ setting \in Intervals /\ histStart = 0 /\ follow = TRUE
        /\ \E t \in {0, 1} : histCurve = [History!Fresh(IF demo THEN 1 ELSE t) EXCEPT !.interval = setting]
    BY DEF PartsInit, History!Init, History!Unknown
  <2>2. PICK t \in Nat : histCurve = [History!Fresh(t) EXCEPT !.interval = setting]
    BY <2>1
  <2>3. \E c : GoodCurve(c)
    <3> DEFINE c == [at |-> 0, interval |-> Default, attached |-> FALSE, points |-> <<>>, slot |-> -1, live |-> FALSE]
    <3>1. c \in Curve
      BY CurveAssumption DEF Curve
    <3>2. GoodCurve(c)
      BY <3>1 DEF GoodCurve, EvenTo
    <3> QED
      BY <3>2
  <2>4. GoodCurve(histCurve)
    BY <2>1, <2>2, <2>3, CurveSteps
  <2>5. histCurve.points = <<>>
    BY <2>2 DEF History!Fresh
  <2>6. History!Latest(histCurve) = 0
    BY <2>4, <2>5, ShowsLatest
  <2> QED
    BY <2>1, <2>4, <2>6 DEF HistoryInv
<1>2. (part = "history" => HistoryInv) /\ [PartsNext]_<<part, moving>> => (part = "history" => HistoryInv)'
  <2> SUFFICES ASSUME part = "history" => HistoryInv, [PartsNext]_<<part, moving>>, part' = "history"
               PROVE  HistoryInv'
    OBVIOUS
  <2>1. part = "history"
    BY DEF PartsNext
  <2> QED
    BY <2>1, HistoryMoves, HistoryKept
<1>3. (part = "history" => HistoryInv) => CurveIsEven
  BY DEF CurveIsEven, History!CurveIsEven, HistoryInv, GoodCurve, EvenTo
<1> QED
  BY <1>1, <1>2, <1>3, PTL DEF PartsSpec
-----------------------------------------------------------------------------
(* The requests over TLS: TlsPool. *)

\* A step of the model is one of the pool or none, when the pool moves.
LEMMA TlsMoves ==
  ASSUME [PartsNext]_<<part, moving>>, part = "tls"
  PROVE  part' = "tls" /\ (Tls!Next \/ UNCHANGED tlsVars)
<1>1. CASE PartsNext
  BY <1>1 DEF PartsNext
<1>2. CASE UNCHANGED <<part, moving>>
  BY <1>2 DEF moving
<1> QED
  BY <1>1, <1>2

AtWork == {"drain", "write", "wait", "read"}
Entry == [host : Hosts \cup {"none"}, used : BOOLEAN, valid : BOOLEAN]
Connection == [to : Hosts \cup {"none"}, left : BOOLEAN, dead : BOOLEAN]
Thread == [pc : AtWork \cup {"idle", "connect"}, host : Hosts \cup {"none"},
           slot : TlsSlots \cup {0}, reused : BOOLEAN, sends : Nat]
\* A thread with the record r, whose own connection is o and whose request goes
\* over k and was last written to a; what it may still send is two at most.
Serves(r, o, k, a) ==
  /\ r.pc = "idle" => r.slot = 0
  /\ r.slot # 0 \/ r.pc = "idle" => o = Tls!Closed
  /\ r.reused => r.slot # 0
  /\ r.pc = "drain" => r.reused
  /\ r.pc # "idle" => r.host \in Hosts
  /\ r.pc \in AtWork => k.to = r.host
  /\ r.pc \in {"wait", "read"} => a = r.host
  /\ r.sends + (IF r.reused THEN 1 ELSE 0) + (IF r.pc \in {"drain", "connect", "write"} THEN 1 ELSE 0) <= 2
\* A slot at rest says of its connection what is true.
Rests(e, k) == ~e.used => (e.valid <=> k.to # "none") /\ (e.valid => k.to = e.host)
TlsTypes ==
  /\ pool \in [TlsSlots -> Entry] /\ ctx \in [TlsSlots \cup TlsThreads -> Connection]
  /\ tlsThr \in [TlsThreads -> Thread] /\ tlsAsked \in [TlsThreads -> Hosts \cup {"none"}]
TlsInv ==
  /\ TlsTypes
  /\ \A t \in TlsThreads : Serves(tlsThr[t], ctx[t], ctx[Tls!Of(t)], tlsAsked[t])
  /\ \A t, u \in TlsThreads : t # u /\ tlsThr[t].slot = tlsThr[u].slot => tlsThr[t].slot = 0
  /\ \A s \in TlsSlots : pool[s].used <=> \E t \in TlsThreads : tlsThr[t].slot = s
  /\ \A s \in TlsSlots : Rests(pool[s], ctx[s])

\* The connection a thread uses is its own or that of its slot, which no other uses.
LEMMA OwnOf ==
  ASSUME TlsInv, NEW t \in TlsThreads
  PROVE  /\ Tls!Of(t) \in TlsSlots \cup TlsThreads
         /\ tlsThr[t].slot \in TlsSlots \cup {0}
         /\ tlsThr[t].slot = 0 => Tls!Of(t) = t
         /\ tlsThr[t].slot # 0 => Tls!Of(t) = tlsThr[t].slot
         /\ \A u \in TlsThreads : u # t => Tls!Of(u) # Tls!Of(t) /\ u # Tls!Of(t)
         /\ \A s \in TlsSlots : s = Tls!Of(t) => pool[s].used
         /\ tlsThr[t] \in Thread
<1>1. \A u \in TlsThreads : tlsThr[u] \in Thread /\ tlsThr[u].slot \in TlsSlots \cup {0}
  BY DEF TlsInv, TlsTypes, Thread
<1>2. \A u \in TlsThreads : u \notin TlsSlots /\ u # 0
  BY TlsAssumption
<1> QED
  BY <1>1, <1>2 DEF TlsInv, Tls!Of

\* A step of a thread that keeps its slot touches its own connection only.
LEMMA Proceeds ==
  ASSUME TlsInv, NEW t \in TlsThreads, NEW r \in Thread, NEW k \in Connection, NEW a \in Hosts \cup {"none"},
         r.slot = tlsThr[t].slot, r.pc # "idle",
         tlsThr' = [tlsThr EXCEPT ![t] = r], ctx' = [ctx EXCEPT ![Tls!Of(t)] = k],
         tlsAsked' = [tlsAsked EXCEPT ![t] = a],
         pool' \in [TlsSlots -> Entry],
         \A s \in TlsSlots : pool'[s].used = pool[s].used /\ (~pool[s].used => pool'[s] = pool[s]),
         Serves(r, ctx[t], k, a)
  PROVE  TlsInv'
<1>1. TlsTypes'
  BY OwnOf DEF TlsInv, TlsTypes
<1>2. /\ Tls!Of(t) \in TlsSlots \cup TlsThreads /\ tlsThr'[t] = r /\ tlsAsked'[t] = a
      /\ ctx'[Tls!Of(t)] = k
      /\ \A u \in TlsThreads : u # t => tlsThr'[u] = tlsThr[u] /\ tlsAsked'[u] = tlsAsked[u]
      /\ \A c \in TlsSlots \cup TlsThreads : c # Tls!Of(t) => ctx'[c] = ctx[c]
  BY OwnOf DEF TlsInv, TlsTypes
<1>3. \A u \in TlsThreads : tlsThr'[u].slot = tlsThr[u].slot /\ (Tls!Of(u))' = Tls!Of(u)
  BY <1>2 DEF Tls!Of
<1>4. \A u \in TlsThreads : Serves(tlsThr'[u], ctx'[u], ctx'[(Tls!Of(u))'], tlsAsked'[u])
  <2> SUFFICES ASSUME NEW u \in TlsThreads
               PROVE  Serves(tlsThr'[u], ctx'[u], ctx'[Tls!Of(u)], tlsAsked'[u])
    BY <1>3
  <2>1. CASE u = t
    <3>1. CASE r.slot # 0
      <4>1. ctx'[t] = ctx[t]
        BY <3>1, <1>2, OwnOf, TlsAssumption
      <4> QED
        BY <2>1, <4>1, <1>2
    <3>2. CASE r.slot = 0
      BY <2>1, <3>2, <1>2, OwnOf DEF Serves
    <3> QED
      BY <3>1, <3>2
  <2>2. CASE u # t
    <3>1. ctx'[u] = ctx[u] /\ ctx'[Tls!Of(u)] = ctx[Tls!Of(u)]
      BY <2>2, <1>2, OwnOf
    <3>2. Serves(tlsThr[u], ctx[u], ctx[Tls!Of(u)], tlsAsked[u])
      BY DEF TlsInv
    <3> QED
      BY <3>1, <3>2, <2>2, <1>2
  <2> QED
    BY <2>1, <2>2
<1>5. \A v, u \in TlsThreads : v # u /\ tlsThr'[v].slot = tlsThr'[u].slot => tlsThr'[v].slot = 0
  BY <1>3 DEF TlsInv
<1>6. \A s \in TlsSlots : pool'[s].used <=> \E u \in TlsThreads : tlsThr'[u].slot = s
  BY <1>3 DEF TlsInv
<1>7. \A s \in TlsSlots : Rests(pool'[s], ctx'[s])
  <2> SUFFICES ASSUME NEW s \in TlsSlots, ~pool[s].used
               PROVE  Rests(pool'[s], ctx'[s])
    BY DEF Rests
  <2>1. pool'[s] = pool[s] /\ ctx'[s] = ctx[s]
    BY <1>2, OwnOf
  <2> QED
    BY <2>1 DEF TlsInv
<1> QED
  BY <1>1, <1>4, <1>5, <1>6, <1>7 DEF TlsInv

\* A request that ends leaves its slot with a live connection to its host, or closed.
LEMMA EndsWell ==
  ASSUME TlsInv, NEW t \in TlsThreads, NEW keep \in BOOLEAN, NEW k \in Connection,
         Tls!Ends(t, keep), ctx' = [ctx EXCEPT ![Tls!Of(t)] = k], tlsThr[t].pc # "idle",
         keep => tlsThr[t].slot # 0 /\ k.to = tlsThr[t].host,
         ~keep => k = Tls!Closed
  PROVE  TlsInv'
<1> DEFINE z == tlsThr[t].slot
<1>0. /\ tlsThr' = [tlsThr EXCEPT ![t] = Tls!Idle] /\ tlsAsked' = [tlsAsked EXCEPT ![t] = "none"]
      /\ z = 0 => pool' = pool
      /\ z # 0 => pool' = [pool EXCEPT ![z] = [host |-> IF keep THEN tlsThr[t].host ELSE "none",
                                                used |-> FALSE, valid |-> keep]]
  BY DEF Tls!Ends, Tls!None
<1>1. Tls!Idle \in Thread /\ Tls!Idle.slot = 0 /\ Tls!Closed \in Connection /\ tlsThr[t].host \in Hosts
      /\ Tls!Closed.to = "none"
  BY DEF Tls!Idle, Thread, Tls!Closed, Connection, Tls!None, TlsInv, Serves
<1>2. TlsTypes'
  <2>1. pool' \in [TlsSlots -> Entry]
    <3>1. [host |-> IF keep THEN tlsThr[t].host ELSE "none", used |-> FALSE, valid |-> keep] \in Entry
      BY <1>1 DEF Entry
    <3> QED
      BY <1>0, <3>1 DEF TlsInv, TlsTypes
  <2>2. tlsThr' \in [TlsThreads -> Thread] /\ tlsAsked' \in [TlsThreads -> Hosts \cup {"none"}]
    BY <1>0, <1>1 DEF TlsInv, TlsTypes
  <2>3. ctx' \in [TlsSlots \cup TlsThreads -> Connection]
    BY DEF TlsInv, TlsTypes
  <2> QED
    BY <2>1, <2>2, <2>3 DEF TlsTypes
<1>3. /\ Tls!Of(t) \in TlsSlots \cup TlsThreads /\ tlsThr'[t] = Tls!Idle /\ ctx'[Tls!Of(t)] = k
      /\ \A u \in TlsThreads : u # t => tlsThr'[u] = tlsThr[u] /\ tlsAsked'[u] = tlsAsked[u]
      /\ \A c \in TlsSlots \cup TlsThreads : c # Tls!Of(t) => ctx'[c] = ctx[c]
      /\ \A s \in TlsSlots : s # z => pool'[s] = pool[s]
  BY <1>0, OwnOf DEF TlsInv, TlsTypes
<1>4. \A u \in TlsThreads : u # t => tlsThr'[u].slot = tlsThr[u].slot /\ (Tls!Of(u))' = Tls!Of(u)
  BY <1>3 DEF Tls!Of
<1>5. \A u \in TlsThreads : Serves(tlsThr'[u], ctx'[u], ctx'[(Tls!Of(u))'], tlsAsked'[u])
  <2> SUFFICES ASSUME NEW u \in TlsThreads
               PROVE  Serves(tlsThr'[u], ctx'[u], ctx'[(Tls!Of(u))'], tlsAsked'[u])
    OBVIOUS
  <2>1. CASE u = t
    <3>1. ctx'[t] = Tls!Closed
      <4>1. CASE z # 0
        <5>1. ctx[t] = Tls!Closed
          BY <4>1 DEF TlsInv, Serves
        <5> QED
          BY <4>1, <5>1, <1>3, OwnOf, TlsAssumption
      <4>2. CASE z = 0
        BY <4>2, <1>3, OwnOf
      <4> QED
        BY <4>1, <4>2
    <3> QED
      BY <2>1, <3>1, <1>3 DEF Serves, Tls!Idle, AtWork
  <2>2. CASE u # t
    <3>1. ctx'[u] = ctx[u] /\ ctx'[(Tls!Of(u))'] = ctx[Tls!Of(u)]
      BY <2>2, <1>3, <1>4, OwnOf
    <3>2. Serves(tlsThr[u], ctx[u], ctx[Tls!Of(u)], tlsAsked[u])
      BY DEF TlsInv
    <3> QED
      BY <3>1, <3>2, <2>2, <1>3
  <2> QED
    BY <2>1, <2>2
<1>6. \A v, u \in TlsThreads : v # u /\ tlsThr'[v].slot = tlsThr'[u].slot => tlsThr'[v].slot = 0
  BY <1>1, <1>3, <1>4 DEF TlsInv
<1>7. \A s \in TlsSlots : pool'[s].used <=> \E u \in TlsThreads : tlsThr'[u].slot = s
  <2> TAKE s \in TlsSlots
  <2>0. s # 0
    BY TlsAssumption
  <2>1. CASE s = z
    <3>1. ~pool'[s].used
      BY <2>1, <2>0, <1>0 DEF TlsInv, TlsTypes
    <3>2. \A u \in TlsThreads : tlsThr'[u].slot # s
      BY <2>1, <2>0, <1>1, <1>3, <1>4 DEF TlsInv
    <3> QED
      BY <3>1, <3>2
  <2>2. CASE s # z
    <3>1. pool'[s] = pool[s]
      BY <2>2, <1>3
    <3>2. \A u \in TlsThreads : tlsThr'[u].slot = s <=> tlsThr[u].slot = s
      BY <2>0, <2>2, <1>1, <1>3, <1>4
    <3> QED
      BY <3>1, <3>2 DEF TlsInv
  <2> QED
    BY <2>1, <2>2
<1>8. \A s \in TlsSlots : Rests(pool'[s], ctx'[s])
  <2> TAKE s \in TlsSlots
  <2>0. s # 0
    BY TlsAssumption
  <2>1. CASE s = z
    <3>1. ctx'[s] = k /\ pool'[s] = [host |-> IF keep THEN tlsThr[t].host ELSE "none", used |-> FALSE, valid |-> keep]
      BY <2>1, <2>0, <1>0, <1>3, OwnOf DEF TlsInv, TlsTypes
    <3>2. tlsThr[t].host # "none"
      BY <1>1, TlsAssumption
    <3> QED
      BY <3>1, <3>2, <1>1 DEF Rests
  <2>2. CASE s # z
    <3>1. pool'[s] = pool[s] /\ ctx'[s] = ctx[s]
      BY <2>2, <1>3, OwnOf, TlsAssumption
    <3> QED
      BY <3>1 DEF TlsInv
  <2> QED
    BY <2>1, <2>2
<1> QED
  BY <1>2, <1>5, <1>6, <1>7, <1>8 DEF TlsInv

\* A connection that was used before is made anew, before the request was sent twice.
LEMMA ReconnectsWell ==
  ASSUME TlsInv, NEW t \in TlsThreads, tlsThr[t].reused, Tls!Reconnect(t), tlsAsked' = tlsAsked,
         tlsThr[t].pc # "idle"
  PROVE  TlsInv'
<1> DEFINE r == [tlsThr[t] EXCEPT !.pc = "connect", !.reused = FALSE]
           z == tlsThr[t].slot
<1>1. z \in TlsSlots /\ tlsThr[t] \in Thread
  BY OwnOf DEF TlsInv, Serves
<1>2. r \in Thread /\ r.slot = z /\ r.pc = "connect" /\ r.reused = FALSE
      /\ r.host = tlsThr[t].host /\ r.sends = tlsThr[t].sends
  BY <1>1 DEF Thread
<1>3. tlsThr' = [tlsThr EXCEPT ![t] = r]
  BY <1>1 DEF Tls!Reconnect, TlsInv, TlsTypes
<1>4. Tls!Closed \in Connection /\ ctx' = [ctx EXCEPT ![Tls!Of(t)] = Tls!Closed]
  BY DEF Tls!Closed, Connection, Tls!None, Tls!Reconnect
<1>5. /\ pool' \in [TlsSlots -> Entry]
      /\ \A s \in TlsSlots : pool'[s].used = pool[s].used /\ (~pool[s].used => pool'[s] = pool[s])
  <2>1. pool' = [pool EXCEPT ![z] = [pool[z] EXCEPT !.valid = FALSE]] /\ pool[z] \in Entry
    BY <1>1 DEF Tls!Reconnect, TlsInv, TlsTypes
  <2>2. [pool[z] EXCEPT !.valid = FALSE] \in Entry /\ [pool[z] EXCEPT !.valid = FALSE].used = pool[z].used
    BY <2>1 DEF Entry
  <2>3. pool[z].used
    BY <1>1 DEF TlsInv
  <2> QED
    BY <2>1, <2>2, <2>3, <1>1 DEF TlsInv, TlsTypes
<1>6. tlsAsked' = [tlsAsked EXCEPT ![t] = tlsAsked[t]] /\ tlsAsked[t] \in Hosts \cup {"none"}
  BY DEF TlsInv, TlsTypes
<1>7. Serves(r, ctx[t], Tls!Closed, tlsAsked[t])
  <2>1. Serves(tlsThr[t], ctx[t], ctx[Tls!Of(t)], tlsAsked[t]) /\ tlsThr[t].sends \in Nat
    BY <1>1 DEF TlsInv, Thread
  <2>2. z # 0
    BY <1>1, TlsAssumption
  <2> HIDE DEF r
  <2> QED
    BY <2>1, <2>2, <1>2 DEF Serves, AtWork
<1> HIDE DEF r
<1> QED
  BY <1>2, <1>3, <1>4, <1>5, <1>6, <1>7, Proceeds

\* A request that fails is sent again, if its connection was used before, or ends.
LEMMA FailsWell ==
  ASSUME TlsInv, NEW t \in TlsThreads, Tls!Fails(t), tlsThr[t].pc # "idle"
  PROVE  TlsInv'
<1>1. CASE tlsThr[t].reused
  BY <1>1, ReconnectsWell DEF Tls!Fails
<1>2. CASE ~tlsThr[t].reused
  <2>1. Tls!Ends(t, FALSE) /\ ctx' = [ctx EXCEPT ![Tls!Of(t)] = Tls!Closed]
    BY <1>2 DEF Tls!Fails
  <2>2. Tls!Closed \in Connection
    BY DEF Tls!Closed, Connection, Tls!None
  <2> QED
    BY <2>1, <2>2, EndsWell
<1> QED
  BY <1>1, <1>2

\* The steps of a request keep the promise.
LEMMA TlsStepKeeps ==
  ASSUME TlsInv, NEW t \in TlsThreads, Tls!Step(t)
  PROVE  TlsInv'
<1> DEFINE k == ctx[Tls!Of(t)]
           z == tlsThr[t].slot
<1>0. /\ tlsThr[t] \in Thread /\ k \in Connection /\ z \in TlsSlots \cup {0}
      /\ Serves(tlsThr[t], ctx[t], k, tlsAsked[t]) /\ tlsAsked[t] \in Hosts \cup {"none"}
      /\ Tls!Of(t) \in TlsSlots \cup TlsThreads /\ tlsThr[t].sends \in Nat
      /\ tlsAsked = [tlsAsked EXCEPT ![t] = tlsAsked[t]]
  BY OwnOf DEF TlsInv, TlsTypes, Thread
\* Where the thread goes on, over a connection l, with what it was last written to.
<1>1. ASSUME NEW q \in AtWork, NEW l \in Connection, tlsThr' = [tlsThr EXCEPT ![t].pc = q],
             ctx' = [ctx EXCEPT ![Tls!Of(t)] = l], pool' = pool, tlsAsked' = tlsAsked,
             l.to = tlsThr[t].host, tlsThr[t].pc # "idle",
             q = "drain" => tlsThr[t].pc = "drain",
             q \in {"wait", "read"} => tlsThr[t].pc \in {"wait", "read"},
             q = "write" => tlsThr[t].pc \in {"drain", "connect"}
      PROVE  TlsInv'
  <2> DEFINE r == [tlsThr[t] EXCEPT !.pc = q]
  <2>1. r \in Thread /\ r.slot = z /\ r.pc = q /\ r.reused = tlsThr[t].reused
        /\ r.host = tlsThr[t].host /\ r.sends = tlsThr[t].sends
    BY <1>0 DEF Thread
  <2>2. tlsThr' = [tlsThr EXCEPT ![t] = r]
    BY <1>1
  <2> HIDE DEF r
  <2>3. r.pc # "idle"
    BY <2>1 DEF AtWork
  <2>4. Serves(r, ctx[t], l, tlsAsked[t])
    BY <1>0, <1>1, <2>1, <2>3 DEF Serves, AtWork
  <2>5. /\ pool' \in [TlsSlots -> Entry] /\ tlsAsked' = [tlsAsked EXCEPT ![t] = tlsAsked[t]]
        /\ \A s \in TlsSlots : pool'[s].used = pool[s].used /\ (~pool[s].used => pool'[s] = pool[s])
    BY <1>0, <1>1 DEF TlsInv, TlsTypes
  <2>6. r.slot = tlsThr[t].slot /\ r \in Thread
    BY <2>1
  <2>7. ctx' = [ctx EXCEPT ![Tls!Of(t)] = l] /\ tlsAsked[t] \in Hosts \cup {"none"}
    BY <1>0, <1>1
  <2> QED
    BY <2>2, <2>3, <2>4, <2>5, <2>6, <2>7, Proceeds
<1>2. CASE Tls!Drain(t)
  <2>1. CASE Tls!Reconnect(t)
    BY <2>1, <1>2, <1>0, ReconnectsWell DEF Tls!Drain, Serves
  <2>2. CASE ~Tls!Reconnect(t)
    <3>1. PICK b \in BOOLEAN : ctx' = [ctx EXCEPT ![Tls!Of(t)].left = b] /\ Tls!To(t, "write") /\ UNCHANGED pool
      BY <2>2, <1>2 DEF Tls!Drain
    <3> DEFINE l == [k EXCEPT !.left = b]
    <3>2. l \in Connection /\ l.to = k.to /\ ctx' = [ctx EXCEPT ![Tls!Of(t)] = l]
      BY <3>1, <1>0 DEF Connection
    <3>3. tlsThr[t].pc = "drain" /\ tlsAsked' = tlsAsked /\ l.to = tlsThr[t].host
      BY <1>2, <1>0, <3>2 DEF Tls!Drain, Serves, AtWork
    <3> HIDE DEF l
    <3> QED
      BY <1>1, <3>1, <3>2, <3>3 DEF Tls!To, AtWork
  <2> QED
    BY <2>1, <2>2
<1>3. CASE Tls!Connect(t)
  <2>0. tlsThr[t].pc = "connect" /\ tlsThr[t].host \in Hosts
    BY <1>3, <1>0 DEF Tls!Connect, Serves
  <2>1. CASE Tls!Ends(t, FALSE) /\ ctx' = [ctx EXCEPT ![Tls!Of(t)] = Tls!Closed]
    <3>1. Tls!Closed \in Connection
      BY DEF Tls!Closed, Connection, Tls!None
    <3> QED
      BY <2>0, <2>1, <3>1, EndsWell
  <2>2. CASE ~(Tls!Ends(t, FALSE) /\ ctx' = [ctx EXCEPT ![Tls!Of(t)] = Tls!Closed])
    <3> DEFINE l == [Tls!Closed EXCEPT !.to = tlsThr[t].host]
    <3>1. ctx' = [ctx EXCEPT ![Tls!Of(t)] = l] /\ Tls!To(t, "write") /\ UNCHANGED <<pool, tlsAsked>>
      BY <2>2, <1>3 DEF Tls!Connect
    <3>2. l \in Connection /\ l.to = tlsThr[t].host
      BY <2>0 DEF Connection, Tls!Closed, Tls!None
    <3> HIDE DEF l
    <3> QED
      BY <1>1, <2>0, <3>1, <3>2 DEF Tls!To, AtWork
  <2> QED
    BY <2>1, <2>2
<1>4. CASE Tls!Write(t)
  <2>0. tlsThr[t].pc = "write"
    BY <1>4 DEF Tls!Write
  <2>1. CASE Tls!Fails(t)
    BY <2>0, <2>1, FailsWell
  <2>2. CASE ~Tls!Fails(t)
    <3>1. /\ tlsThr' = [tlsThr EXCEPT ![t].pc = "wait", ![t].sends = @ + 1]
          /\ tlsAsked' = [tlsAsked EXCEPT ![t] = k.to] /\ UNCHANGED <<pool, ctx>>
      BY <2>2, <1>4 DEF Tls!Write
    <3> DEFINE r == [tlsThr[t] EXCEPT !.pc = "wait", !.sends = @ + 1]
    <3>2. r \in Thread /\ r.slot = z /\ r.pc = "wait" /\ r.reused = tlsThr[t].reused
          /\ r.host = tlsThr[t].host /\ r.sends = tlsThr[t].sends + 1
      <4> DEFINE q == [tlsThr[t] EXCEPT !.pc = "wait"]
                 n == tlsThr[t].sends + 1
      <4>1. q \in Thread /\ q.pc = "wait" /\ q.slot = z /\ q.reused = tlsThr[t].reused
            /\ q.host = tlsThr[t].host /\ q.sends = tlsThr[t].sends
        BY <1>0 DEF Thread, AtWork
      <4>2. r = [q EXCEPT !.sends = n] /\ n \in Nat
        BY <1>0 DEF Thread
      <4> HIDE DEF r, q, n
      <4>3. r \in Thread /\ r.pc = q.pc /\ r.slot = q.slot /\ r.reused = q.reused /\ r.host = q.host /\ r.sends = n
        BY <4>1, <4>2 DEF Thread
      <4> QED
        BY <4>1, <4>3 DEF n
    <3>3. tlsThr' = [tlsThr EXCEPT ![t] = r]
      BY <3>1, <1>0 DEF TlsInv, TlsTypes
    <3> HIDE DEF r
    <3>4. k.to = tlsThr[t].host /\ k.to \in Hosts
      BY <1>0, <2>0 DEF Serves, AtWork
    <3>5. Serves(r, ctx[t], k, k.to)
      BY <1>0, <2>0, <3>2, <3>4 DEF Serves, AtWork
    <3>6. /\ pool' \in [TlsSlots -> Entry] /\ ctx' = [ctx EXCEPT ![Tls!Of(t)] = k]
          /\ \A s \in TlsSlots : pool'[s].used = pool[s].used /\ (~pool[s].used => pool'[s] = pool[s])
      BY <1>0, <3>1 DEF TlsInv, TlsTypes
    <3>7. /\ r \in Thread /\ r.slot = tlsThr[t].slot /\ r.pc # "idle" /\ k \in Connection
          /\ k.to \in Hosts \cup {"none"} /\ tlsAsked' = [tlsAsked EXCEPT ![t] = k.to]
      BY <1>0, <3>1, <3>2, <3>4
    <3> HIDE DEF k
    <3> QED
      BY <3>3, <3>5, <3>6, <3>7, Proceeds DEF k
  <2> QED
    BY <2>1, <2>2
<1>5. CASE Tls!Wait(t)
  <2>1. tlsThr[t].pc = "wait" /\ Tls!To(t, "read") /\ UNCHANGED <<pool, ctx, tlsAsked>>
    BY <1>5 DEF Tls!Wait
  <2>2. k.to = tlsThr[t].host
    BY <2>1, <1>0 DEF Serves, AtWork
  <2>3. ctx' = [ctx EXCEPT ![Tls!Of(t)] = k]
    BY <2>1, <1>0 DEF TlsInv, TlsTypes
  <2> QED
    BY <1>0, <1>1, <2>1, <2>2, <2>3 DEF Tls!To, AtWork
<1>6. CASE Tls!ReadFails(t)
  BY <1>6, FailsWell DEF Tls!ReadFails
<1>7. CASE Tls!Answer(t)
  <2>1. PICK keep \in BOOLEAN, left \in BOOLEAN :
          /\ Tls!Ends(t, keep /\ z # 0)
          /\ ctx' = [ctx EXCEPT ![Tls!Of(t)] = IF keep /\ z # 0 THEN [@ EXCEPT !.left = left] ELSE Tls!Closed]
    BY <1>7 DEF Tls!Answer
  <2>0. tlsThr[t].pc = "read" /\ k.to = tlsThr[t].host
    BY <1>7, <1>0 DEF Tls!Answer, Serves, AtWork
  <2>2. CASE keep /\ z # 0
    <3> DEFINE l == [k EXCEPT !.left = left]
    <3>1. l \in Connection /\ l.to = tlsThr[t].host
      BY <1>0, <2>0 DEF Connection
    <3>2. ctx' = [ctx EXCEPT ![Tls!Of(t)] = l] /\ Tls!Ends(t, TRUE)
      <4>1. (keep /\ z # 0) = TRUE
        BY <2>2
      <4> QED
        BY <2>1, <2>2, <4>1
    <3> HIDE DEF l
    <3> QED
      BY <2>0, <2>2, <3>1, <3>2, EndsWell
  <2>3. CASE ~(keep /\ z # 0)
    <3>1. Tls!Closed \in Connection
      BY DEF Tls!Closed, Connection, Tls!None
    <3>2. ctx' = [ctx EXCEPT ![Tls!Of(t)] = Tls!Closed] /\ Tls!Ends(t, FALSE)
      <4>1. (keep /\ z # 0) = FALSE
        BY <2>3
      <4> QED
        BY <2>1, <2>3, <4>1
    <3> QED
      BY <2>0, <3>1, <3>2, EndsWell
  <2> QED
    BY <2>2, <2>3
<1> QED
  BY <1>2, <1>3, <1>4, <1>5, <1>6, <1>7 DEF Tls!Step

\* A request is given a slot at rest, if any, and one that is taken as it is
\* belongs to its host.
LEMMA AcquiredRests ==
  ASSUME NEW h \in Hosts
  PROVE  /\ Tls!Acquired(h).slot \in TlsSlots \cup {0}
         /\ Tls!Acquired(h).slot # 0 => ~pool[Tls!Acquired(h).slot].used
         /\ Tls!Acquired(h).evict => Tls!Acquired(h).slot # 0
         /\ /\ Tls!Acquired(h).slot # 0 /\ ~Tls!Acquired(h).evict
            /\ pool[Tls!Acquired(h).slot].valid
            => pool[Tls!Acquired(h).slot].host = h
<1>1. ASSUME NEW S, S \subseteq TlsSlots, S # {}
      PROVE  Tls!First(S) \in S
  BY <1>1, LeastNumber, TlsAssumption DEF Tls!First
<1> DEFINE a == Tls!Acquired(h)
<1>2. CASE Tls!Live(h) # {}
  <2>1. a.slot = Tls!First(Tls!Live(h)) /\ a.evict = FALSE
    BY <1>2 DEF Tls!Acquired
  <2>2. Tls!First(Tls!Live(h)) \in Tls!Live(h)
    BY <1>1, <1>2 DEF Tls!Live
  <2>3. \A s \in Tls!Live(h) : s \in TlsSlots /\ ~pool[s].used /\ pool[s].host = h
    BY DEF Tls!Live
  <2> QED
    BY <2>1, <2>2, <2>3
<1>3. CASE Tls!Live(h) = {} /\ Tls!Empty # {}
  <2>1. a.slot = Tls!First(Tls!Empty) /\ a.evict = FALSE
    BY <1>3 DEF Tls!Acquired
  <2>2. Tls!First(Tls!Empty) \in Tls!Empty
    BY <1>1, <1>3 DEF Tls!Empty
  <2>3. \A s \in Tls!Empty : s \in TlsSlots /\ ~pool[s].used /\ ~pool[s].valid
    BY DEF Tls!Empty
  <2> QED
    BY <2>1, <2>2, <2>3
<1>4. CASE Tls!Live(h) = {} /\ Tls!Empty = {} /\ Tls!Resting # {}
  <2>1. a.slot = Tls!First(Tls!Resting) /\ a.evict = TRUE
    BY <1>4 DEF Tls!Acquired
  <2>2. Tls!First(Tls!Resting) \in Tls!Resting
    BY <1>1, <1>4 DEF Tls!Resting
  <2>3. \A s \in Tls!Resting : s \in TlsSlots /\ ~pool[s].used
    BY DEF Tls!Resting
  <2>4. Tls!First(Tls!Resting) # 0
    BY <2>2, <2>3, TlsAssumption
  <2> QED
    BY <2>1, <2>2, <2>3, <2>4
<1>5. CASE Tls!Live(h) = {} /\ Tls!Empty = {} /\ Tls!Resting = {}
  <2>1. a.slot = 0 /\ a.evict = FALSE
    BY <1>5 DEF Tls!Acquired
  <2> QED
    BY <2>1
<1> QED
  BY <1>2, <1>3, <1>4, <1>5

\* What a thread starts a request to h with, over the slot z.
NewRequest(h, z, warm) == [Tls!Idle EXCEPT !.pc = IF warm THEN "drain" ELSE "connect",
                                            !.host = h, !.slot = z, !.reused = warm]

\* A new request is one of a thread's states.
LEMMA NewRequestIs ==
  ASSUME NEW h \in Hosts, NEW z \in TlsSlots \cup {0}, NEW warm \in BOOLEAN, NEW r, r = NewRequest(h, z, warm)
  PROVE  /\ r \in Thread /\ r.slot = z /\ r.host = h /\ r.reused = warm /\ r.sends = 0
         /\ r.pc = IF warm THEN "drain" ELSE "connect"
<1> DEFINE p == IF warm THEN "drain" ELSE "connect"
           i == Tls!Idle
<1>1. p \in {"drain", "connect"} /\ (p = IF warm THEN "drain" ELSE "connect")
  OBVIOUS
<1>2. i \in Thread /\ i.sends = 0
  BY DEF Tls!Idle, Tls!None, Thread
<1> HIDE DEF p, i
<1> DEFINE r1 == [i EXCEPT !.pc = p]
           r2 == [r1 EXCEPT !.host = h]
           r3 == [r2 EXCEPT !.slot = z]
           r4 == [r3 EXCEPT !.reused = warm]
<1>3. r1 \in Thread /\ r1.sends = 0 /\ r1.pc = p
  BY <1>1, <1>2 DEF Thread, AtWork
<1> HIDE DEF r1
<1>4. r2 \in Thread /\ r2.sends = 0 /\ r2.pc = p /\ r2.host = h
  BY <1>3 DEF Thread
<1> HIDE DEF r2
<1>5. r3 \in Thread /\ r3.sends = 0 /\ r3.pc = p /\ r3.host = h /\ r3.slot = z
  BY <1>4 DEF Thread
<1> HIDE DEF r3
<1>6. r4 \in Thread /\ r4.sends = 0 /\ r4.pc = p /\ r4.host = h /\ r4.slot = z /\ r4.reused = warm
  BY <1>5 DEF Thread
<1>7. r4 = [i EXCEPT !.pc = p, !.host = h, !.slot = z, !.reused = warm]
  BY DEF r1, r2, r3
<1>8. r4 = NewRequest(h, z, warm)
  BY <1>7 DEF p, i, NewRequest
<1> QED
  BY <1>1, <1>6, <1>8

\* A new request: a thread gets a slot that rests, with its connection to the
\* host or without one, or goes without a slot.
LEMMA RequestsWell ==
  ASSUME TlsInv, NEW t \in TlsThreads, NEW z \in TlsSlots \cup {0}, NEW r \in Thread,
         tlsThr[t].pc = "idle", z # 0 => ~pool[z].used,
         r.slot = z, r.host \in Hosts, r.sends = 0, r.pc \in {"drain", "connect"},
         r.pc = "drain" => r.reused, r.reused => z # 0 /\ ctx'[z].to = r.host,
         tlsThr' = [tlsThr EXCEPT ![t] = r], tlsAsked' = tlsAsked,
         pool' \in [TlsSlots -> Entry], ctx' \in [TlsSlots \cup TlsThreads -> Connection],
         \A s \in TlsSlots : (s = z => pool'[s].used) /\ (s # z => pool'[s] = pool[s]),
         \A c \in TlsSlots \cup TlsThreads : c # z => ctx'[c] = ctx[c]
  PROVE  TlsInv'
<1>2. r.slot = z /\ r.sends = 0
  OBVIOUS
<1>3. tlsThr' = [tlsThr EXCEPT ![t] = r]
  OBVIOUS
<1>4. /\ tlsThr[t].slot = 0 /\ ctx[t] = Tls!Closed /\ Tls!Of(t) = t
      /\ z # 0 => \A u \in TlsThreads : tlsThr[u].slot # z
  BY OwnOf DEF TlsInv, Serves
<1>5. tlsThr'[t] = r /\ \A u \in TlsThreads : u # t => tlsThr'[u] = tlsThr[u]
  BY <1>3 DEF TlsInv, TlsTypes
<1>6. TlsTypes'
  <2>1. tlsThr' \in [TlsThreads -> Thread] /\ tlsAsked' \in [TlsThreads -> Hosts \cup {"none"}]
    BY <1>2, <1>3 DEF TlsInv, TlsTypes
  <2> QED
    BY <2>1 DEF TlsTypes
<1>7. \A u \in TlsThreads : u # t => (Tls!Of(u))' = Tls!Of(u) /\ Tls!Of(u) # z
  BY <1>4, <1>5, TlsAssumption DEF Tls!Of
<1>8. \A u \in TlsThreads : Serves(tlsThr'[u], ctx'[u], ctx'[(Tls!Of(u))'], tlsAsked'[u])
  <2> TAKE u \in TlsThreads
  <2>0. u # z
    BY TlsAssumption
  <2>1. CASE u = t
    <3>1. ctx'[t] = Tls!Closed
      BY <2>0, <2>1, <1>4
    <3>2. r.reused => (Tls!Of(t))' = z
      BY <1>2, <1>5 DEF Tls!Of
    <3>3. r.sends + (IF r.reused THEN 1 ELSE 0) + (IF r.pc \in {"drain", "connect", "write"} THEN 1 ELSE 0) <= 2
      BY <1>2
    <3>4. Serves(r, Tls!Closed, ctx'[(Tls!Of(t))'], tlsAsked'[t])
      BY <3>2, <3>3, <1>2 DEF Serves, AtWork
    <3> QED
      BY <2>1, <3>1, <3>4, <1>5
  <2>2. CASE u # t
    <3>1. ctx'[u] = ctx[u] /\ ctx'[(Tls!Of(u))'] = ctx[Tls!Of(u)] /\ tlsThr'[u] = tlsThr[u]
      BY <2>0, <2>2, <1>5, <1>7, OwnOf
    <3> QED
      BY <3>1 DEF TlsInv
  <2> QED
    BY <2>1, <2>2
<1>9. \A v, u \in TlsThreads : v # u /\ tlsThr'[v].slot = tlsThr'[u].slot => tlsThr'[v].slot = 0
  BY <1>2, <1>4, <1>5 DEF TlsInv
<1>10. \A s \in TlsSlots : pool'[s].used <=> \E u \in TlsThreads : tlsThr'[u].slot = s
  <2> TAKE s \in TlsSlots
  <2>0. s # 0
    BY TlsAssumption
  <2>1. CASE s = z
    BY <2>0, <2>1, <1>2, <1>5
  <2>2. CASE s # z
    <3>1. \A u \in TlsThreads : tlsThr'[u].slot = s <=> tlsThr[u].slot = s
      BY <2>0, <2>2, <1>2, <1>4, <1>5
    <3> QED
      BY <2>2, <3>1, <1>5 DEF TlsInv
  <2> QED
    BY <2>1, <2>2
<1>11. \A s \in TlsSlots : Rests(pool'[s], ctx'[s])
  <2> TAKE s \in TlsSlots
  <2>0. s # 0
    BY TlsAssumption
  <2>1. CASE s = z
    BY <2>1 DEF Rests
  <2>2. CASE s # z
    <3>1. pool'[s] = pool[s] /\ ctx'[s] = ctx[s]
      BY <2>2
    <3> QED
      BY <3>1 DEF TlsInv
  <2> QED
    BY <2>1, <2>2
<1> QED
  BY <1>6, <1>8, <1>9, <1>10, <1>11 DEF TlsInv

\* Every step of the pool keeps the promise.
LEMMA TlsKept ==
  ASSUME TlsInv, Tls!Next \/ UNCHANGED tlsVars
  PROVE  TlsInv'
<1>1. ASSUME NEW t \in TlsThreads, NEW h \in Hosts, Tls!Request(t, h)
      PROVE  TlsInv'
  <2> DEFINE a == Tls!Acquired(h)
             warm == a.slot # 0 /\ ~a.evict /\ pool[a.slot].valid
  <2>1. /\ tlsThr[t].pc = "idle" /\ tlsAsked' = tlsAsked
        /\ pool' = IF a.slot = 0 THEN pool
                   ELSE [pool EXCEPT ![a.slot].used = TRUE, ![a.slot].valid = warm]
        /\ ctx' = IF a.evict THEN [ctx EXCEPT ![a.slot] = Tls!Closed] ELSE ctx
        /\ tlsThr' = [tlsThr EXCEPT ![t] = NewRequest(h, a.slot, warm)]
    BY <1>1 DEF Tls!Request, NewRequest
  <2>2. /\ a.slot \in TlsSlots \cup {0} /\ (a.slot # 0 => ~pool[a.slot].used) /\ (a.evict => a.slot # 0)
        /\ warm => a.slot # 0 /\ ~a.evict /\ pool[a.slot].valid /\ pool[a.slot].host = h
    BY AcquiredRests
  <2>3. warm \in BOOLEAN /\ a.evict \in BOOLEAN
    BY DEF Tls!Acquired
  <2> HIDE DEF a, warm
  <2> DEFINE r == NewRequest(h, a.slot, warm)
  <2>4. r = NewRequest(h, a.slot, warm)
    OBVIOUS
  <2>5. tlsThr' = [tlsThr EXCEPT ![t] = r]
    BY <2>1
  <2> HIDE DEF r
  <2>6. /\ r \in Thread /\ r.slot = a.slot /\ r.host = h /\ r.reused = warm /\ r.sends = 0
        /\ r.pc = IF warm THEN "drain" ELSE "connect"
    BY <2>2, <2>3, <2>4, NewRequestIs
  <2> DEFINE z == a.slot
  <2>7. z \in TlsSlots \cup {0} /\ r.slot = z /\ (z # 0 => ~pool[z].used)
    BY <2>2, <2>6
  <2>8. /\ pool' \in [TlsSlots -> Entry]
        /\ \A s \in TlsSlots : (s = z => pool'[s].used) /\ (s # z => pool'[s] = pool[s])
    <3>1. CASE z = 0
      BY <3>1, <2>1, TlsAssumption DEF TlsInv, TlsTypes
    <3>2. CASE z # 0
      <4> DEFINE e == pool[z]
                 e1 == [e EXCEPT !.used = TRUE]
                 e2 == [e1 EXCEPT !.valid = warm]
      <4>1. e \in Entry /\ pool' = [pool EXCEPT ![z] = e2] /\ z \in TlsSlots
        BY <3>2, <2>1, <2>7 DEF TlsInv, TlsTypes
      <4> HIDE DEF e
      <4>2. e1 \in Entry /\ e1.used
        BY <4>1 DEF Entry
      <4> HIDE DEF e1
      <4>3. e2 \in Entry /\ e2.used
        BY <4>2, <2>3 DEF Entry
      <4> HIDE DEF e2, z
      <4> QED
        BY <4>1, <4>3 DEF TlsInv, TlsTypes
    <3> QED
      BY <3>1, <3>2
  <2>9. /\ ctx' \in [TlsSlots \cup TlsThreads -> Connection]
        /\ \A c \in TlsSlots \cup TlsThreads : c # z => ctx'[c] = ctx[c]
    <3>1. CASE a.evict
      <4>1. Tls!Closed \in Connection
        BY DEF Tls!Closed, Connection, Tls!None
      <4>2. ctx' = [ctx EXCEPT ![z] = Tls!Closed]
        BY <3>1, <2>1
      <4> QED
        BY <4>1, <4>2 DEF TlsInv, TlsTypes
    <3>2. CASE ~a.evict
      <4>1. ctx' = ctx
        BY <3>2, <2>1
      <4> QED
        BY <4>1 DEF TlsInv, TlsTypes
    <3> QED
      BY <3>1, <3>2
  <2>10. r.reused => z # 0 /\ ctx'[z].to = r.host
    <3> SUFFICES ASSUME warm PROVE z # 0 /\ ctx'[z].to = h
      BY <2>6
    <3>1. z # 0 /\ ctx' = ctx /\ pool[z].valid /\ pool[z].host = h
      BY <2>1, <2>2
    <3>2. Rests(pool[z], ctx[z])
      BY <2>7, <3>1 DEF TlsInv
    <3> QED
      BY <2>7, <3>1, <3>2 DEF Rests
  <2>11. r.pc \in {"drain", "connect"} /\ (r.pc = "drain" => r.reused) /\ r.host \in Hosts /\ r.sends = 0 /\ r \in Thread
    BY <2>6
  <2> HIDE DEF z
  <2>12. TlsInv /\ t \in TlsThreads /\ tlsThr[t].pc = "idle" /\ tlsAsked' = tlsAsked
    BY <2>1
  <2> QED
    BY ONLY <2>12, <2>5, <2>7, <2>8, <2>9, <2>10, <2>11, RequestsWell
<1>2. ASSUME NEW t \in TlsThreads, NEW h \in Hosts, Tls!Plain(t, h)
      PROVE  TlsInv'
  <2>1. /\ tlsThr[t].pc = "idle" /\ tlsAsked' = tlsAsked /\ pool' = pool /\ ctx' = ctx
        /\ tlsThr' = [tlsThr EXCEPT ![t] = [Tls!Idle EXCEPT !.pc = "connect", !.host = h]]
    BY <1>2 DEF Tls!Plain
  <2> DEFINE r == [Tls!Idle EXCEPT !.pc = "connect", !.host = h]
  <2>2. r = [[Tls!Idle EXCEPT !.pc = "connect"] EXCEPT !.host = h]
    OBVIOUS
  <2>3. tlsThr' = [tlsThr EXCEPT ![t] = r]
    BY <2>1
  <2> HIDE DEF r
  <2>4. /\ r \in Thread /\ r.slot = 0 /\ r.host = h /\ r.reused = FALSE /\ r.sends = 0
        /\ r.pc = IF FALSE THEN "drain" ELSE "connect"
    <3> DEFINE i == Tls!Idle
               r1 == [i EXCEPT !.pc = "connect"]
               r2 == [r1 EXCEPT !.host = h]
    <3>1. i \in Thread /\ i.slot = 0 /\ i.reused = FALSE /\ i.sends = 0
      BY DEF Tls!Idle, Tls!None, Thread
    <3>2. r = r2
      BY <2>2
    <3> HIDE DEF i
    <3>3. r1 \in Thread /\ r1.slot = 0 /\ r1.reused = FALSE /\ r1.sends = 0 /\ r1.pc = "connect"
      BY <3>1 DEF Thread
    <3> HIDE DEF r1
    <3>4. r2 \in Thread /\ r2.slot = 0 /\ r2.reused = FALSE /\ r2.sends = 0 /\ r2.pc = "connect" /\ r2.host = h
      BY <3>3 DEF Thread
    <3> HIDE DEF r2
    <3> QED
      BY <3>2, <3>4
  <2> DEFINE z == 0
  <2>5. /\ z \in TlsSlots \cup {0} /\ (z # 0 => ~pool[z].used)
        /\ r.slot = z /\ (r.reused => z # 0 /\ ctx'[z].to = r.host)
        /\ r.pc \in {"drain", "connect"} /\ (r.pc = "drain" => r.reused)
    BY <2>4
  <2>6. \A s \in TlsSlots : (s = z => pool'[s].used) /\ (s # z => pool'[s] = pool[s])
    BY <2>1, TlsAssumption
  <2>7. /\ pool' \in [TlsSlots -> Entry] /\ ctx' \in [TlsSlots \cup TlsThreads -> Connection]
        /\ \A c \in TlsSlots \cup TlsThreads : c # z => ctx'[c] = ctx[c]
    BY <2>1 DEF TlsInv, TlsTypes
  <2> HIDE DEF z
  <2>8. TlsInv /\ t \in TlsThreads /\ tlsThr[t].pc = "idle" /\ tlsAsked' = tlsAsked /\ h \in Hosts
    BY <2>1
  <2> QED
    BY ONLY <2>3, <2>4, <2>5, <2>6, <2>7, <2>8, RequestsWell
<1>3. ASSUME NEW t \in TlsThreads, Tls!Step(t)
      PROVE  TlsInv'
  BY <1>3, TlsStepKeeps
<1>4. ASSUME NEW c \in DOMAIN ctx, Tls!Dies(c)
      PROVE  TlsInv'
  <2>0. c \in TlsSlots \cup TlsThreads
    BY DEF TlsInv, TlsTypes
  <2>1. /\ ctx[c].to # "none" /\ UNCHANGED <<pool, tlsThr, tlsAsked>>
        /\ ctx' = [ctx EXCEPT ![c] = [ctx[c] EXCEPT !.dead = TRUE]]
    BY <1>4 DEF Tls!Dies, Tls!None
  <2> DEFINE d == [ctx[c] EXCEPT !.dead = TRUE]
  <2>2. d \in Connection /\ d.to = ctx[c].to
    <3>1. ctx[c] \in Connection
      BY <2>0 DEF TlsInv, TlsTypes
    <3> QED
      BY <3>1 DEF Connection
  <2>3. ctx' = [ctx EXCEPT ![c] = d]
    BY <2>1
  <2> HIDE DEF d
  <2>4. TlsTypes'
    <3>1. ctx' \in [TlsSlots \cup TlsThreads -> Connection]
      BY <2>0, <2>2, <2>3 DEF TlsInv, TlsTypes
    <3> QED
      BY <2>1, <3>1 DEF TlsInv, TlsTypes
  <2>5. \A b \in TlsSlots \cup TlsThreads : ctx'[b].to = ctx[b].to /\ (b # c => ctx'[b] = ctx[b])
    BY <2>0, <2>2, <2>3 DEF TlsInv, TlsTypes
  <2>6. \A u \in TlsThreads : Serves(tlsThr'[u], ctx'[u], ctx'[(Tls!Of(u))'], tlsAsked'[u])
    <3> TAKE u \in TlsThreads
    <3>1. (Tls!Of(u))' = Tls!Of(u)
      BY <2>1 DEF Tls!Of
    <3>2. Serves(tlsThr[u], ctx[u], ctx[Tls!Of(u)], tlsAsked[u])
      BY DEF TlsInv
    <3>3. ctx[u] = Tls!Closed => ctx'[u] = ctx[u]
      BY <2>1, <2>5 DEF Tls!Closed, Tls!None
    <3>4. ctx'[Tls!Of(u)].to = ctx[Tls!Of(u)].to
      BY <2>5, OwnOf
    <3> QED
      BY <2>1, <3>1, <3>2, <3>3, <3>4 DEF Serves
  <2>7. \A s \in TlsSlots : Rests(pool'[s], ctx'[s])
    BY <2>1, <2>5 DEF TlsInv, Rests
  <2> QED
    BY <2>1, <2>4, <2>6, <2>7 DEF TlsInv
<1>5. CASE Tls!Cleanup
  <2>1. /\ pool' = [s \in TlsSlots |-> IF pool[s].used THEN pool[s]
                                       ELSE [host |-> "none", used |-> pool[s].used, valid |-> FALSE]]
        /\ ctx' = [c \in TlsSlots \cup TlsThreads |-> IF c \in TlsSlots /\ ~pool[c].used THEN Tls!Closed ELSE ctx[c]]
        /\ UNCHANGED <<tlsThr, tlsAsked>>
    BY <1>5 DEF Tls!Cleanup, Tls!Spared, Tls!None, TlsInv, TlsTypes
  <2>2. Tls!Closed \in Connection /\ Tls!Closed.to = "none"
    BY DEF Tls!Closed, Connection, Tls!None
  <2>3. TlsTypes'
    <3>1. \A s \in TlsSlots : pool[s] \in Entry /\ [host |-> "none", used |-> pool[s].used, valid |-> FALSE] \in Entry
      BY DEF TlsInv, TlsTypes, Entry
    <3> QED
      BY <2>1, <2>2, <3>1 DEF TlsInv, TlsTypes
  <2>4. \A u \in TlsThreads : (Tls!Of(u))' = Tls!Of(u) /\ ctx'[u] = ctx[u] /\ ctx'[Tls!Of(u)] = ctx[Tls!Of(u)]
    BY <2>1, OwnOf, TlsAssumption DEF Tls!Of
  <2>6. \A u \in TlsThreads : Serves(tlsThr'[u], ctx'[u], ctx'[(Tls!Of(u))'], tlsAsked'[u])
    <3> TAKE u \in TlsThreads
    <3>1. Serves(tlsThr[u], ctx[u], ctx[Tls!Of(u)], tlsAsked[u])
      BY DEF TlsInv
    <3>2. tlsThr'[u] = tlsThr[u] /\ tlsAsked'[u] = tlsAsked[u]
      BY <2>1
    <3> QED
      BY <2>4, <3>1, <3>2
  <2>5. \A s \in TlsSlots : pool'[s].used = pool[s].used /\ Rests(pool'[s], ctx'[s])
    <3> TAKE s \in TlsSlots
    <3>1. CASE pool[s].used
      BY <2>1, <3>1 DEF Rests
    <3>2. CASE ~pool[s].used
      BY <2>1, <2>2, <3>2 DEF Rests
    <3> QED
      BY <3>1, <3>2
  <2> QED
    BY <2>1, <2>3, <2>5, <2>6 DEF TlsInv
<1>6. CASE UNCHANGED tlsVars
  BY <1>6 DEF TlsInv, TlsTypes, tlsVars, Tls!Of
<1> QED
  BY <1>1, <1>2, <1>3, <1>4, <1>5, <1>6 DEF Tls!Next

\* While a request is on its way it is written to a connection to its own host
\* that no other thread uses, at most twice, and no connection is leaked.
THEOREM ConnectionsAreOwn == PartsSpec => [](part = "tls" => Tls!OwnConnection)
<1>1. PartsInit => TlsInv
  <2> SUFFICES ASSUME Tls!Init PROVE TlsInv
    BY DEF PartsInit
  <2>1. TlsTypes
    BY DEF TlsTypes, Tls!Init, Tls!Closed, Tls!Idle, Tls!None, Entry, Connection, Thread, AtWork
  <2>2. \A t \in TlsThreads : tlsThr[t] = Tls!Idle /\ ctx[t] = Tls!Closed /\ Tls!Of(t) = t /\ tlsThr[t].slot = 0
    BY DEF Tls!Init, Tls!Of, Tls!Idle
  <2>3. \A t \in TlsThreads : Serves(tlsThr[t], ctx[t], ctx[Tls!Of(t)], tlsAsked[t])
    BY <2>2 DEF Serves, Tls!Idle, AtWork
  <2>4. \A s \in TlsSlots : s # 0 /\ ~pool[s].used /\ Rests(pool[s], ctx[s])
    BY TlsAssumption DEF Tls!Init, Rests, Tls!Closed, Tls!None
  <2> QED
    BY <2>1, <2>2, <2>3, <2>4 DEF TlsInv
<1>2. (part = "tls" => TlsInv) /\ [PartsNext]_<<part, moving>> => (part = "tls" => TlsInv)'
  <2> SUFFICES ASSUME part = "tls" => TlsInv, [PartsNext]_<<part, moving>>, part' = "tls"
               PROVE  TlsInv'
    OBVIOUS
  <2>1. part = "tls"
    BY DEF PartsNext
  <2> QED
    BY <2>1, TlsMoves, TlsKept
<1>3. TlsInv => Tls!OwnConnection
  <2> SUFFICES ASSUME TlsInv PROVE Tls!OwnConnection
    OBVIOUS
  <2>1. \A t \in TlsThreads : tlsThr[t].sends \in Nat /\ Serves(tlsThr[t], ctx[t], ctx[Tls!Of(t)], tlsAsked[t])
    BY DEF TlsInv, TlsTypes, Thread
  <2>2. \A t \in TlsThreads : /\ tlsThr[t].pc \in {"wait", "read"} =>
                                tlsAsked[t] = tlsThr[t].host /\ ctx[Tls!Of(t)].to = tlsThr[t].host
                           /\ tlsThr[t].sends <= 2 /\ (tlsThr[t].pc = "idle" => ctx[t] = Tls!Closed)
    BY <2>1 DEF Serves, AtWork
  <2> QED
    BY <2>2 DEF Tls!OwnConnection, TlsInv, Rests, Tls!None
<1> QED
  BY <1>1, <1>2, <1>3, PTL DEF PartsSpec
-----------------------------------------------------------------------------
(* The calls to nodes: NodeLink. *)

\* A step of the model is one of the gateway or none, when the gateway moves.
LEMMA NodesMove ==
  ASSUME [PartsNext]_<<part, moving>>, part = "nodes"
  PROVE  part' = "nodes" /\ (Gateway!Next \/ UNCHANGED nodesVars)
<1>1. CASE PartsNext
  BY <1>1 DEF PartsNext
<1>2. CASE UNCHANGED <<part, moving>>
  BY <1>2 DEF moving
<1> QED
  BY <1>1, <1>2

Lost == {"gone", "wake", "closed"}
Places == {"away", "invalidate", "rebuild", "built", "open"} \cup Lost
\* An entry is that of the latest connection of its node, and only the end of this
\* one takes it away.
NodesInv ==
  /\ nodeTable \in [Nodes -> Conns \cup {0}] /\ latest \in [Nodes -> Conns \cup {0}]
  /\ nodeAt \in [Conns -> Places] /\ id \in [Conns -> Nodes]
  /\ \A n \in Nodes : /\ nodeTable[n] \in {0, latest[n]}
                      /\ latest[n] # 0 => nodeAt[latest[n]] # "away"
                      /\ latest[n] # 0 /\ nodeAt[latest[n]] \notin Lost => nodeTable[n] = latest[n]

\* A thread that goes from one place to another where its connection is not lost,
\* or from one where it was, leaves the table right.
LEMMA PlacesMove ==
  ASSUME NodesInv, NEW c \in Conns, NEW p \in Places \ {"away"}, nodeAt[c] # "away",
         nodeAt' = [nodeAt EXCEPT ![c] = p], nodeAt[c] \in Lost => p \in Lost,
         UNCHANGED <<nodeTable, latest, id>>
  PROVE  NodesInv'
<1>1. nodeAt' \in [Conns -> Places] /\ nodeAt'[c] = p /\ \A d \in Conns : d # c => nodeAt'[d] = nodeAt[d]
  BY DEF NodesInv
<1>2. ASSUME NEW n \in Nodes, latest[n] # 0
      PROVE  /\ nodeAt'[latest[n]] # "away"
             /\ nodeAt'[latest[n]] \notin Lost => nodeTable[n] = latest[n]
  <2>1. latest[n] \in Conns
    BY <1>2 DEF NodesInv
  <2> QED
    BY <1>1, <1>2, <2>1 DEF NodesInv
<1> QED
  BY <1>1, <1>2 DEF NodesInv

\* A connection is registered for its node, or the table is full.
LEMMA RegisterKeeps ==
  ASSUME NodesInv, NEW c \in Conns, Gateway!Register(c)
  PROVE  NodesInv'
<1>0. nodeAt[c] = "away" /\ id' = id /\ id[c] \in Nodes /\ c # 0
  BY NodesAssumption DEF Gateway!Register, Gateway!Goes, NodesInv
<1>1. CASE nodeTable' = [nodeTable EXCEPT ![id[c]] = c] /\ latest' = [latest EXCEPT ![id[c]] = c]
           /\ nodeAt' = [nodeAt EXCEPT ![c] = "invalidate"]
  <2>1. /\ nodeTable' \in [Nodes -> Conns \cup {0}] /\ latest' \in [Nodes -> Conns \cup {0}]
        /\ nodeAt' \in [Conns -> Places] /\ id' \in [Conns -> Nodes]
    BY <1>0, <1>1 DEF NodesInv, Places
  <2>2. ASSUME NEW n \in Nodes
        PROVE  /\ nodeTable'[n] \in {0, latest'[n]}
               /\ latest'[n] # 0 => nodeAt'[latest'[n]] # "away"
               /\ latest'[n] # 0 /\ nodeAt'[latest'[n]] \notin Lost => nodeTable'[n] = latest'[n]
    <3>1. CASE n = id[c]
      BY <3>1, <1>0, <1>1 DEF NodesInv
    <3>2. CASE n # id[c]
      <4>1. nodeTable'[n] = nodeTable[n] /\ latest'[n] = latest[n]
        BY <3>2, <1>1 DEF NodesInv
      <4>2. ASSUME latest[n] # 0 PROVE nodeAt'[latest[n]] = nodeAt[latest[n]]
        BY <4>2, <1>0, <1>1 DEF NodesInv
      <4> QED
        BY <4>1, <4>2 DEF NodesInv
    <3> QED
      BY <3>1, <3>2
  <2> QED
    BY <2>1, <2>2 DEF NodesInv
<1>2. CASE UNCHANGED <<nodeTable, latest>> /\ nodeAt' = [nodeAt EXCEPT ![c] = "open"]
  <2>1. nodeAt' \in [Conns -> Places] /\ \A d \in Conns : d # c => nodeAt'[d] = nodeAt[d]
    BY <1>2 DEF NodesInv, Places
  <2>2. \A n \in Nodes : latest[n] # 0 => latest[n] \in Conns /\ latest[n] # c
    BY <1>0 DEF NodesInv
  <2> QED
    BY <1>0, <1>2, <2>1, <2>2 DEF NodesInv
<1> QED
  BY <1>1, <1>2 DEF Gateway!Register, Gateway!Goes, Gateway!Takes

\* The end of a connection takes away only an entry of its own.
LEMMA DisconnectKeeps ==
  ASSUME NodesInv, NEW c \in Conns, Gateway!Disconnect(c)
  PROVE  NodesInv'
<1>1. PICK p \in {"wake", "gone"} : nodeAt[c] = "open" /\ nodeAt' = [nodeAt EXCEPT ![c] = p]
  BY DEF Gateway!Disconnect, Gateway!Goes
<1>2. UNCHANGED <<id, latest>> /\ \A n \in Nodes : nodeTable'[n] = IF nodeTable[n] = c THEN 0 ELSE nodeTable[n]
  <2>1. \A n \in Nodes : n \in Gateway!Entry(c) <=> nodeTable[n] = c
    BY NodesAssumption DEF Gateway!Entry, Gateway!Active, Gateway!None
  <2> QED
    BY <2>1 DEF Gateway!Disconnect, Gateway!None
<1>3. nodeTable' \in [Nodes -> Conns \cup {0}]
  <2>1. nodeTable' = [n \in Nodes |-> nodeTable'[n]]
    BY DEF Gateway!Disconnect
  <2> QED
    BY <2>1, <1>2 DEF NodesInv
<1>4. nodeAt' \in [Conns -> Places] /\ nodeAt'[c] = p /\ \A d \in Conns : d # c => nodeAt'[d] = nodeAt[d]
  BY <1>1 DEF NodesInv, Places, Lost
<1>5. ASSUME NEW n \in Nodes
      PROVE  /\ nodeTable'[n] \in {0, latest[n]}
             /\ latest[n] # 0 => nodeAt'[latest[n]] # "away"
             /\ latest[n] # 0 /\ nodeAt'[latest[n]] \notin Lost => nodeTable'[n] = latest[n]
  <2>1. CASE latest[n] = c
    BY <2>1, <1>1, <1>2, <1>4 DEF NodesInv, Lost
  <2>2. CASE latest[n] # c
    <3>1. latest[n] # 0 => nodeAt'[latest[n]] = nodeAt[latest[n]]
      BY <2>2, <1>4 DEF NodesInv
    <3>2. nodeTable'[n] = nodeTable[n] \/ (nodeTable[n] = c /\ nodeTable'[n] = 0)
      BY <1>2
    <3>3. nodeTable[n] # c
      BY <2>2, NodesAssumption DEF NodesInv
    <3> QED
      BY <3>1, <3>2, <3>3 DEF NodesInv
  <2> QED
    BY <2>1, <2>2
<1> QED
  BY <1>2, <1>3, <1>4, <1>5 DEF NodesInv

\* Every step of the gateway keeps the table right.
LEMMA NodesKept ==
  ASSUME NodesInv, Gateway!Next \/ UNCHANGED nodesVars
  PROVE  NodesInv'
<1>1. ASSUME NEW c \in Conns, Gateway!Invalidate(c) \/ Gateway!Rebuild(c) \/ Gateway!Wake(c)
      PROVE  NodesInv'
  <2>1. /\ UNCHANGED <<nodeTable, latest, id>>
        /\ \E p \in Places \ {"away"} : /\ nodeAt[c] # "away" /\ nodeAt' = [nodeAt EXCEPT ![c] = p]
                                        /\ nodeAt[c] \in Lost => p \in Lost
    BY <1>1 DEF Gateway!Invalidate, Gateway!Rebuild, Gateway!Wake, Gateway!Goes, Places, Lost
  <2> QED
    BY <2>1, PlacesMove
<1>2. ASSUME NEW c \in Conns, Gateway!Answer(c)
      PROVE  NodesInv'
  BY <1>2 DEF Gateway!Answer, Gateway!wire, NodesInv
<1>3. CASE Gateway!GetTools
  BY <1>3 DEF Gateway!GetTools, Gateway!wire, NodesInv
<1>4. ASSUME NEW t \in NodeCallers, Gateway!Caller(t)
      PROVE  NodesInv'
  <2>1. UNCHANGED <<nodeTable, nodeAt, id, latest>>
    BY <1>4 DEF Gateway!Caller, Gateway!Find, Gateway!Alloc, Gateway!Claim, Gateway!Send, Gateway!Return, Gateway!wire
  <2> QED
    BY <2>1 DEF NodesInv
<1>5. CASE UNCHANGED nodesVars
  BY <1>5 DEF NodesInv, nodesVars
<1> QED
  BY <1>1, <1>2, <1>3, <1>4, <1>5, RegisterKeeps, DisconnectKeeps DEF Gateway!Next, Gateway!Client

\* A node that reconnects is found by its new connection, until this one ends.
LEMMA ReconnectedAreFound == PartsSpec => [](part = "nodes" => Gateway!ReconnectedIsFound)
<1>1. PartsInit => NodesInv
  BY NodesAssumption DEF PartsInit, Gateway!Init, NodesInv, Places, Gateway!None
<1>2. (part = "nodes" => NodesInv) /\ [PartsNext]_<<part, moving>> => (part = "nodes" => NodesInv)'
  <2> SUFFICES ASSUME part = "nodes" => NodesInv, [PartsNext]_<<part, moving>>, part' = "nodes"
               PROVE  NodesInv'
    OBVIOUS
  <2>1. part = "nodes"
    BY DEF PartsNext
  <2> QED
    BY <2>1, NodesMove, NodesKept
<1>3. NodesInv => Gateway!ReconnectedIsFound
  BY DEF NodesInv, Gateway!ReconnectedIsFound, Gateway!None, Lost
<1> QED
  BY <1>1, <1>2, <1>3, PTL DEF PartsSpec
-----------------------------------------------------------------------------
(* The choice of a language model: LlmRouter. *)

\* A step of the model is one of the router or none, when the router moves.
LEMMA RouterMoves ==
  ASSUME [PartsNext]_<<part, moving>>, part = "router"
  PROVE  part' = "router" /\ (Router!Next \/ UNCHANGED routerVars)
<1>1. CASE PartsNext
  BY <1>1 DEF PartsNext
<1>2. CASE UNCHANGED <<part, moving>>
  BY <1>2 DEF moving
<1> QED
  BY <1>1, <1>2

Backend == [service : Services \cup {"none"}, prio : Nat, tier : 0..3, fails : Nat, since : Nat, wait : Nat]
Backends == [LlmSlots -> Backend]
\* While no command meddles: from its selection on the turn's slot is configured,
\* from Apply on it is the one in effect, and the request is written for and sent to it.
OnItsWay(s) ==
  /\ llmPc \in {"apply", "write", "send", "answer"} => s # "none"
  /\ llmPc \in {"write", "send", "answer"} => proxy = s
  /\ llmPc \in {"send", "answer"} => body = s
  /\ llmPc = "answer" => called = s
RouterInv ==
  /\ llmSlots \in Backends /\ idx \in LlmSlots \cup {0} /\ profile \in Router!Profiles
  /\ meddled \in BOOLEAN
  /\ ~meddled /\ idx # 0 => OnItsWay(llmSlots[idx].service)

\* The first of the largest values is one of them, if they have a bound.
LEMMA FirstIs ==
  ASSUME NEW T \in SUBSET LlmSlots, T # {}, NEW V \in [LlmSlots -> Int], NEW b \in Int,
         \A s \in T : V[s] <= b
  PROVE  Router!First(T, V) \in T
<1> DEFINE D == {b - V[s] : s \in T}
<1>1. D \subseteq Nat /\ D # {}
  <2>1. ASSUME NEW s \in T PROVE b - V[s] \in Nat
    <3>1. V[s] \in Int /\ V[s] <= b
      OBVIOUS
    <3> QED
      BY <3>1
  <2> QED
    BY <2>1
<1>2. PICK s0 \in T : \A s \in T : b - V[s0] <= b - V[s]
  <2>1. PICK d \in D : \A x \in D : d <= x
    BY <1>1, LeastNumber
  <2> QED
    BY <2>1
<1>3. \A s \in T : V[s] <= V[s0] /\ V[s] \in Int /\ V[s0] \in Int
  BY <1>2
<1> DEFINE E == {s \in T : V[s] = V[s0]}
<1>4. E \subseteq Nat /\ E # {}
  BY RouterAssumption
<1>5. PICK s1 \in E : \A s \in E : s1 <= s
  BY <1>4, LeastNumber
<1>6. s1 \in T /\ \A t \in T : V[s1] > V[t] \/ (V[s1] = V[t] /\ s1 <= t)
  BY <1>3, <1>5
<1> QED
  BY <1>6 DEF Router!First

\* A score is an integer of at most 199.
LEMMA ScoreIsBounded ==
  ASSUME NEW b \in Backend, NEW c, NEW p \in Router!Profiles, NEW fast \in BOOLEAN
  PROVE  Router!Score(b, c, p, fast) \in Int /\ Router!Score(b, c, p, fast) <= 200
<1> DEFINE q == b.prio
           f == b.fails
           t == b.tier
           x == IF fast THEN 9 ELSE 0
           y == CASE p = "eco" -> (3 - t) * 30
                  [] p = "premium" -> t * 30
                  [] p = "auto" -> IF Router!Suits(t, c) THEN 20 ELSE 0
<1>1. q \in Nat /\ f \in Nat /\ t \in 0..3
  BY DEF Backend
<1>2. Router!Score(b, c, p, fast) = 100 - 10 * q - 15 * f + x + y
  BY DEF Router!Score
<1> HIDE DEF q, f, t
<1>3. x \in 0..9
  OBVIOUS
<1>4. y \in 0..90
  <2>1. CASE p = "eco"
    BY <1>1, <2>1
  <2>2. CASE p = "premium"
    BY <1>1, <2>2
  <2>3. CASE p = "auto"
    BY <2>3
  <2> QED
    BY <2>1, <2>2, <2>3 DEF Router!Profiles
<1> HIDE DEF x, y
<1> QED
  BY <1>1, <1>2, <1>3, <1>4

\* A slot with other counts and another wait.
Marked(b, n, m, k) == [b EXCEPT !.fails = n, !.since = m, !.wait = k]

\* What is counted of a slot does not change its service.
LEMMA MarkedIs ==
  ASSUME NEW b \in Backend, NEW n \in Nat, NEW m \in Nat, NEW k \in Nat
  PROVE  Marked(b, n, m, k) \in Backend /\ Marked(b, n, m, k).service = b.service
<1> DEFINE b1 == [b EXCEPT !.fails = n]
           b2 == [b1 EXCEPT !.since = m]
           b3 == [b2 EXCEPT !.wait = k]
<1>1. Marked(b, n, m, k) = b3
  BY DEF Marked
<1>2. b1 \in Backend /\ b1.service = b.service
  BY DEF Backend
<1> HIDE DEF b1
<1>3. b2 \in Backend /\ b2.service = b.service
  BY <1>2 DEF Backend
<1> HIDE DEF b2
<1>4. b3 \in Backend /\ b3.service = b.service
  BY <1>3 DEF Backend
<1> QED
  BY <1>1, <1>4

\* The look at a table, a failure and a success leave its services alone.
LEMMA TableKept ==
  ASSUME NEW S \in Backends
  PROVE  /\ Router!Looked(S) \in Backends
         /\ \A s \in LlmSlots : Router!Looked(S)[s].service = S[s].service
         /\ \A i \in LlmSlots : /\ Router!Failed(S, i) \in Backends /\ Router!Succeeded(S, i) \in Backends
                                /\ \A s \in LlmSlots : /\ Router!Failed(S, i)[s].service = S[s].service
                                                       /\ Router!Succeeded(S, i)[s].service = S[s].service
<1>1. ASSUME NEW b \in Backend, NEW n \in Nat
      PROVE  /\ [b EXCEPT !.fails = n] \in Backend /\ [b EXCEPT !.fails = n].service = b.service
             /\ [b EXCEPT !.since = n] \in Backend /\ [b EXCEPT !.since = n].service = b.service
             /\ [b EXCEPT !.wait = n] \in Backend /\ [b EXCEPT !.wait = n].service = b.service
  BY DEF Backend
<1>2. \A s \in LlmSlots : S[s] \in Backend
  BY DEF Backends
<1>3. Router!Looked(S) \in Backends /\ \A s \in LlmSlots : Router!Looked(S)[s].service = S[s].service
  <2>1. \A s \in LlmSlots : Router!Looked(S)[s] = IF Router!Usable(S, s) /\ Router!Recovered(S, s)
                                                 THEN [S[s] EXCEPT !.fails = 0] ELSE S[s]
    BY DEF Router!Looked
  <2>2. ASSUME NEW s \in LlmSlots
        PROVE  Router!Looked(S)[s] \in Backend /\ Router!Looked(S)[s].service = S[s].service
    <3>1. [S[s] EXCEPT !.fails = 0] \in Backend /\ [S[s] EXCEPT !.fails = 0].service = S[s].service
      BY <1>2 DEF Backend
    <3> QED
      BY <1>2, <2>1, <3>1
  <2> QED
    BY <2>2 DEF Router!Looked, Backends
<1>5. ASSUME NEW i \in LlmSlots, NEW b \in Backend, b.service = S[i].service, NEW U, U = [S EXCEPT ![i] = b]
      PROVE  U \in Backends /\ \A s \in LlmSlots : U[s].service = S[s].service
  BY <1>5 DEF Backends
<1>6. ASSUME NEW i \in LlmSlots
      PROVE  /\ Router!Failed(S, i) \in Backends
             /\ \A s \in LlmSlots : Router!Failed(S, i)[s].service = S[s].service
  <2> DEFINE n == IF S[i].since >= Debounce THEN Router!Least(S[i].fails + 1, MaxFails) ELSE S[i].fails
             k == Router!Backoff(n)
             b == Marked(S[i], n, 0, k)
  <2>1. Router!Failed(S, i) = [S EXCEPT ![i] = b]
    BY DEF Router!Failed, Backends, Marked
  <2>2. n \in Nat
    <3>1. S[i].fails \in Nat
      BY <1>2 DEF Backend
    <3> QED
      BY <3>1, RouterAssumption DEF Router!Least
  <2> HIDE DEF n
  <2>3. k \in Nat
    BY RouterAssumption DEF Router!Backoff, Router!Power, Router!Least
  <2> HIDE DEF k
  <2>4. b \in Backend /\ b.service = S[i].service
    <3>1. S[i] \in Backend /\ n \in Nat /\ 0 \in Nat /\ k \in Nat
      BY <1>2, <2>2, <2>3
    <3> QED
      BY ONLY <3>1, MarkedIs
  <2> HIDE DEF b
  <2> QED
    BY <1>5, <2>1, <2>4
<1>7. ASSUME NEW i \in LlmSlots
      PROVE  /\ Router!Succeeded(S, i) \in Backends
             /\ \A s \in LlmSlots : Router!Succeeded(S, i)[s].service = S[s].service
  <2> DEFINE e == S[i]
             b1 == [e EXCEPT !.fails = 0]
             b2 == [b1 EXCEPT !.wait = 0]
  <2>1. Router!Succeeded(S, i) = [S EXCEPT ![i] = b2] /\ e \in Backend
    BY <1>2 DEF Router!Succeeded, Backends
  <2> HIDE DEF e
  <2>2. b1 \in Backend /\ b1.service = e.service
    BY <1>1, <2>1
  <2> HIDE DEF b1
  <2>3. b2 \in Backend /\ b2.service = e.service
    BY <1>1, <2>2
  <2> HIDE DEF b2
  <2>4. b2.service = S[i].service
    BY <2>3 DEF e
  <2> HIDE DEF b2
  <2> QED
    BY <2>1, <2>3, <2>4 DEF Backends
<1> QED
  BY <1>3, <1>6, <1>7

\* What is selected is a slot that is configured, or none.
LEMMA SelectedIs ==
  ASSUME NEW S \in Backends, NEW c, NEW p \in Router!Profiles, NEW fast \in SUBSET LlmSlots,
         Router!Selected(S, c, p, fast) # 0
  PROVE  /\ Router!Selected(S, c, p, fast) \in LlmSlots
         /\ S[Router!Selected(S, c, p, fast)].service # "none"
<1> DEFINE L == Router!Looked(S)
           worth == [s \in LlmSlots |-> Router!Score(L[s], c, p, s \in fast)]
           sooner == [s \in LlmSlots |-> -S[s].wait]
           good == {s \in LlmSlots : Router!Usable(S, s) /\ worth[s] >= 0}
           waiting == {s \in LlmSlots : Router!Waiting(S, s)}
<1>0. Router!Selected(S, c, p, fast) =
        IF good # {} THEN Router!First(good, worth)
        ELSE IF waiting # {} THEN Router!First(waiting, sooner) ELSE 0
  BY DEF Router!Selected, Router!Nobody
<1>1. worth \in [LlmSlots -> Int] /\ \A s \in LlmSlots : worth[s] <= 200
  <2>1. \A s \in LlmSlots : L[s] \in Backend /\ (s \in fast) \in BOOLEAN
    BY TableKept DEF Backends
  <2>2. \A s \in LlmSlots : worth[s] \in Int /\ worth[s] <= 200
    BY <2>1, ScoreIsBounded
  <2> QED
    BY <2>2
<1>2. sooner \in [LlmSlots -> Int] /\ \A s \in LlmSlots : sooner[s] <= 0
  <2>1. \A s \in LlmSlots : S[s].wait \in Nat
    BY DEF Backends, Backend
  <2> QED
    BY <2>1
<1>3. \A s \in good \cup waiting : S[s].service # "none"
  BY DEF Router!Usable, Router!Waiting, Router!Configured
<1>4. good \in SUBSET LlmSlots /\ waiting \in SUBSET LlmSlots
  OBVIOUS
<1> HIDE DEF worth, sooner, good, waiting
<1>5. CASE good # {}
  <2>1. Router!First(good, worth) \in good
    BY <1>1, <1>4, <1>5, FirstIs
  <2> QED
    BY <1>0, <1>3, <1>4, <1>5, <2>1
<1>6. CASE good = {} /\ waiting # {}
  <2>1. Router!First(waiting, sooner) \in waiting
    BY <1>2, <1>4, <1>6, FirstIs
  <2> QED
    BY <1>0, <1>3, <1>4, <1>6, <2>1
<1> QED
  BY <1>0, <1>5, <1>6

\* Where the agent's next slot is chosen from the table S, as it is left.
LEMMA ReselectKeeps ==
  ASSUME NEW S \in Backends, NEW c, NEW p \in Router!Profiles, NEW other, NEW otherwise,
         other \in {"apply", "opinion"}, otherwise = "idle",
         Router!Reselect(S, c, p, other, otherwise), idx \in LlmSlots \cup {0}
  PROVE  /\ llmSlots' \in Backends /\ idx' \in LlmSlots \cup {0}
         /\ llmPc' \in {other, otherwise}
         /\ llmPc' = "apply" => llmSlots'[idx'].service # "none"
<1>1. PICK fast \in SUBSET LlmSlots :
        /\ llmSlots' = Router!Looked(S)
        /\ LET s == Router!Selected(S, c, p, fast)
           IN IF s \notin {0, idx} THEN idx' = s /\ llmPc' = other ELSE UNCHANGED idx /\ llmPc' = otherwise
  BY DEF Router!Reselect, Router!Nobody
<1> DEFINE s == Router!Selected(S, c, p, fast)
<1>2. CASE s \notin {0, idx}
  <2>1. s \in LlmSlots /\ S[s].service # "none"
    BY <1>2, SelectedIs
  <2>2. idx' = s /\ llmPc' = other
    BY <1>1, <1>2
  <2> HIDE DEF s
  <2> QED
    BY <1>1, <2>1, <2>2, TableKept
<1>3. CASE s \in {0, idx}
  <2>1. UNCHANGED idx /\ llmPc' = otherwise
    BY <1>1, <1>3
  <2> QED
    BY <1>1, <2>1, TableKept
<1> QED
  BY <1>2, <1>3

\* The steps of the agent keep the promise.
LEMMA AgentStepKeeps ==
  ASSUME RouterInv, Router!Agent
  PROVE  RouterInv'
<1> USE DEF Router!Nobody
<1>0. llmSlots \in Backends /\ idx \in LlmSlots \cup {0} /\ profile \in Router!Profiles /\ meddled \in BOOLEAN
  BY DEF RouterInv
<1>1. CASE Router!Begin
  <2>1. PICK fast \in SUBSET LlmSlots : idx' = Router!Selected(llmSlots, cx', profile, fast)
    BY <1>1 DEF Router!Begin
  <2>2. /\ llmSlots' = Router!Looked(llmSlots) /\ llmPc' = "apply" /\ meddled' = FALSE /\ profile' = profile
    BY <1>1 DEF Router!Begin
  <2>3. CASE idx' = 0
    BY <1>0, <2>2, <2>3, TableKept DEF RouterInv
  <2>4. CASE idx' # 0
    <3>1. idx' \in LlmSlots /\ llmSlots[idx'].service # "none"
      BY <1>0, <2>1, <2>4, SelectedIs
    <3>2. llmSlots' \in Backends /\ llmSlots'[idx'].service # "none"
      BY <1>0, <2>2, <3>1, TableKept
    <3> QED
      BY <1>0, <2>2, <3>1, <3>2 DEF RouterInv, OnItsWay
  <2> QED
    BY <2>3, <2>4
<1>2. CASE Router!Apply
  <2>1. /\ llmPc = "apply" /\ llmPc' = "write" /\ UNCHANGED <<llmSlots, profile, idx, meddled>>
        /\ proxy' = IF idx # 0 /\ llmSlots[idx].service # "none" THEN llmSlots[idx].service ELSE proxy
    BY <1>2 DEF Router!Apply, Router!Applied
  <2> QED
    BY <2>1 DEF RouterInv, OnItsWay
<1>3. CASE Router!Write \/ Router!NoKey \/ Router!SendRequest \/ Router!Lost
  BY <1>3 DEF Router!Write, Router!NoKey, Router!SendRequest, Router!Lost, RouterInv, OnItsWay
<1>9. CASE Router!RateLimited
  BY <1>9 DEF Router!RateLimited, RouterInv, OnItsWay
<1>4. CASE Router!Failover
  <2>1. idx # 0 /\ Router!Reselect(Router!Failed(llmSlots, idx), cx, profile, "apply", "idle")
        /\ meddled' = FALSE /\ UNCHANGED profile
    BY <1>4 DEF Router!Failover, Router!FailsOver
  <2>2. Router!Failed(llmSlots, idx) \in Backends
    BY <1>0, <2>1, TableKept
  <2>3. /\ llmSlots' \in Backends /\ idx' \in LlmSlots \cup {0} /\ llmPc' \in {"apply", "idle"}
        /\ llmPc' = "apply" => llmSlots'[idx'].service # "none"
    BY <1>0, <2>1, <2>2, ReselectKeeps
  <2> QED
    BY <1>0, <2>1, <2>3 DEF RouterInv, OnItsWay
<1>5. Router!Charge \in Backends /\ \A s \in LlmSlots : Router!Charge[s].service = llmSlots[s].service
  BY <1>0, TableKept DEF Router!Charge
<1>6. CASE Router!Answered
  <2>1. /\ llmPc = "answer" /\ llmPc' \in {"idle", "write"} /\ llmSlots' = Router!Charge
        /\ UNCHANGED <<profile, proxy, idx, meddled>>
    BY <1>6 DEF Router!Answered
  <2>2. idx # 0 => llmSlots'[idx].service = llmSlots[idx].service
    BY <1>0, <1>5, <2>1
  <2> QED
    BY <1>0, <1>5, <2>1, <2>2 DEF RouterInv, OnItsWay
<1>7. CASE Router!SecondOpinion
  <2>1. Router!Reselect(Router!Charge, "medium", "premium", "opinion", "idle") /\ meddled' = FALSE /\ UNCHANGED profile
    BY <1>7 DEF Router!SecondOpinion
  <2>2. "premium" \in Router!Profiles
    BY DEF Router!Profiles
  <2>3. llmSlots' \in Backends /\ idx' \in LlmSlots \cup {0} /\ llmPc' \in {"opinion", "idle"}
    BY <1>0, <1>5, <2>1, <2>2, ReselectKeeps
  <2> QED
    BY <1>0, <2>1, <2>3 DEF RouterInv, OnItsWay
<1>8. CASE Router!Opinion
  BY <1>8 DEF Router!Opinion, RouterInv, OnItsWay
<1> QED
  BY <1>1, <1>2, <1>3, <1>4, <1>6, <1>7, <1>8, <1>9 DEF Router!Agent

\* What a command makes of the table is a table.
LEMMA CommandsKeep ==
  ASSUME RouterInv, Router!Commands \/ Router!Tick \/ UNCHANGED routerVars
  PROVE  RouterInv'
<1>0. /\ llmSlots \in Backends /\ idx \in LlmSlots \cup {0} /\ profile \in Router!Profiles
      /\ meddled \in BOOLEAN /\ \A s \in LlmSlots : llmSlots[s] \in Backend
  BY DEF RouterInv, Backends
<1>1. ASSUME NEW s \in LlmSlots, NEW v \in Services, NEW t \in Tiers
      PROVE  Router!Filled(s, v, t) \in Backends
  <2> DEFINE e == Router!Blank
             b1 == [e EXCEPT !.service = v]
             b2 == [b1 EXCEPT !.prio = s - 1]
             b3 == [b2 EXCEPT !.tier = t]
  <2>1. Router!Filled(s, v, t) = [llmSlots EXCEPT ![s] = b3]
    BY DEF Router!Filled
  <2>2. e \in Backend /\ s - 1 \in Nat /\ t \in 0..3
    BY RouterAssumption DEF Router!Blank, Backend
  <2> HIDE DEF e
  <2>3. b1 \in Backend
    BY <2>2 DEF Backend
  <2> HIDE DEF b1
  <2>4. b2 \in Backend
    BY <2>2, <2>3 DEF Backend
  <2> HIDE DEF b2
  <2>5. b3 \in Backend
    BY <2>2, <2>4 DEF Backend
  <2> HIDE DEF b3
  <2> QED
    BY <1>0, <2>1, <2>5 DEF Backends
<1>2. ASSUME llmSlots' \in Backends, profile' \in Router!Profiles, Router!Command
      PROVE  RouterInv'
  BY <1>0, <1>2 DEF RouterInv, Router!Command, Router!turn
<1>3. CASE Router!SetLlm
  <2>1. PICK v \in Services, t \in Tiers : llmSlots' = Router!Filled(1, v, t)
    BY <1>3 DEF Router!SetLlm
  <2>2. Router!Command /\ profile' = profile
    BY <1>3 DEF Router!SetLlm
  <2> QED
    BY <1>0, <1>1, <1>2, <2>1, <2>2, RouterAssumption
<1>4. CASE Router!RouterSet
  <2>1. PICK v \in Services, t \in Tiers, s \in LlmSlots : llmSlots' = Router!Filled(s, v, t)
    BY <1>4 DEF Router!RouterSet
  <2>2. Router!Command /\ profile' = profile
    BY <1>4 DEF Router!RouterSet
  <2> QED
    BY <1>0, <1>1, <1>2, <2>1, <2>2
<1>5. CASE Router!RouterClear
  <2>1. PICK T : llmSlots' = [s \in LlmSlots |-> IF s \in T THEN Router!Blank ELSE llmSlots[s]]
    BY <1>5 DEF Router!RouterClear
  <2>2. Router!Command /\ profile' = profile
    BY <1>5 DEF Router!RouterClear
  <2>3. Router!Blank \in Backend
    BY RouterAssumption DEF Router!Blank, Backend
  <2>4. llmSlots' \in Backends
    BY <1>0, <2>1, <2>3 DEF Backends
  <2> QED
    BY <1>0, <1>2, <2>2, <2>4
<1>6. CASE Router!RouterModel
  <2>1. PICK s \in LlmSlots, v \in Services : llmSlots' = [llmSlots EXCEPT ![s].service = v, ![s].fails = 0]
    BY <1>6 DEF Router!RouterModel
  <2>2. Router!Command /\ profile' = profile
    BY <1>6 DEF Router!RouterModel
  <2> DEFINE e == llmSlots[s]
             b1 == [e EXCEPT !.service = v]
             b2 == [b1 EXCEPT !.fails = 0]
  <2>3. e \in Backend /\ llmSlots' = [llmSlots EXCEPT ![s] = b2]
    BY <1>0, <2>1 DEF Backends
  <2> HIDE DEF e
  <2>4. b1 \in Backend
    BY <2>3 DEF Backend
  <2> HIDE DEF b1
  <2>5. b2 \in Backend
    BY <2>4 DEF Backend
  <2> HIDE DEF b2
  <2>6. llmSlots' \in Backends
    BY <1>0, <2>3, <2>5 DEF Backends
  <2> QED
    BY <1>0, <1>2, <2>2, <2>6
<1>7. CASE Router!SetProfile
  BY <1>0, <1>2, <1>7 DEF Router!SetProfile
<1>8. ASSUME NEW f \in [LlmSlots -> Backend], llmSlots' = f,
             \A s \in LlmSlots : f[s].service = llmSlots[s].service,
             UNCHANGED <<profile, proxy, idx, body, called, meddled>>, llmPc' \in {llmPc, "idle"}
      PROVE  RouterInv'
  <2>1. idx # 0 => llmSlots'[idx].service = llmSlots[idx].service
    BY <1>0, <1>8
  <2> QED
    BY <1>0, <1>8, <2>1 DEF RouterInv, OnItsWay, Backends
<1>10. CASE Router!Restart
  <2> DEFINE f == [s \in LlmSlots |-> [llmSlots[s] EXCEPT !.fails = 0, !.since = Recovery, !.wait = 0]]
  <2>1. /\ llmSlots' = f /\ UNCHANGED <<profile, proxy, idx, body, called, meddled>> /\ llmPc' = "idle"
    BY <1>10 DEF Router!Restart
  <2>2. ASSUME NEW s \in LlmSlots PROVE f[s] \in Backend /\ f[s].service = llmSlots[s].service
    <3>1. f[s] = Marked(llmSlots[s], 0, Recovery, 0) /\ Recovery \in Nat /\ 0 \in Nat
      BY RouterAssumption DEF Marked
    <3>2. llmSlots[s] \in Backend
      BY <1>0
    <3> HIDE DEF f
    <3> QED
      BY ONLY <3>1, <3>2, MarkedIs
  <2>3. f \in [LlmSlots -> Backend]
    BY <2>2
  <2> HIDE DEF f
  <2> QED
    BY <1>8, <2>1, <2>2, <2>3
<1>11. CASE Router!Tick
  <2> DEFINE f == [s \in LlmSlots |-> [llmSlots[s] EXCEPT !.wait = Router!Shorter(@),
                                                        !.since = Router!Least(@ + 1, Recovery)]]
  <2>1. /\ llmSlots' = f /\ UNCHANGED <<profile, proxy, idx, body, called, meddled, llmPc>>
    BY <1>11 DEF Router!Tick, Router!turn
  <2>2. ASSUME NEW s \in LlmSlots PROVE f[s] \in Backend /\ f[s].service = llmSlots[s].service
    <3> DEFINE e == llmSlots[s]
               w == Router!Shorter(e.wait)
               m == Router!Least(e.since + 1, Recovery)
               b1 == [e EXCEPT !.wait = w]
               b2 == [b1 EXCEPT !.since = m]
    <3>1. e \in Backend /\ f[s] = b2
      BY <1>0
    <3> HIDE DEF e, f
    <3>2. e.wait \in Nat /\ e.since \in Nat
      BY <3>1 DEF Backend
    <3>3. w \in Nat /\ m \in Nat
      BY <3>2, RouterAssumption DEF Router!Shorter, Router!Least
    <3> HIDE DEF w, m
    <3>4. b1 \in Backend /\ b1.service = e.service
      BY <3>1, <3>3 DEF Backend
    <3> HIDE DEF b1
    <3>5. b2 \in Backend /\ b2.service = e.service
      BY <3>3, <3>4 DEF Backend
    <3> HIDE DEF b2
    <3> QED
      BY <3>1, <3>5 DEF e
  <2>3. f \in [LlmSlots -> Backend]
    BY <2>2
  <2> HIDE DEF f
  <2> QED
    BY <1>8, <2>1, <2>2, <2>3
<1>12. CASE UNCHANGED routerVars
  BY <1>12 DEF routerVars, RouterInv, OnItsWay
<1> QED
  BY <1>3, <1>4, <1>5, <1>6, <1>7, <1>10, <1>11, <1>12 DEF Router!Commands

\* What is charged with the outcome of a request is the slot it was sent to.
LEMMA ChargedAreCalled == PartsSpec => [](part = "router" => Router!ChargedIsCalled)
<1>1. PartsInit => RouterInv
  <2> SUFFICES ASSUME Router!Init PROVE RouterInv
    BY DEF PartsInit
  <2>1. Router!Blank \in Backend
    BY RouterAssumption DEF Router!Blank, Backend
  <2> QED
    BY <2>1 DEF Router!Init, RouterInv, Backends, Router!Profiles, Router!Nobody
<1>2. (part = "router" => RouterInv) /\ [PartsNext]_<<part, moving>> => (part = "router" => RouterInv)'
  <2> SUFFICES ASSUME part = "router" => RouterInv, [PartsNext]_<<part, moving>>, part' = "router"
               PROVE  RouterInv'
    OBVIOUS
  <2>1. part = "router"
    BY DEF PartsNext
  <2> QED
    BY <2>1, RouterMoves, AgentStepKeeps, CommandsKeep DEF Router!Next
<1>3. RouterInv => Router!ChargedIsCalled
  BY DEF RouterInv, OnItsWay, Router!ChargedIsCalled, Router!Nobody
<1> QED
  BY <1>1, <1>2, <1>3, PTL DEF PartsSpec
-----------------------------------------------------------------------------
(* The remote tools: McpClient. *)

\* A step of the model is one of the client or none, when the client of tools moves.
LEMMA McpMoves ==
  ASSUME [PartsNext]_<<part, moving>>, part = "mcp"
  PROVE  part' = "mcp" /\ (Mcp!Next \/ UNCHANGED mcpVars)
<1>1. CASE PartsNext
  BY <1>1 DEF PartsNext
<1>2. CASE UNCHANGED <<part, moving>>
  BY <1>2 DEF moving
<1> QED
  BY <1>1, <1>2

Server == [name : McpNames, url : Urls, initialized : BOOLEAN]
Tool == [server : McpNames, name : STRING, url : Urls]
Discovery == [pc : {"idle", "ask", "merge"}, copy : Seq(Server), at : Nat, found : Seq(Tool)]
\* No name twice; each tool belongs to a server of the list S; no tool twice.
Distinct(S) == \A i, j \in DOMAIN S : S[i].name = S[j].name => i = j
Belongs(t, S) == \E j \in DOMAIN S : S[j].name = t.server /\ S[j].url = t.url
Single(T) == \A i, j \in DOMAIN T : T[i].server = T[j].server /\ T[i].name = T[j].name => i = j
\* A discovery has a copy of the servers as they are, and has found tools of those
\* it has asked; S is the table.
Finds(d, S) ==
  /\ Distinct(d.copy) /\ Single(d.found)
  /\ \A i \in DOMAIN d.copy : \E j \in DOMAIN S : S[j].name = d.copy[i].name /\ S[j].url = d.copy[i].url
  /\ \A k \in DOMAIN d.found : \E i \in DOMAIN d.copy : i < d.at /\ d.copy[i].name = d.found[k].server /\ d.copy[i].url = d.found[k].url
  /\ d.pc = "ask" => d.at \in DOMAIN d.copy
McpInv ==
  /\ servers \in Seq(Server) /\ Distinct(servers)
  /\ tools \in Seq(Tool) /\ Single(tools) /\ \A i \in DOMAIN tools : Belongs(tools[i], servers)
  /\ mcpUser \in [{1} -> Discovery]
  /\ mcpUser[1].pc # "idle" => tools = <<>> /\ Finds(mcpUser[1], servers)
  /\ agent.server = agent.listed

\* What does not touch the tables and the discovery.
LEMMA McpRests ==
  ASSUME McpInv, UNCHANGED <<servers, tools, mcpUser>>, agent'.server = agent'.listed
  PROVE  McpInv'
BY DEF McpInv, Finds, Distinct, Single, Belongs

\* A server is added under a name that is new.
LEMMA AddKeeps ==
  ASSUME McpInv, NEW n \in McpNames, NEW url \in Urls, Mcp!AddServer(1, n, url)
  PROVE  McpInv'
<1> DEFINE s == [name |-> n, url |-> url, initialized |-> FALSE]
<1>1. /\ servers' = Append(servers, s) /\ UNCHANGED <<tools, mcpUser, agent>> /\ mcpUser[1].pc = "idle"
      /\ \A i \in DOMAIN servers : servers[i].name # n
  BY DEF Mcp!AddServer, Mcp!Command, Mcp!Named
<1>2. s \in Server /\ s.name = n
  BY DEF Server
<1> HIDE DEF s
<1>3. servers \in Seq(Server)
  BY DEF McpInv
<1>4. /\ servers' \in Seq(Server) /\ DOMAIN servers' = 1..Len(servers) + 1 /\ DOMAIN servers = 1..Len(servers)
      /\ \A i \in DOMAIN servers : servers'[i] = servers[i]
      /\ servers'[Len(servers) + 1] = s /\ Len(servers) \in Nat
  BY <1>1, <1>2, <1>3, AppendProperties
<1>5. Distinct(servers')
  BY <1>1, <1>2, <1>4 DEF McpInv, Distinct
<1>6. ASSUME NEW i \in DOMAIN tools
      PROVE  Belongs(tools[i], servers')
  <2>1. PICK j \in DOMAIN servers : servers[j].name = tools[i].server /\ servers[j].url = tools[i].url
    BY DEF McpInv, Belongs
  <2>2. j \in DOMAIN servers' /\ servers'[j] = servers[j]
    BY <1>4
  <2> QED
    BY <2>1, <2>2 DEF Belongs
<1> QED
  BY <1>1, <1>4, <1>5, <1>6 DEF McpInv

\* A server is removed with all of its tools.
LEMMA RemoveKeeps ==
  ASSUME McpInv, NEW n \in McpNames, Mcp!RemoveServer(1, n)
  PROVE  McpInv'
<1>1. PICK i \in DOMAIN servers : /\ servers[i].name = n
                                  /\ servers' = [j \in 1..Len(servers) - 1 |-> servers[IF j < i THEN j ELSE j + 1]]
  BY DEF Mcp!RemoveServer, Mcp!Named
<1>2. UNCHANGED <<mcpUser, agent>> /\ mcpUser[1].pc = "idle" /\ Mcp!MovesUp(Mcp!Others(n))
  BY DEF Mcp!RemoveServer, Mcp!Command
<1>3. servers \in Seq(Server) /\ tools \in Seq(Tool) /\ Len(servers) \in Nat
      /\ DOMAIN servers = 1..Len(servers) /\ i \in 1..Len(servers)
  BY DEF McpInv
<1> DEFINE old(j) == IF j < i THEN j ELSE j + 1
<1>4. \A j \in 1..Len(servers) - 1 : old(j) \in DOMAIN servers /\ servers'[j] = servers[old(j)] /\ old(j) # i
  BY <1>1, <1>3
<1>5. \A k \in DOMAIN servers : k # i => \E j \in 1..Len(servers) - 1 : old(j) = k
  <2> TAKE k \in DOMAIN servers
  <2>1. CASE k < i
    BY <1>3, <2>1
  <2>2. CASE k > i
    <3>1. k - 1 \in 1..Len(servers) - 1 /\ old(k - 1) = k
      BY <1>3, <2>2
    <3> QED
      BY <3>1
  <2> QED
    BY <1>3, <2>1, <2>2
<1>6. servers' \in Seq(Server) /\ DOMAIN servers' = 1..Len(servers) - 1
  <2>1. \A j \in 1..Len(servers) - 1 : servers[old(j)] \in Server
    BY <1>3, <1>4
  <2>2. Len(servers) - 1 \in Nat
    BY <1>3
  <2> QED
    BY <1>1, <2>1, <2>2
<1>7. Distinct(servers')
  <2> SUFFICES ASSUME NEW j \in 1..Len(servers) - 1, NEW k \in 1..Len(servers) - 1, servers'[j].name = servers'[k].name
               PROVE  j = k
    BY <1>6 DEF Distinct
  <2>1. old(j) = old(k)
    BY <1>4 DEF McpInv, Distinct
  <2> QED
    BY <1>3, <2>1
<1>8. PICK c \in 0..Len(tools) : \E f \in [1..c -> Mcp!Others(n)] :
        /\ \A k, j \in 1..c : k < j => f[k] < f[j]
        /\ tools' = [k \in 1..c |-> tools[f[k]]]
  BY <1>2 DEF Mcp!MovesUp
<1>9. PICK f \in [1..c -> Mcp!Others(n)] : /\ \A k, j \in 1..c : k < j => f[k] < f[j]
                                          /\ tools' = [k \in 1..c |-> tools[f[k]]]
  BY <1>8
<1>10. \A k \in 1..c : f[k] \in DOMAIN tools /\ tools[f[k]].server # n /\ tools'[k] = tools[f[k]]
  BY <1>9 DEF Mcp!Others
<1>11. tools' \in Seq(Tool) /\ DOMAIN tools' = 1..c
  <2>1. \A k \in 1..c : tools[f[k]] \in Tool
    BY <1>3, <1>10
  <2>2. c \in Nat
    BY <1>3
  <2> QED
    BY <1>9, <2>1, <2>2
<1>12. Single(tools')
  <2> SUFFICES ASSUME NEW k \in 1..c, NEW j \in 1..c, tools'[k].server = tools'[j].server, tools'[k].name = tools'[j].name
               PROVE  k = j
    BY <1>11 DEF Single
  <2>1. f[k] = f[j] /\ f[k] \in Nat
    <3>1. f[k] \in DOMAIN tools /\ f[j] \in DOMAIN tools /\ tools'[k] = tools[f[k]] /\ tools'[j] = tools[f[j]]
      BY <1>10
    <3>2. tools[f[k]].server = tools[f[j]].server /\ tools[f[k]].name = tools[f[j]].name /\ Single(tools)
      BY <3>1 DEF McpInv
    <3> QED
      BY <1>3, <3>1, <3>2 DEF Single
  <2>2. ~(k < j) /\ ~(j < k)
    BY <1>9, <2>1
  <2> QED
    BY <1>3, <2>2
<1>13. ASSUME NEW k \in DOMAIN tools' PROVE Belongs(tools'[k], servers')
  <2>1. k \in 1..c
    BY <1>11
  <2>2. PICK j \in DOMAIN servers : servers[j].name = tools[f[k]].server /\ servers[j].url = tools[f[k]].url
    BY <1>10, <2>1 DEF McpInv, Belongs
  <2>3. j # i
    BY <1>1, <1>10, <2>1, <2>2
  <2>4. PICK m \in 1..Len(servers) - 1 : old(m) = j
    BY <1>5, <2>3
  <2> QED
    BY <1>4, <1>6, <1>10, <2>1, <2>2, <2>4 DEF Belongs
<1> QED
  BY <1>2, <1>6, <1>7, <1>11, <1>12, <1>13 DEF McpInv

\* A discovery begins with the servers as they are, and without tools.
LEMMA DiscoverKeeps ==
  ASSUME McpInv, Mcp!Discover(1)
  PROVE  McpInv'
<1> DEFINE d == [pc |-> "ask", copy |-> servers, at |-> 1, found |-> <<>>]
<1>1. servers # <<>> /\ mcpUser' = [mcpUser EXCEPT ![1] = d] /\ tools' = <<>> /\ UNCHANGED <<servers, agent>>
  BY DEF Mcp!Discover
<1>2. d \in Discovery /\ d.copy = servers /\ d.at = 1 /\ d.found = <<>>
  BY DEF McpInv, Discovery
<1> HIDE DEF d
<1>3. 1 \in DOMAIN servers
  BY <1>1 DEF McpInv
<1>4. Finds(d, servers')
  BY <1>1, <1>2, <1>3 DEF McpInv, Finds, Single, Distinct
<1>5. mcpUser' \in [{1} -> Discovery] /\ mcpUser'[1] = d
  BY <1>1, <1>2 DEF McpInv
<1>6. tools' \in Seq(Tool) /\ Single(tools') /\ \A i \in DOMAIN tools' : Belongs(tools'[i], servers')
  BY <1>1 DEF Single
<1>7. mcpUser'[1].pc # "idle" => tools' = <<>> /\ Finds(mcpUser'[1], servers')
  BY <1>1, <1>4, <1>5
<1> QED
  BY <1>1, <1>5, <1>6, <1>7 DEF McpInv

\* The next server was asked, and what it lists are tools of its own, each once.
LEMMA OnKeeps ==
  ASSUME McpInv, NEW i \in BOOLEAN, NEW f \in Seq(Tool), mcpUser[1].pc = "ask", Mcp!On(1, i, f),
         \A k \in DOMAIN f : f[k].server = Mcp!Asked(1).name /\ f[k].url = Mcp!Asked(1).url,
         Single(f)
  PROVE  McpInv'
<1> DEFINE d == mcpUser[1]
           a == Mcp!Asked(1)
           e == mcpUser'[1]
<1>1. d \in Discovery /\ Finds(d, servers) /\ tools = <<>> /\ d.pc = "ask" /\ a = d.copy[d.at]
  BY DEF McpInv, Mcp!Asked
<1>2. /\ tools' = tools /\ agent' = agent
      /\ servers' = [j \in DOMAIN servers |->
           IF servers[j].name = a.name THEN [servers[j] EXCEPT !.initialized = i] ELSE servers[j]]
  BY DEF Mcp!On
<1>3. /\ mcpUser' \in [{1} -> Discovery] /\ e.copy = d.copy /\ e.at = d.at + 1 /\ e.found = d.found \o f
      /\ e.pc = "ask" => d.at # Len(d.copy)
  <2> DEFINE p == IF d.at = Len(d.copy) \/ Mcp!Room(1) = Len(f) THEN "merge" ELSE "ask"
             n == d.at + 1
             g == d.found \o f
             d1 == [d EXCEPT !.at = n]
             d2 == [d1 EXCEPT !.found = g]
             d3 == [d2 EXCEPT !.pc = p]
  <2>1. mcpUser' = [mcpUser EXCEPT ![1] = d3]
    BY DEF Mcp!On, McpInv
  <2>2. n \in Nat /\ g \in Seq(Tool) /\ p \in {"ask", "merge"} /\ (p = "ask" => d.at # Len(d.copy))
    <3>1. d.at \in Nat /\ d.found \in Seq(Tool)
      BY <1>1 DEF Discovery
    <3>2. g \in Seq(Tool)
      BY <3>1, ConcatProperties
    <3> QED
      BY <3>1, <3>2
  <2>9. n = d.at + 1 /\ g = d.found \o f
    OBVIOUS
  <2> HIDE DEF d, n, g, p
  <2>3. d1 \in Discovery /\ d1.copy = d.copy /\ d1.at = n
    BY <1>1, <2>2 DEF Discovery
  <2> HIDE DEF d1
  <2>4. d2 \in Discovery /\ d2.copy = d.copy /\ d2.at = n /\ d2.found = g
    BY <2>2, <2>3 DEF Discovery
  <2> HIDE DEF d2
  <2>5. d3 \in Discovery /\ d3.copy = d.copy /\ d3.at = n /\ d3.found = g /\ d3.pc = p
    BY <2>2, <2>4 DEF Discovery
  <2> HIDE DEF d3
  <2>6. mcpUser' \in [{1} -> Discovery] /\ e = d3
    BY <2>1, <2>5 DEF McpInv
  <2> QED
    BY <2>2, <2>5, <2>6, <2>9
<1> HIDE DEF a, d, e
<1>4. /\ d.copy \in Seq(Server) /\ d.found \in Seq(Tool) /\ d.at \in DOMAIN d.copy /\ d.at \in Nat
      /\ servers \in Seq(Server) /\ DOMAIN d.copy = 1..Len(d.copy) /\ Len(d.copy) \in Nat
  BY <1>1 DEF Discovery, Finds, McpInv
<1>5. /\ DOMAIN servers' = DOMAIN servers /\ servers' \in Seq(Server)
      /\ \A j \in DOMAIN servers : servers'[j].name = servers[j].name /\ servers'[j].url = servers[j].url
  <2>1. ASSUME NEW j \in DOMAIN servers
        PROVE  servers'[j] \in Server /\ servers'[j].name = servers[j].name /\ servers'[j].url = servers[j].url
    <3>1. servers[j] \in Server
      BY <1>4
    <3>2. /\ [servers[j] EXCEPT !.initialized = i] \in Server
          /\ [servers[j] EXCEPT !.initialized = i].name = servers[j].name
          /\ [servers[j] EXCEPT !.initialized = i].url = servers[j].url
      BY <3>1 DEF Server
    <3> QED
      BY <1>2, <3>1, <3>2
  <2>2. DOMAIN servers' = DOMAIN servers /\ DOMAIN servers = 1..Len(servers) /\ Len(servers) \in Nat
    BY <1>2, <1>4
  <2> QED
    BY <1>2, <2>1, <2>2
<1>6. /\ Len(d.found) \in Nat /\ Len(f) \in Nat /\ e.found \in Seq(Tool)
      /\ DOMAIN e.found = 1..Len(d.found) + Len(f)
      /\ DOMAIN d.found = 1..Len(d.found) /\ DOMAIN f = 1..Len(f)
      /\ \A k \in DOMAIN e.found : e.found[k] = IF k <= Len(d.found) THEN d.found[k] ELSE f[k - Len(d.found)]
  <2>1. d.found \in Seq(Tool) /\ f \in Seq(Tool) /\ e.found = d.found \o f
    BY <1>3, <1>4
  <2>2. /\ d.found \o f \in Seq(Tool) /\ Len(d.found \o f) = Len(d.found) + Len(f)
        /\ \A k \in 1..Len(d.found) + Len(f) :
             (d.found \o f)[k] = IF k <= Len(d.found) THEN d.found[k] ELSE f[k - Len(d.found)]
    BY <2>1, ConcatProperties
  <2>3. DOMAIN e.found = 1..Len(d.found) + Len(f)
    BY <2>1, <2>2
  <2> QED
    BY <2>1, <2>2, <2>3
<1> DEFINE m == Len(d.found)
<1>7. ASSUME NEW k \in DOMAIN e.found, k <= m
      PROVE  k \in DOMAIN d.found /\ \E j \in DOMAIN d.copy : j < d.at /\ d.copy[j].name = e.found[k].server
                                                             /\ d.copy[j].url = e.found[k].url
  BY <1>1, <1>6, <1>7 DEF Finds
<1>8. ASSUME NEW k \in DOMAIN e.found, ~(k <= m)
      PROVE  k - m \in DOMAIN f /\ e.found[k].server = a.name /\ e.found[k].url = a.url
  <2>1. k - m \in DOMAIN f /\ e.found[k] = f[k - m]
    BY <1>6, <1>8
  <2> QED
    BY <2>1 DEF a
<1>9. Single(e.found)
  <2> SUFFICES ASSUME NEW k \in DOMAIN e.found, NEW j \in DOMAIN e.found,
                      e.found[k].server = e.found[j].server, e.found[k].name = e.found[j].name
               PROVE  k = j
    BY DEF Single
  <2>1. ASSUME NEW x \in DOMAIN e.found, NEW y \in DOMAIN e.found, x <= m, ~(y <= m)
        PROVE  e.found[x].server # e.found[y].server
    <3>1. PICK j1 \in DOMAIN d.copy : j1 < d.at /\ d.copy[j1].name = e.found[x].server
      BY <1>7, <2>1
    <3>2. e.found[y].server = d.copy[d.at].name
      BY <1>1, <1>8, <2>1
    <3>3. j1 # d.at /\ Distinct(d.copy)
      BY <1>1, <1>4, <3>1 DEF Finds
    <3> QED
      BY <1>4, <3>1, <3>2, <3>3 DEF Distinct
  <2>2. CASE k <= m /\ j <= m
    BY <1>1, <1>6, <1>7, <2>2 DEF Finds, Single
  <2>3. CASE ~(k <= m) /\ ~(j <= m)
    <3>1. e.found[k] = f[k - m] /\ e.found[j] = f[j - m]
      BY <1>6, <2>3
    <3>2. k - m \in DOMAIN f /\ j - m \in DOMAIN f
      BY <1>8, <2>3
    <3>3. f[k - m].server = f[j - m].server /\ f[k - m].name = f[j - m].name
      BY <3>1
    <3>4. k - m = j - m
      BY <3>2, <3>3 DEF Single
    <3> QED
      BY <1>6, <3>4
  <2> QED
    BY <2>1, <2>2, <2>3
<1>10. Finds(e, servers')
  <2>1. \A j \in DOMAIN e.copy : \E h \in DOMAIN servers' : servers'[h].name = e.copy[j].name /\ servers'[h].url = e.copy[j].url
    BY <1>1, <1>3, <1>5 DEF Finds
  <2>2. ASSUME NEW k \in DOMAIN e.found
        PROVE  \E j \in DOMAIN e.copy : j < e.at /\ e.copy[j].name = e.found[k].server /\ e.copy[j].url = e.found[k].url
    <3>1. CASE k <= m
      <4>1. PICK j \in DOMAIN d.copy : j < d.at /\ d.copy[j].name = e.found[k].server /\ d.copy[j].url = e.found[k].url
        BY <1>7, <3>1
      <4> QED
        BY <1>3, <1>4, <4>1
    <3>2. CASE ~(k <= m)
      <4>1. d.at \in DOMAIN e.copy /\ d.at < e.at
        BY <1>3, <1>4
      <4>2. e.copy[d.at].name = e.found[k].server /\ e.copy[d.at].url = e.found[k].url
        BY <1>1, <1>3, <1>8, <3>2
      <4> QED
        BY <4>1, <4>2
    <3> QED
      BY <3>1, <3>2
  <2>3. e.pc = "ask" => e.at \in DOMAIN e.copy
    BY <1>3, <1>4
  <2> QED
    BY <1>1, <1>3, <1>9, <2>1, <2>2, <2>3 DEF Finds
<1>11. Distinct(servers')
  BY <1>5 DEF Distinct, McpInv
<1> QED
  BY <1>1, <1>2, <1>3, <1>5, <1>10, <1>11 DEF McpInv, e, Single

\* A server that does not answer lists nothing, one that does lists what fits.
LEMMA AsksKeep ==
  ASSUME McpInv, Mcp!Refuses(1) \/ Mcp!ListFails(1) \/ Mcp!Answers(1)
  PROVE  McpInv'
<1> DEFINE a == Mcp!Asked(1)
<1>1. mcpUser[1].pc = "ask" /\ a \in Server
  <2>1. mcpUser[1].pc = "ask"
    BY DEF Mcp!Refuses, Mcp!ListFails, Mcp!Answers
  <2> QED
    BY <2>1 DEF McpInv, Finds, Discovery, Mcp!Asked
<1>2. a.initialized \in BOOLEAN /\ a.name \in McpNames /\ a.url \in Urls
  BY <1>1 DEF Server
<1>3. <<>> \in Seq(Tool) /\ Single(<<>>) /\ DOMAIN <<>> = {}
  BY DEF Single
<1>4. CASE Mcp!Refuses(1) \/ Mcp!ListFails(1)
  <2>1. PICK i \in BOOLEAN : Mcp!On(1, i, <<>>)
    BY <1>2, <1>4 DEF Mcp!Refuses, Mcp!ListFails
  <2> QED
    BY <1>1, <1>3, <2>1, OnKeeps
<1>5. CASE Mcp!Answers(1)
  <2> DEFINE f == Mcp!Listed(1)
             all == Offers[a.url]
             n == IF Len(all) < Mcp!Room(1) THEN Len(all) ELSE Mcp!Room(1)
             fit == SubSeq(all, 1, n)
  <2>1. all \in Seq(STRING) /\ \A i, j \in DOMAIN all : all[i] = all[j] => i = j
    BY <1>2, McpAssumption
  <2>2. n \in Int /\ n <= Len(all) /\ Len(all) \in Nat
    <3>1. Mcp!Room(1) \in Int
      <4>1. Len(mcpUser[1].found) \in Nat
        BY DEF McpInv, Discovery
      <4> QED
        BY <4>1, McpAssumption DEF Mcp!Room
    <3> QED
      BY <2>1, <3>1
  <2> HIDE DEF n, all
  <2>3. \A i \in 1..n : all[i] \in STRING /\ i \in DOMAIN all
    BY <2>1, <2>2
  <2>4. /\ fit \in Seq(STRING) /\ Len(fit) = (IF 1 <= n THEN n - 1 + 1 ELSE 0)
        /\ \A i \in 1..n - 1 + 1 : fit[i] = all[1 + i - 1]
    BY <2>2, <2>3, SubSeqProperties
  <2>5. DOMAIN fit = 1..n /\ \A i \in 1..n : fit[i] = all[i] /\ i \in DOMAIN all
    BY <2>2, <2>3, <2>4
  <2>6. f = [i \in DOMAIN fit |-> [server |-> a.name, name |-> fit[i], url |-> a.url]]
    BY DEF Mcp!Listed, n, all
  <2> HIDE DEF fit, f, a
  <2>7. \A i \in 1..n : [server |-> a.name, name |-> fit[i], url |-> a.url] \in Tool
    BY <1>2, <2>3, <2>5 DEF Tool
  <2>8. f \in Seq(Tool) /\ DOMAIN f = 1..n
    <3>1. DOMAIN fit = 1..Len(fit) /\ Len(fit) \in Nat
      BY <2>4
    <3>2. f = [i \in 1..Len(fit) |-> [server |-> a.name, name |-> fit[i], url |-> a.url]]
      BY <2>6, <3>1
    <3>3. \A i \in 1..Len(fit) : [server |-> a.name, name |-> fit[i], url |-> a.url] \in Tool
      BY <2>5, <2>7, <3>1
    <3> QED
      BY <2>5, <3>1, <3>2, <3>3
  <2>9. \A i \in DOMAIN f : f[i].server = a.name /\ f[i].url = a.url /\ f[i].name = all[i]
    BY <2>5, <2>6, <2>8
  <2>10. Single(f)
    BY <2>1, <2>3, <2>8, <2>9 DEF Single
  <2>11. Mcp!On(1, TRUE, f) /\ TRUE \in BOOLEAN
    BY <1>5 DEF Mcp!Answers, f
  <2> QED
    BY <1>1, <2>8, <2>9, <2>10, <2>11, OnKeeps DEF a
<1> QED
  BY <1>4, <1>5

\* What was found becomes the table, as far as there is room.
LEMMA MergeKeeps ==
  ASSUME McpInv, Mcp!Merge(1)
  PROVE  McpInv'
<1> DEFINE d == mcpUser[1]
           all == tools \o d.found
           n == IF Len(all) < MaxTools THEN Len(all) ELSE MaxTools
<1>1. /\ d.pc = "merge" /\ tools' = SubSeq(all, 1, n) /\ mcpUser' = [mcpUser EXCEPT ![1] = Mcp!Nothing]
      /\ UNCHANGED <<servers, agent>>
  BY DEF Mcp!Merge
<1>2. d \in Discovery /\ tools = <<>> /\ Finds(d, servers) /\ servers \in Seq(Server)
  BY <1>1 DEF McpInv
<1>3. all = d.found /\ d.found \in Seq(Tool)
  <2>1. d.found \in Seq(Tool)
    BY <1>2 DEF Discovery
  <2> QED
    BY <1>2, <2>1, ConcatEmptySeq
<1>4. n \in Int /\ n <= Len(all) /\ Len(all) \in Nat
  BY <1>3, McpAssumption
<1> HIDE DEF d, all, n
<1>5. \A i \in 1..n : all[i] \in Tool /\ i \in DOMAIN all
  BY <1>3, <1>4
<1>6. /\ SubSeq(all, 1, n) \in Seq(Tool) /\ Len(SubSeq(all, 1, n)) = (IF 1 <= n THEN n - 1 + 1 ELSE 0)
      /\ \A i \in 1..n - 1 + 1 : SubSeq(all, 1, n)[i] = all[1 + i - 1]
  BY <1>4, <1>5, SubSeqProperties
<1>7. tools' \in Seq(Tool) /\ DOMAIN tools' = 1..n /\ \A i \in 1..n : tools'[i] = all[i] /\ i \in DOMAIN all
  BY <1>1, <1>4, <1>5, <1>6
<1>8. Single(tools')
  BY <1>2, <1>3, <1>7 DEF Finds, Single
<1>9. ASSUME NEW i \in DOMAIN tools' PROVE Belongs(tools'[i], servers')
  <2>1. PICK j \in DOMAIN d.copy : d.copy[j].name = tools'[i].server /\ d.copy[j].url = tools'[i].url
    BY <1>2, <1>3, <1>7 DEF Finds
  <2> QED
    BY <1>1, <1>2, <2>1 DEF Finds, Belongs
<1>10. mcpUser' \in [{1} -> Discovery] /\ mcpUser'[1].pc = "idle"
  <2>1. Mcp!Nothing \in Discovery /\ Mcp!Nothing.pc = "idle"
    BY DEF Mcp!Nothing, Discovery
  <2> QED
    BY <1>1, <2>1 DEF McpInv
<1> QED
  BY <1>1, <1>7, <1>8, <1>9, <1>10 DEF McpInv

\* A call goes to the server of the tool that was found, which is the one that
\* listed it.
LEMMA ExecuteKeeps ==
  ASSUME McpInv, NEW n, NEW name, Mcp!Execute(n, name)
  PROVE  McpInv'
<1> DEFINE t == Mcp!First({i \in DOMAIN tools : Mcp!Full(tools[i]) = <<n, name>>})
           N == Mcp!Named(servers, tools[t].server)
           s == IF t = 0 THEN 0 ELSE Mcp!First(N)
<1>1. /\ UNCHANGED <<servers, tools, mcpUser>>
      /\ IF s = 0 THEN UNCHANGED agent
         ELSE agent' = [pc |-> "post", tool |-> name, listed |-> tools[t].url, server |-> servers[s].url]
  BY DEF Mcp!Execute
<1>2. ASSUME NEW I, I \subseteq Nat PROVE Mcp!First(I) # 0 => Mcp!First(I) \in I
  BY <1>2, LeastNumber DEF Mcp!First
<1>3. DOMAIN tools \subseteq Nat /\ DOMAIN servers \subseteq Nat
  BY DEF McpInv
<1>4. ASSUME s # 0
      PROVE  servers[s].url = tools[t].url
  <2>1. t \in DOMAIN tools
    BY <1>2, <1>3, <1>4
  <2>2. s \in DOMAIN servers /\ servers[s].name = tools[t].server
    <3>1. N \subseteq DOMAIN servers /\ \A i \in N : servers[i].name = tools[t].server
      BY DEF Mcp!Named
    <3>2. s = Mcp!First(N)
      BY <1>4
    <3> HIDE DEF s, N
    <3> QED
      BY <1>2, <1>3, <1>4, <3>1, <3>2
  <2>3. PICK j \in DOMAIN servers : servers[j].name = tools[t].server /\ servers[j].url = tools[t].url
    BY <2>1 DEF McpInv, Belongs
  <2> QED
    BY <2>2, <2>3 DEF McpInv, Distinct
<1> HIDE DEF s, t
<1>5. agent'.server = agent'.listed
  <2>1. CASE s = 0
    BY <1>1, <2>1 DEF McpInv
  <2>2. CASE s # 0
    BY <1>1, <1>4, <2>2
  <2> QED
    BY <2>1, <2>2
<1> QED
  BY <1>1, <1>5, McpRests

\* A call goes to where its tool was listed, and no tool is listed twice.
LEMMA CallsGoWhereListed == PartsSpec => [](part = "mcp" => Mcp!CalledWhereListed)
<1>1. PartsInit => McpInv
  BY DEF PartsInit, Mcp!Init, McpInv, Mcp!Nothing, Mcp!NoCall, Discovery, Distinct, Single
<1>2. McpInv /\ (Mcp!Next \/ UNCHANGED mcpVars) => McpInv'
  <2> SUFFICES ASSUME McpInv, Mcp!Next \/ UNCHANGED mcpVars PROVE McpInv'
    OBVIOUS
  <2>1. CASE Mcp!Executed
    BY <2>1, McpRests DEF Mcp!Executed, Mcp!NoCall
  <2>2. CASE UNCHANGED mcpVars
    BY <2>2, McpRests DEF mcpVars, McpInv
  <2>3. CASE Mcp!Next /\ ~Mcp!Executed
    <3>1. \/ \E n \in McpNames : Mcp!RemoveServer(1, n) \/ \E url \in Urls : Mcp!AddServer(1, n, url)
          \/ Mcp!Discover(1) \/ Mcp!Refuses(1) \/ Mcp!ListFails(1) \/ Mcp!Answers(1) \/ Mcp!Merge(1)
          \/ \E n, name : Mcp!Execute(n, name)
      BY <2>3 DEF Mcp!Next
    <3> QED
      BY <3>1, RemoveKeeps, AddKeeps, DiscoverKeeps, AsksKeep, MergeKeeps, ExecuteKeeps
  <2> QED
    BY <2>1, <2>2, <2>3
<1>3. (part = "mcp" => McpInv) /\ [PartsNext]_<<part, moving>> => (part = "mcp" => McpInv)'
  <2> SUFFICES ASSUME part = "mcp" => McpInv, [PartsNext]_<<part, moving>>, part' = "mcp"
               PROVE  McpInv'
    OBVIOUS
  <2>1. part = "mcp"
    BY DEF PartsNext
  <2> QED
    BY <1>2, <2>1, McpMoves
<1>4. McpInv => Mcp!CalledWhereListed
  BY DEF McpInv, Mcp!CalledWhereListed, Single, Mcp!Full
<1> QED
  BY <1>1, <1>3, <1>4, PTL DEF PartsSpec

\* What the network and the tools answer is of what was asked (TlsPool, NodeLink,
\* LlmRouter, McpClient): a response comes over a connection to the host of the
\* request, a node that has come back is found, the model charged is the one that
\* was called, and a tool is called at the server that listed it.
THEOREM AskedIsMeant == PartsSpec => []OwnAddressee
<1>1. (part = "tls" => Tls!OwnConnection) /\ (part = "nodes" => Gateway!ReconnectedIsFound)
         /\ (part = "router" => Router!ChargedIsCalled) /\ (part = "mcp" => Mcp!CalledWhereListed)
      => OwnAddressee
  BY DEF OwnAddressee
<1> QED
  BY <1>1, ConnectionsAreOwn, ReconnectedAreFound, ChargedAreCalled, CallsGoWhereListed, PTL

-----------------------------------------------------------------------------
(* The waits of the Wi-Fi manager: WifiManager. *)

\* A step of the model is one of the Wi-Fi manager and what is around it, or
\* leaves them alone.
LEMMA WifiMoves ==
  ASSUME [PartsNext]_<<part, moving>>
  PROVE  [Wifi!Next]_(Wifi!vars)
<1>1. UNCHANGED wifiVars => UNCHANGED Wifi!vars
  BY DEF wifiVars, Wifi!vars, Wifi!manager, Wifi!radio, Wifi!screen
<1>2. CASE PartsNext
  <2>1. part # "wifi" => UNCHANGED wifiVars
    BY <1>2 DEF PartsNext, OthersStay
  <2>2. part = "wifi" => Wifi!Next
    BY <1>2 DEF PartsNext
  <2> QED
    BY <1>1, <2>1, <2>2
<1>3. CASE UNCHANGED <<part, moving>>
  BY <1>1, <1>3 DEF moving
<1> QED
  BY <1>2, <1>3

\* What has been waited and what is left to wait are at least what was published.
WaitInv ==
  /\ wifiFile # "none"
  /\ backoff \in 1..BackoffMax
  /\ {retry, idle, wifiStatus.retry} \subseteq 0..BackoffMax
  /\ wifiPc = "read" => idle + retry >= wifiStatus.retry

\* No step of the manager, of a write to its file or of the radio breaks the bookkeeping
\* of the waits, and an attempt comes when the wait it was given is over.
LEMMA WaitKept ==
  ASSUME WaitInv, [Wifi!Next]_(Wifi!vars)
  PROVE  /\ WaitInv'
         /\ wifiPc = "read" /\ wifiPc' = "look" /\ active' = active =>
              idle >= wifiStatus.retry /\ wifiStatus.retry <= BackoffMax
<1> DEFINE Goal == /\ WaitInv'
                   /\ wifiPc = "read" /\ wifiPc' = "look" /\ active' = active =>
                        idle >= wifiStatus.retry /\ wifiStatus.retry <= BackoffMax
<1>a. BackoffMax \in Nat \ {0} /\ "none" \notin Configs
  BY WifiAssumption
<1>1. CASE UNCHANGED Wifi!manager /\ wifiFile' # "none"
  BY <1>1 DEF WaitInv, Wifi!manager
<1>2. CASE Wifi!PanelSaves \/ Wifi!ScreenSaves \/ Wifi!ScreenSaved
  <2>1. UNCHANGED Wifi!manager
    BY <1>2 DEF Wifi!PanelSaves, Wifi!ScreenSaves, Wifi!ScreenSaved
  <2>2. wifiFile' # "none"
    BY <1>2, <1>a DEF Wifi!PanelSaves, Wifi!ScreenSaves, Wifi!ScreenSaved, Wifi!Bad, Wifi!None
  <2> QED
    BY <1>1, <2>1, <2>2
<1>3. CASE Wifi!Drop \/ Wifi!TokenAppears \/ Wifi!Timer \/ Wifi!Visit
  <2>1. UNCHANGED Wifi!manager /\ UNCHANGED wifiFile
    BY <1>3 DEF Wifi!Drop, Wifi!TokenAppears, Wifi!Timer, Wifi!Visit
  <2> QED
    BY <1>1, <2>1 DEF WaitInv
<1>4. CASE UNCHANGED Wifi!vars
  BY <1>4, <1>1 DEF Wifi!vars, WaitInv
<1>5. CASE Wifi!Idle
  BY <1>5, <1>a DEF WaitInv, Wifi!Idle, Wifi!Quiet
<1>6. CASE Wifi!ReadConfig
  <2> DEFINE new == Wifi!Changed(wifiFile)
             wait == IF new THEN 0 ELSE retry
  <2>1. /\ wifiPc = "read" /\ wifiFile' = wifiFile /\ wifiStatus' = wifiStatus
        /\ backoff' = IF new THEN 1 ELSE backoff
        /\ active' = IF new THEN wifiFile ELSE active
    BY <1>6 DEF Wifi!ReadConfig
  <2>2. CASE wait > 0
    <3>1. retry' = retry - 1 /\ idle' = Wifi!Least(idle + 1, BackoffMax) /\ wifiPc' = "read" /\ ~new
      BY <1>6, <2>2, <2>1 DEF Wifi!ReadConfig, Wifi!Waited
    <3> QED
      BY <2>1, <2>2, <3>1, <1>a DEF WaitInv, Wifi!Least
  <2>3. CASE ~(wait > 0)
    <3>1. retry' = 0 /\ idle' = idle /\ wifiPc' = "look"
      BY <1>6, <2>3 DEF Wifi!ReadConfig
    <3>2. active' = active => ~new
      BY <2>1 DEF Wifi!Changed, Wifi!None, WaitInv
    <3> QED
      BY <2>1, <2>3, <3>1, <3>2, <1>a DEF WaitInv
  <2> QED
    BY <2>2, <2>3
<1>7. ASSUME wifiPc # "read", wifiFile' = wifiFile, idle' = idle, retry' = retry, NEW joins, Wifi!Success(joins)
      PROVE  Goal
  BY <1>7, <1>a DEF WaitInv, Wifi!Success, Wifi!Status
<1>8. ASSUME wifiPc # "read", wifiFile' = wifiFile, Wifi!Failure
      PROVE  Goal
  BY <1>8, <1>a DEF WaitInv, Wifi!Failure, Wifi!Status, Wifi!Grown, Wifi!Least
<1>9. ASSUME wifiPc # "read", wifiPc' # "read", UNCHANGED <<wifiFile, idle, retry, backoff, wifiStatus>>
      PROVE  Goal
  BY <1>9 DEF WaitInv
<1>10. CASE Wifi!Look
  BY <1>10, <1>7, <1>9 DEF Wifi!Look
<1>11. CASE Wifi!Join
  BY <1>11, <1>8, <1>9 DEF Wifi!Join
<1>12. CASE Wifi!Dhcp
  BY <1>12, <1>7, <1>8 DEF Wifi!Dhcp
<1> QED
  BY <1>2, <1>3, <1>4, <1>5, <1>6, <1>10, <1>11, <1>12 DEF Wifi!Next, Wifi!Manage

\* No attempt with the same configuration comes before the published wait is over,
\* and no wait is longer than BackoffMax, whatever is saved or dropped meanwhile.
THEOREM WaitsAreKept == PartsSpec => WaitsAsPublished
<1>1. PartsInit => WaitInv
  BY WifiAssumption DEF PartsInit, Wifi!Init, WaitInv, Wifi!Quiet, Wifi!NotValid, Wifi!Missing, Wifi!Bad
<1> DEFINE Kept == wifiPc = "read" /\ wifiPc' = "look" /\ active' = active =>
                     idle >= wifiStatus.retry /\ wifiStatus.retry <= BackoffMax
<1>2. WaitInv /\ [PartsNext]_<<part, moving>> => WaitInv' /\ [Kept]_(Wifi!vars)
  BY WifiMoves, WaitKept
<1>3. WaitsAsPublished <=> [][Kept]_(Wifi!vars)
  BY DEF WaitsAsPublished, Wifi!WaitsAsPublished
<1> QED
  BY <1>1, <1>2, <1>3, PTL DEF PartsSpec

-----------------------------------------------------------------------------
(* The settings of the assistant: AgentFiles. *)

\* A step of the model is one of the settings or none, when the settings move.
LEMMA SettingsMove ==
  ASSUME [PartsNext]_<<part, moving>>, part = "settings"
  PROVE  part' = "settings" /\ (Settings!Next \/ UNCHANGED settingsVars)
<1>1. CASE PartsNext
  BY <1>1 DEF PartsNext
<1>2. CASE UNCHANGED <<part, moving>>
  BY <1>2 DEF moving
<1> QED
  BY <1>1, <1>2

\* A setting on disk is the one last given or none.  Who changes the settings owns
\* the lock and has read them so; while the file is being written it holds nothing,
\* and without failures the settings are those that were given otherwise.
OrNone(s, w) == \A k \in SetKeys : s[k] \in {w[k], Settings!Unset}
SettingsInv ==
  /\ {setCrashes, setFaults} \subseteq Nat
  /\ setAt \in [Settings!Threads -> {"out", "read", "cut"}]
  /\ DOMAIN setCopy = Settings!Threads /\ DOMAIN setAsked = Settings!Threads
  /\ OrNone(setConfig, setWanted)
  /\ \A t \in Settings!Threads : setAt[t] # "out" =>
       setLock = t /\ OrNone(setCopy[t], Settings!Given(setAsked[t], setWanted))
  /\ \A t \in Settings!Threads : setAt[t] = "cut" => setConfig = Settings!Blank
  /\ setCrashes = 0 /\ setFaults = 0 =>
       /\ \A t \in Settings!Threads : setAt[t] # "out" => setCopy[t] = Settings!Given(setAsked[t], setWanted)
       /\ (\A t \in Settings!Threads : setAt[t] # "cut") => setConfig = setWanted

\* Settings that are those wanted or none stay so when the same values are given.
LEMMA GivenKept ==
  ASSUME NEW s, NEW w, NEW new, OrNone(s, w)
  PROVE  OrNone(Settings!Given(new, s), Settings!Given(new, w))
  BY DEF OrNone, Settings!Given

\* None is what nobody wanted.
LEMMA NothingKept == ASSUME NEW w PROVE OrNone(Settings!Blank, w)
  BY DEF OrNone, Settings!Blank

\* Reading, changing and writing under the lock keeps what was said to be set.
LEMMA SettingsKept ==
  ASSUME SettingsInv, Settings!Next \/ UNCHANGED settingsVars
  PROVE  SettingsInv'
<1> DEFINE T == Settings!Threads
<1>t. Settings!Nobody \notin T
  BY DEF Settings!Threads, Settings!Nobody
<1>f. ASSUME Settings!Fault
      PROVE  setFaults' \in Nat /\ setFaults' # 0
  BY <1>f DEF Settings!Fault, SettingsInv
<1>1. ASSUME NEW t \in T, Settings!Load(t)
      PROVE  SettingsInv'
  <2>1. /\ setAt[t] = "out" /\ setLock = Settings!Nobody /\ setLock' = t
        /\ setAt' = [setAt EXCEPT ![t] = "read"] /\ UNCHANGED <<setConfig, setWanted, setCrashes>>
    BY <1>1 DEF Settings!Load, Settings!Edit, Settings!Change
  <2>2. \A u \in T : setAt[u] = "out"
    BY <2>1, <1>t DEF SettingsInv
  <2>3. PICK new \in Settings!Changes :
                   /\ setAsked' = [setAsked EXCEPT ![t] = new]
                   /\ \/ setCopy' = [setCopy EXCEPT ![t] = Settings!Given(new, setConfig)] /\ UNCHANGED setFaults
                      \/ setCopy' = [setCopy EXCEPT ![t] = Settings!Given(new, Settings!Blank)] /\ Settings!Fault
    BY <1>1 DEF Settings!Load, Settings!Edit
  <2>4. /\ DOMAIN setCopy' = T /\ DOMAIN setAsked' = T /\ setAsked'[t] = new
        /\ setFaults' \in Nat
        /\ \/ setCopy'[t] = Settings!Given(new, setConfig) /\ UNCHANGED setFaults
           \/ setCopy'[t] = Settings!Given(new, Settings!Blank) /\ setFaults' # 0
    BY <2>3, <1>f DEF SettingsInv
  <2>5. OrNone(setCopy'[t], Settings!Given(new, setWanted))
    BY <2>4, GivenKept, NothingKept DEF SettingsInv
  <2>6. \A u \in T : u # t => setAt'[u] = "out"
    BY <2>1, <2>2 DEF SettingsInv
  <2>7. setAt' \in [T -> {"out", "read", "cut"}] /\ setAt'[t] = "read"
    BY <2>1 DEF SettingsInv
  <2>8. setCrashes' = 0 /\ setFaults' = 0 =>
          setConfig = setWanted /\ setCopy'[t] = Settings!Given(new, setWanted)
    BY <2>1, <2>2, <2>4 DEF SettingsInv
  <2>9. OrNone(setConfig, setWanted)' /\ setCrashes' \in Nat
    BY <2>1 DEF SettingsInv, OrNone
  <2> QED
    BY <2>1, <2>4, <2>5, <2>6, <2>7, <2>8, <2>9 DEF SettingsInv
<1>2. ASSUME NEW t \in T, Settings!Truncate(t)
      PROVE  SettingsInv'
  <2>1. /\ setAt[t] = "read" /\ UNCHANGED <<setCopy, setAsked, setWanted, setCrashes>>
        /\ \/ /\ setConfig' = Settings!Blank /\ setAt' = [setAt EXCEPT ![t] = "cut"] /\ UNCHANGED <<setLock, setFaults>>
           \/ setAt' = [setAt EXCEPT ![t] = "out"] /\ UNCHANGED <<setConfig, setFaults>>
           \/ setConfig' = Settings!Blank /\ setAt' = [setAt EXCEPT ![t] = "out"] /\ Settings!Fault
    BY <1>2 DEF Settings!Truncate, Settings!Change
  <2>2. \A u \in T : u # t => setAt[u] = "out"
    BY <2>1 DEF SettingsInv
  <2>3. OrNone(Settings!Blank, setWanted)
    BY NothingKept
  <2>4. setFaults' \in Nat /\ (setFaults' = 0 => UNCHANGED setFaults)
    BY <2>1, <1>f DEF SettingsInv
  <2>5. OrNone(setConfig', setWanted)
    BY <2>1, <2>3 DEF SettingsInv
  <2>6. \A u \in T : u # t => setAt'[u] = "out"
    BY <2>1, <2>2 DEF SettingsInv
  <2>7. setAt' \in [T -> {"out", "read", "cut"}] /\ setAt'[t] \in {"out", "cut"}
    BY <2>1 DEF SettingsInv
  <2>8. setAt'[t] = "cut" => setConfig' = Settings!Blank /\ setLock' = setLock
    BY <2>1 DEF SettingsInv
  <2>9. setFaults' = 0 /\ setAt'[t] = "out" => setConfig' = setConfig
    BY <2>1, <1>f DEF SettingsInv
  <2>10. \A u \in T : setAt[u] # "cut"
    BY <2>1, <2>2
  <2> QED
    BY <2>1, <2>4, <2>5, <2>6, <2>7, <2>8, <2>9, <2>10 DEF SettingsInv, OrNone
<1>3. ASSUME NEW t \in T, Settings!Save(t)
      PROVE  SettingsInv'
  <2>1. /\ setAt[t] = "cut" /\ setAt' = [setAt EXCEPT ![t] = "out"] /\ UNCHANGED <<setCopy, setAsked, setCrashes>>
        /\ setWanted' = Settings!Given(setAsked[t], setWanted)
        /\ \/ setConfig' = setCopy[t] /\ UNCHANGED setFaults
           \/ Settings!Fault /\ UNCHANGED setConfig
    BY <1>3 DEF Settings!Save, Settings!Change
  <2>2. \A u \in T : setAt'[u] = "out"
    BY <2>1 DEF SettingsInv
  <2>3. setFaults' \in Nat /\ (setFaults' = 0 => UNCHANGED setFaults /\ setConfig' = setCopy[t])
    BY <2>1, <1>f DEF SettingsInv
  <2>4. OrNone(setCopy[t], setWanted') /\ setConfig = Settings!Blank
    BY <2>1 DEF SettingsInv
  <2>5. OrNone(setConfig', setWanted')
    BY <2>1, <2>4, NothingKept
  <2>6. setAt' \in [T -> {"out", "read", "cut"}]
    BY <2>1 DEF SettingsInv
  <2>7. setCrashes' = 0 /\ setFaults' = 0 => setConfig' = setWanted'
    BY <2>1, <2>3 DEF SettingsInv
  <2> QED
    BY <2>1, <2>2, <2>3, <2>5, <2>6, <2>7 DEF SettingsInv, OrNone
<1>4. CASE Settings!PowerFails
  <2>1. /\ setCrashes' = setCrashes + 1 /\ setAt' = [t \in T |-> "out"]
        /\ UNCHANGED <<setCopy, setAsked, setConfig, setWanted, setFaults>>
    BY <1>4 DEF Settings!PowerFails
  <2> QED
    BY <2>1 DEF SettingsInv, OrNone
<1>5. CASE Settings!Open \/ Settings!Write \/ Settings!Cut \/ Settings!Clear \/ UNCHANGED settingsVars
  <2>1. UNCHANGED <<Settings!settings, setCrashes>> /\ (UNCHANGED setFaults \/ Settings!Fault)
    BY <1>5 DEF Settings!Open, Settings!Write, Settings!Cut, Settings!Clear, Settings!Look, Settings!RemoveOld,
      Settings!Rename, settingsVars, Settings!settings
  <2>2. setFaults' \in Nat /\ (setFaults' = 0 => UNCHANGED setFaults)
    BY <2>1, <1>f DEF SettingsInv
  <2> QED
    BY <2>1, <2>2 DEF Settings!settings, SettingsInv, OrNone
<1> QED
  BY <1>1, <1>2, <1>3, <1>4, <1>5 DEF Settings!Next, Settings!Set

\* Two threads that change settings at once do not take each other's changes back:
\* a setting is the one last given or, after a failure, none.
THEOREM SettingsAreSaved == PartsSpec => [](part = "settings" => Settings!SettingsAreKept)
<1>1. PartsInit => SettingsInv
  BY DEF PartsInit, Settings!Init, SettingsInv, Settings!Threads, OrNone
<1>2. (part = "settings" => SettingsInv) /\ [PartsNext]_<<part, moving>> => (part = "settings" => SettingsInv)'
  <2> SUFFICES ASSUME part = "settings" => SettingsInv, [PartsNext]_<<part, moving>>, part' = "settings"
               PROVE  SettingsInv'
    OBVIOUS
  <2>1. part = "settings"
    BY DEF PartsNext
  <2> QED
    BY <2>1, SettingsMove, SettingsKept
<1>3. SettingsInv => Settings!SettingsAreKept
  BY DEF SettingsInv, Settings!SettingsAreKept, OrNone
<1> QED
  BY <1>1, <1>2, <1>3, PTL DEF PartsSpec

-----------------------------------------------------------------------------
(* The chats of the assistant: AgentFiles. *)

\* A step of the model is one of the chats or none, when they move.
LEMMA SessionsMove ==
  ASSUME [PartsNext]_<<part, moving>>, part = "sessions"
  PROVE  part' = "sessions" /\ (Sessions!Next \/ UNCHANGED sessionsVars)
<1>1. CASE PartsNext
  BY <1>1 DEF PartsNext
<1>2. CASE UNCHANGED <<part, moving>>
  BY <1>2 DEF moving
<1> QED
  BY <1>1, <1>2

\* The sequence holds a run of numbers that ends with n, n itself included unless
\* it is empty.
EndsWith(s, n) ==
  /\ s \in Seq(Nat) /\ Len(s) <= n
  /\ \A k \in 1..Len(s) : s[k] = n - Len(s) + k

\* The lines of the sequence are in order and not above n.
Upto(s, n) == s \in Seq(Int) /\ Sessions!InOrder(s) /\ \A k \in 1..Len(s) : s[k] <= n
\* Whatever failed, that holds of every file and every copy.
OrderInv ==
  /\ {sesCrashes, sesFaults} \subseteq Nat /\ sesSaid \in [Chats -> Nat] /\ sesChat \in Chats
  /\ DOMAIN sesLines = Chats /\ DOMAIN sesTmp = Chats
  /\ \A c \in Chats : Upto(sesLines[c], sesSaid[c]) /\ Upto(sesTmp[c], sesSaid[c])

\* While the power and the files have not failed, a file holds a run that ends with the last line
\* said, and as long as nothing was cleared all lines or more than a ring of them;
\* only in the middle of a cut is it missing.
SessionsInv ==
  sesCrashes = 0 /\ sesFaults = 0 =>
       /\ sesThere \subseteq Chats /\ sesChat \in Chats /\ sesOrphan \in BOOLEAN /\ sesClears \in Nat
       /\ sesPc \in {"idle", "write", "look", "remove", "rename"}
       /\ sesSaid \in [Chats -> Nat] /\ DOMAIN sesLines = Chats /\ DOMAIN sesTmp = Chats
       /\ sesPc = "write" => (sesOrphan <=> sesChat \notin sesThere)
       /\ sesPc \in {"remove", "rename"} =>
            EndsWith(sesTmp[sesChat], sesSaid[sesChat]) /\ Len(sesTmp[sesChat]) = 2 * MaxMsgs
       /\ \A c \in sesThere : EndsWith(sesLines[c], sesSaid[c])
       /\ sesClears = 0 =>
            /\ ~sesOrphan
            /\ \A c \in sesThere : Len(sesLines[c]) = sesSaid[c] \/ Len(sesLines[c]) >= 2 * MaxMsgs
            /\ \A c \in Chats \ sesThere : (sesPc = "rename" /\ c = sesChat) \/ sesSaid[c] = 0

\* Nothing ends with every number.
LEMMA EmptyEnds == \A n \in Nat : EndsWith(<<>>, n)
  BY DEF EndsWith

\* One more line.
LEMMA OneMoreLine ==
  ASSUME NEW s, NEW n \in Nat, EndsWith(s, n)
  PROVE  /\ EndsWith(Sessions!Written(s, n + 1), n + 1)
         /\ Len(Sessions!Written(s, n + 1)) = Len(s) + 1
<1>1. s \in Seq(Nat) /\ Len(s) \in Nat
  BY DEF EndsWith
<1>2. ~(s # <<>> /\ s[Len(s)] = Sessions!Torn)
  BY <1>1 DEF EndsWith, Sessions!Torn
<1>3. Sessions!Written(s, n + 1) = Append(s, n + 1)
  BY <1>2 DEF Sessions!Written
<1> DEFINE r == Append(s, n + 1)
<1>4. r \in Seq(Nat) /\ Len(r) = Len(s) + 1 /\ r[Len(s) + 1] = n + 1
  BY <1>1
<1>5. \A k \in 1..Len(s) : r[k] = s[k]
  BY <1>1
<1>6. \A k \in 1..Len(r) : r[k] = (n + 1) - Len(r) + k
  BY <1>1, <1>4, <1>5 DEF EndsWith
<1>7. Len(r) <= n + 1
  BY <1>4 DEF EndsWith
<1> HIDE DEF r
<1> QED
  BY <1>3, <1>4, <1>6, <1>7 DEF EndsWith, r

\* What is left of a long file ends where it did.
LEMMA CutLines ==
  ASSUME NEW s, NEW n \in Nat, EndsWith(s, n), Len(s) > 2 * MaxMsgs
  PROVE  EndsWith(Sessions!Shortened(s), n) /\ Len(Sessions!Shortened(s)) = 2 * MaxMsgs
<1> DEFINE m == Len(s) - 2 * MaxMsgs + 1
           r == SubSeq(s, m, Len(s))
<1>1. s \in Seq(Nat) /\ Len(s) \in Nat /\ MaxMsgs \in Nat \ {0}
  BY ChatsAssumption DEF EndsWith
<1>2. m \in 1..Len(s)
  BY <1>1
<1>3. r \in Seq(Nat) /\ Len(r) = 2 * MaxMsgs /\ \A k \in 1..Len(r) : r[k] = s[m + k - 1]
  BY <1>1, <1>2
<1> QED
  BY <1>1, <1>2, <1>3 DEF EndsWith, Sessions!Shortened

\* One more line, that is above n or none, and it stays in order.
LEMMA OrderGrows ==
  ASSUME NEW s, NEW n \in Nat, Upto(s, n), NEW m \in Nat, n <= m, NEW x \in Int, x <= 0 \/ (n < x /\ x <= m)
  PROVE  Upto(Append(s, x), m) /\ Upto(Sessions!Written(s, x), m)
<1>1. s \in Seq(Int) /\ Len(s) \in Nat
  BY DEF Upto
<1>2. Upto(Append(s, x), m)
  <2> DEFINE r == Append(s, x)
  <2>1. r \in Seq(Int) /\ Len(r) = Len(s) + 1 /\ r[Len(s) + 1] = x /\ \A k \in 1..Len(s) : r[k] = s[k]
    BY <1>1
  <2> HIDE DEF r
  <2>2. \A k \in 1..Len(r) : r[k] <= m
    BY <1>1, <2>1 DEF Upto
  <2>3. Sessions!InOrder(r)
    <3> SUFFICES ASSUME NEW j \in 1..Len(r), NEW k \in 1..Len(r), j < k, r[j] > 0, r[k] > 0
                 PROVE  r[j] < r[k]
      BY DEF Sessions!InOrder
    <3>1. j \in 1..Len(s) /\ r[j] = s[j] /\ s[j] <= n
      BY <1>1, <2>1 DEF Upto
    <3>2. CASE k = Len(s) + 1
      BY <1>1, <2>1, <3>1, <3>2
    <3>3. CASE k # Len(s) + 1
      <4>0. Len(r) = Len(s) + 1 /\ \A i \in 1..Len(s) : r[i] = s[i]
        BY <2>1
      <4>1. k \in 1..Len(s)
        BY <1>1, <4>0, <3>3
      <4>2. Sessions!InOrder(s)
        BY DEF Upto
      <4>3. s[j] < s[k]
        BY <3>1, <4>0, <4>1, <4>2 DEF Sessions!InOrder
      <4> QED
        BY <3>1, <4>0, <4>1, <4>3
    <3> QED
      BY <3>2, <3>3
  <2> QED
    BY <2>1, <2>2, <2>3 DEF Upto, r
<1>3. CASE s # <<>> /\ s[Len(s)] = Sessions!Torn
  <2> DEFINE e == IF x = Sessions!Torn THEN Sessions!Torn ELSE Sessions!Junk
             r == [s EXCEPT ![Len(s)] = e]
  <2>1. e \in Int /\ e <= 0 /\ Len(s) \in 1..Len(s)
    BY <1>1, <1>3 DEF Sessions!Torn, Sessions!Junk
  <2> HIDE DEF e
  <2>2. r \in Seq(Int) /\ Len(r) = Len(s) /\ r[Len(s)] = e /\ \A k \in 1..Len(s) : k # Len(s) => r[k] = s[k]
    BY <1>1, <2>1
  <2> HIDE DEF r
  <2>3. \A k \in 1..Len(r) : r[k] <= m
    BY <1>1, <2>1, <2>2 DEF Upto
  <2>4. Sessions!InOrder(r)
    BY <1>1, <2>1, <2>2 DEF Upto, Sessions!InOrder
  <2>5. Sessions!Written(s, x) = r
    BY <1>3 DEF Sessions!Written, r, e
  <2> QED
    BY <1>2, <2>2, <2>3, <2>4, <2>5 DEF Upto
<1>4. CASE ~(s # <<>> /\ s[Len(s)] = Sessions!Torn)
  BY <1>2, <1>4 DEF Sessions!Written
<1> QED
  BY <1>3, <1>4

\* A piece of an ordered sequence is ordered, and so is it with a torn line at its end.
LEMMA OrderCut ==
  ASSUME NEW s, NEW n \in Nat, Upto(s, n), NEW a \in Nat \ {0}, NEW b \in Nat, b <= Len(s)
  PROVE  Upto(SubSeq(s, a, b), n) /\ (a <= b => Len(SubSeq(s, a, b)) = b - a + 1)
<1> DEFINE r == SubSeq(s, a, b)
<1>1. s \in Seq(Int) /\ Len(s) \in Nat
  BY DEF Upto
<1>2. CASE a <= b
  <2>1. r \in Seq(Int) /\ Len(r) = b - a + 1 /\ \A k \in 1..Len(r) : r[k] = s[a + k - 1] /\ a + k - 1 \in 1..Len(s)
    BY <1>1, <1>2
  <2> HIDE DEF r
  <2> QED
    BY <1>1, <2>1 DEF Upto, Sessions!InOrder, r
<1>3. CASE ~(a <= b)
  <2>1. r \in Seq(Int) /\ Len(r) = 0
    BY <1>1, <1>3
  <2> HIDE DEF r
  <2> QED
    BY <1>3, <2>1 DEF Upto, Sessions!InOrder, r
<1> QED
  BY <1>2, <1>3

\* What was written of a copy is ordered as the copy is.
LEMMA OrderShort ==
  ASSUME NEW s, NEW n \in Nat, Upto(s, n), NEW r \in Sessions!Short(s)
  PROVE  Upto(r, n)
<1>1. \E k \in 0..Len(s) - 1 : r = SubSeq(s, 1, k) \/ r = Append(SubSeq(s, 1, k), Sessions!Torn)
  BY DEF Sessions!Short
<1>2. PICK k \in 0..Len(s) - 1 : r = SubSeq(s, 1, k) \/ r = Append(SubSeq(s, 1, k), Sessions!Torn)
  BY <1>1
<1>3. k \in Nat /\ k <= Len(s)
  BY DEF Upto
<1>4. Upto(SubSeq(s, 1, k), n)
  BY <1>3, OrderCut
<1>5. Sessions!Torn \in Int /\ Sessions!Torn <= 0
  BY DEF Sessions!Torn
<1>6. Upto(Append(SubSeq(s, 1, k), Sessions!Torn), n)
  BY <1>4, <1>5, OrderGrows
<1> QED
  BY <1>2, <1>4, <1>6

\* What is not above n is not above more.
LEMMA OrderStays == ASSUME NEW s, NEW n \in Nat, NEW m \in Nat, n <= m, Upto(s, n) PROVE Upto(s, m)
  BY DEF Upto

\* Appending, cutting, clearing and failing keep the lines of each chat in order.
LEMMA OrderKept ==
  ASSUME OrderInv, Sessions!Next \/ UNCHANGED sessionsVars
  PROVE  OrderInv'
<1> USE ChatsAssumption
<1>e. Upto(<<>>, 0)
  BY DEF Upto, Sessions!InOrder
<1>f. ASSUME Sessions!Fault PROVE sesFaults' \in Nat
  BY <1>f DEF Sessions!Fault, OrderInv
<1>1. CASE Sessions!Open
  <2>1. PICK c \in Chats : /\ sesChat' = c
                           /\ sesLines' = IF c \in sesThere THEN sesLines ELSE [sesLines EXCEPT ![c] = <<>>]
    BY <1>1 DEF Sessions!Open
  <2>2. UNCHANGED <<sesTmp, sesSaid, sesCrashes, sesFaults>>
    BY <1>1 DEF Sessions!Open
  <2>3. \A d \in Chats : sesLines'[d] \in {sesLines[d], <<>>}
    BY <2>1 DEF OrderInv
  <2>4. \A d \in Chats : sesSaid[d] \in Nat /\ Upto(<<>>, sesSaid[d])
    BY <1>e, OrderStays DEF OrderInv
  <2>5. \A d \in Chats : Upto(sesLines'[d], sesSaid[d])
    BY <2>3, <2>4 DEF OrderInv
  <2> QED
    BY <2>1, <2>2, <2>5 DEF OrderInv
<1> DEFINE n == sesSaid[sesChat]
           s == sesLines[sesChat]
<1>s. n \in Nat /\ n + 1 \in Nat /\ Upto(s, n) /\ Upto(s, n + 1)
  BY OrderStays DEF OrderInv
<1>2. ASSUME sesSaid' = [sesSaid EXCEPT ![sesChat] = n + 1],
             sesLines' = sesLines \/ \E x : Upto(x, n + 1) /\ sesLines' = [sesLines EXCEPT ![sesChat] = x],
             UNCHANGED <<sesTmp, sesChat>>, {sesCrashes', sesFaults'} \subseteq Nat
      PROVE  OrderInv'
  <2>1. sesSaid' \in [Chats -> Nat] /\ DOMAIN sesLines' = Chats
    BY <1>2, <1>s DEF OrderInv
  <2>2. \A c \in Chats : sesSaid[c] \in Nat /\ sesSaid'[c] \in Nat /\ sesSaid[c] <= sesSaid'[c]
    BY <1>2, <1>s DEF OrderInv
  <2>3. \A c \in Chats : Upto(sesLines[c], sesSaid'[c]) /\ Upto(sesTmp[c], sesSaid'[c])
    BY <2>2, OrderStays DEF OrderInv
  <2>4. sesSaid'[sesChat] = n + 1
    BY <1>2 DEF OrderInv
  <2>5. \A c \in Chats : Upto(sesLines'[c], sesSaid'[c])
    BY <1>2, <2>3, <2>4 DEF OrderInv
  <2> QED
    BY <1>2, <2>1, <2>3, <2>5 DEF OrderInv
<1>w. /\ Upto(Sessions!Written(s, n + 1), n + 1) /\ Upto(Sessions!Written(s, Sessions!Torn), n + 1)
      /\ Upto(Append(Sessions!Written(s, Sessions!Junk), Sessions!Junk), n + 1)
      /\ Upto(Append(Sessions!Written(s, Sessions!Junk), Sessions!Stray), n + 1)
  <2>1. Upto(Sessions!Written(s, n + 1), n + 1)
    BY <1>s, OrderGrows
  <2>2. {Sessions!Torn, Sessions!Junk, Sessions!Stray} \subseteq Int /\ Sessions!Torn <= 0 /\ Sessions!Junk <= 0
        /\ Sessions!Stray <= 0
    BY DEF Sessions!Torn, Sessions!Junk, Sessions!Stray
  <2> HIDE DEF n, s
  <2>3. Upto(Sessions!Written(s, Sessions!Torn), n + 1) /\ Upto(Sessions!Written(s, Sessions!Junk), n + 1)
    BY <1>s, <2>2, OrderGrows
  <2> QED
    BY <1>s, <2>1, <2>2, <2>3, OrderGrows
<1>3. CASE Sessions!Write
  <2>1. /\ sesSaid' = [sesSaid EXCEPT ![sesChat] = n + 1] /\ UNCHANGED <<sesTmp, sesChat, sesCrashes>>
        /\ UNCHANGED sesFaults \/ Sessions!Fault
    BY <1>3 DEF Sessions!Write
  <2>2. \/ sesLines' = sesLines
        \/ \E x \in {s, Sessions!Written(s, n + 1), Sessions!Written(s, Sessions!Torn),
                     Append(Sessions!Written(s, Sessions!Junk), Sessions!Junk),
                     Append(Sessions!Written(s, Sessions!Junk), Sessions!Stray)} :
             sesLines' = [sesLines EXCEPT ![sesChat] = x]
    BY <1>3 DEF Sessions!Write
  <2> HIDE DEF n, s
  <2>3. sesLines' = sesLines \/ \E x : Upto(x, n + 1) /\ sesLines' = [sesLines EXCEPT ![sesChat] = x]
    BY <2>2, <1>s, <1>w
  <2>4. {sesCrashes', sesFaults'} \subseteq Nat
    BY <2>1, <1>f DEF OrderInv
  <2> QED
    BY <1>2, <2>1, <2>3, <2>4
<1>4. CASE Sessions!PowerFails
  <2>1. UNCHANGED <<sesTmp, sesChat, sesFaults>> /\ sesCrashes' \in Nat
    BY <1>4 DEF Sessions!PowerFails, OrderInv
  <2>2. CASE UNCHANGED <<sesLines, sesSaid>>
    BY <2>1, <2>2 DEF OrderInv
  <2>3. CASE ~UNCHANGED <<sesLines, sesSaid>>
    <3>1. /\ sesSaid' = [sesSaid EXCEPT ![sesChat] = n + 1]
          /\ sesLines' = [sesLines EXCEPT ![sesChat] = Sessions!Written(s, Sessions!Torn)]
      BY <1>4, <2>3 DEF Sessions!PowerFails
    <3>2. {sesCrashes', sesFaults'} \subseteq Nat
      BY <2>1 DEF OrderInv
    <3> HIDE DEF n, s
    <3> QED
      BY <1>2, <1>w, <2>1, <3>1, <3>2
  <2> QED
    BY <2>2, <2>3
<1>5. CASE Sessions!Look
  <2>1. UNCHANGED <<sesLines, sesChat, sesSaid, sesCrashes>> /\ (UNCHANGED sesFaults \/ Sessions!Fault)
    BY <1>5 DEF Sessions!Look
  <2>2. sesFaults' \in Nat
    BY <2>1, <1>f DEF OrderInv
  <2>3. CASE UNCHANGED sesTmp
    BY <2>1, <2>2, <2>3 DEF OrderInv
  <2>4. CASE ~UNCHANGED sesTmp
    <3>1. /\ Len(s) > 2 * MaxMsgs
          /\ \E x \in {Sessions!Shortened(s)} \cup Sessions!Short(Sessions!Shortened(s)) :
               sesTmp' = [sesTmp EXCEPT ![sesChat] = x]
      BY <1>5, <2>4 DEF Sessions!Look
    <3>2. Upto(Sessions!Shortened(s), n)
      <4>1. s \in Seq(Int) /\ Len(s) \in Nat /\ MaxMsgs \in Nat
        BY <1>s DEF Upto
      <4> DEFINE a == Len(s) - 2 * MaxMsgs + 1
      <4>2. a \in Nat \ {0} /\ Len(s) \in Nat /\ Len(s) <= Len(s)
        BY <3>1, <4>1
      <4>3. Sessions!Shortened(s) = SubSeq(s, a, Len(s))
        BY DEF Sessions!Shortened
      <4> HIDE DEF a, n, s
      <4> QED
        BY <1>s, <4>2, <4>3, OrderCut
    <3> HIDE DEF n, s
    <3>3. \E x : Upto(x, n) /\ sesTmp' = [sesTmp EXCEPT ![sesChat] = x]
      BY <1>s, <3>1, <3>2, OrderShort
    <3> QED
      BY <2>1, <2>2, <3>3 DEF OrderInv, n
  <2> QED
    BY <2>3, <2>4
<1>6. CASE Sessions!RemoveOld \/ Sessions!Clear
  BY <1>6 DEF Sessions!RemoveOld, Sessions!Clear, OrderInv
<1>7. CASE Sessions!Rename
  <2>1. /\ sesLines' = sesLines \/ sesLines' = [sesLines EXCEPT ![sesChat] = sesTmp[sesChat]]
        /\ UNCHANGED <<sesTmp, sesChat, sesSaid, sesCrashes>> /\ (UNCHANGED sesFaults \/ Sessions!Fault)
    BY <1>7 DEF Sessions!Rename
  <2>2. sesFaults' \in Nat
    BY <2>1, <1>f DEF OrderInv
  <2> QED
    BY <2>1, <2>2 DEF OrderInv
<1>8. CASE UNCHANGED <<Sessions!sessions, sesCrashes>> /\ (UNCHANGED sesFaults \/ Sessions!Fault)
  <2>1. sesFaults' \in Nat
    BY <1>8, <1>f DEF OrderInv
  <2> QED
    BY <1>8, <2>1 DEF Sessions!sessions, OrderInv
<1>9. ASSUME NEW t \in Sessions!Threads, Sessions!Set(t)
      PROVE  OrderInv'
  BY <1>8, <1>9 DEF Sessions!Set, Sessions!Load, Sessions!Edit, Sessions!Truncate, Sessions!Save
<1>10. CASE UNCHANGED sessionsVars
  BY <1>8, <1>10 DEF sessionsVars, Sessions!sessions
<1> QED
  BY <1>1, <1>3, <1>4, <1>5, <1>6, <1>7, <1>9, <1>10 DEF Sessions!Next, Sessions!Cut

\* Appending, cutting and clearing keep a run of lines that ends with the last one said.
LEMMA SessionsKept ==
  ASSUME OrderInv, SessionsInv, Sessions!Next \/ UNCHANGED sessionsVars
  PROVE  SessionsInv'
<1> USE ChatsAssumption
<1>1. CASE Sessions!PowerFails
  <2>1. sesCrashes' # 0
    BY <1>1 DEF OrderInv, Sessions!PowerFails
  <2> QED
    BY <2>1 DEF SessionsInv
<1>f. ASSUME Sessions!Fault PROVE SessionsInv'
  <2>1. sesFaults' # 0
    BY <1>f DEF OrderInv, Sessions!Fault
  <2> QED
    BY <2>1 DEF SessionsInv
<1>2. CASE ~(sesCrashes = 0 /\ sesFaults = 0) /\ UNCHANGED <<sesCrashes, sesFaults>>
  BY <1>2 DEF SessionsInv
<1>u. Sessions!PowerFails \/ Sessions!Fault \/ UNCHANGED <<sesCrashes, sesFaults>>
  BY DEF Sessions!Next, Sessions!Open, Sessions!Write, Sessions!Cut, Sessions!Look, Sessions!RemoveOld,
    Sessions!Rename, Sessions!Clear, Sessions!Set, Sessions!Load, Sessions!Edit, Sessions!Truncate, Sessions!Save,
    sessionsVars
<1> SUFFICES ASSUME sesCrashes = 0, sesFaults = 0, ~Sessions!Fault
             PROVE  SessionsInv'
  BY <1>1, <1>f, <1>2, <1>u
<1>3. CASE Sessions!Open
  <2>1. PICK c \in Chats : /\ sesChat' = c /\ sesThere' = sesThere \cup {c}
                           /\ sesLines' = IF c \in sesThere THEN sesLines ELSE [sesLines EXCEPT ![c] = <<>>]
    BY <1>3 DEF Sessions!Open
  <2>2. /\ sesPc = "idle" /\ sesPc' = "write" /\ sesOrphan' = FALSE
        /\ UNCHANGED <<sesTmp, sesSaid, sesClears>>
    BY <1>3 DEF Sessions!Open
  <2>3. \A d \in sesThere' : \/ d \in sesThere /\ sesLines'[d] = sesLines[d]
                             \/ d = c /\ d \notin sesThere /\ sesLines'[d] = <<>>
    BY <2>1 DEF SessionsInv
  <2>5. \A d \in sesThere' : EndsWith(sesLines'[d], sesSaid'[d])
    BY <2>1, <2>2, <2>3, EmptyEnds DEF SessionsInv
  <2> QED
    BY <2>1, <2>2, <2>3, <2>5 DEF SessionsInv
<1>4. CASE Sessions!Write
  <2>1. /\ sesPc = "write" /\ sesSaid' = [sesSaid EXCEPT ![sesChat] = sesSaid[sesChat] + 1]
        /\ sesLines' = IF sesOrphan THEN sesLines
                       ELSE [sesLines EXCEPT ![sesChat] = Sessions!Written(sesLines[sesChat], sesSaid[sesChat] + 1)]
        /\ sesPc' \in {"look", "idle"}
        /\ UNCHANGED <<sesThere, sesTmp, sesChat, sesOrphan, sesClears>>
    BY <1>4 DEF Sessions!Write
  <2>2. \A c \in sesThere : c # sesChat => sesLines'[c] = sesLines[c] /\ sesSaid'[c] = sesSaid[c]
    BY <2>1 DEF SessionsInv
  <2>3. sesChat \in sesThere => /\ sesLines'[sesChat] = Sessions!Written(sesLines[sesChat], sesSaid[sesChat] + 1)
                                /\ sesSaid'[sesChat] = sesSaid[sesChat] + 1 /\ sesSaid[sesChat] \in Nat
    BY <2>1 DEF SessionsInv
  <2>4. sesChat \in sesThere => /\ EndsWith(sesLines'[sesChat], sesSaid'[sesChat])
                                /\ Len(sesLines'[sesChat]) = Len(sesLines[sesChat]) + 1
                                /\ Len(sesLines[sesChat]) \in Nat
    BY <2>3, OneMoreLine DEF SessionsInv, EndsWith
  <2>5. \A c \in sesThere : EndsWith(sesLines'[c], sesSaid'[c])
    BY <2>2, <2>4 DEF SessionsInv
  <2>6. sesClears = 0 => sesChat \in sesThere
    BY <2>1 DEF SessionsInv
  <2>7. sesClears = 0 =>
          /\ \A c \in sesThere : Len(sesLines'[c]) = sesSaid'[c] \/ Len(sesLines'[c]) >= 2 * MaxMsgs
          /\ \A c \in Chats \ sesThere : sesSaid'[c] = 0
    BY <2>1, <2>2, <2>3, <2>4, <2>6 DEF SessionsInv
  <2>8. sesSaid' \in [Chats -> Nat] /\ DOMAIN sesLines' = Chats
    BY <2>1 DEF SessionsInv
  <2> QED
    BY <2>1, <2>5, <2>7, <2>8 DEF SessionsInv
<1>5. CASE Sessions!Look
  <2>1. /\ sesPc = "look" /\ sesOrphan' = FALSE
        /\ UNCHANGED <<sesThere, sesLines, sesChat, sesSaid, sesClears>>
    BY <1>5 DEF Sessions!Look
  <2>2. CASE sesPc' = "remove"
    <3>1. /\ sesTmp' = [sesTmp EXCEPT ![sesChat] = Sessions!Shortened(sesLines[sesChat])]
          /\ sesChat \in sesThere /\ Len(sesLines[sesChat]) > 2 * MaxMsgs
      BY <1>5, <2>2 DEF Sessions!Look
    <3>2. EndsWith(sesTmp'[sesChat], sesSaid[sesChat]) /\ Len(sesTmp'[sesChat]) = 2 * MaxMsgs
      BY <3>1, CutLines DEF SessionsInv
    <3> QED
      BY <2>1, <2>2, <3>1, <3>2 DEF SessionsInv
  <2>3. CASE sesPc' # "remove"
    <3>1. sesPc' = "idle" /\ UNCHANGED sesTmp
      BY <1>5, <2>3 DEF Sessions!Look
    <3> QED
      BY <1>5, <2>1, <3>1 DEF Sessions!Look, SessionsInv
  <2> QED
    BY <2>2, <2>3
<1>6. CASE Sessions!RemoveOld
  BY <1>6 DEF Sessions!RemoveOld, SessionsInv
<1>7. CASE Sessions!Rename
  BY <1>7 DEF Sessions!Rename, SessionsInv
<1>8. CASE Sessions!Clear
  <2>1. PICK C \in SUBSET Chats : /\ sesThere' = sesThere \ C
                                  /\ sesOrphan' = (sesOrphan \/ (sesPc = "write" /\ sesChat \in C))
    BY <1>8 DEF Sessions!Clear
  <2>2. sesClears' = sesClears + 1 /\ UNCHANGED <<sesLines, sesTmp, sesPc, sesChat, sesSaid>>
    BY <1>8 DEF Sessions!Clear
  <2>3. sesOrphan' \in BOOLEAN /\ (sesPc = "write" => (sesOrphan' <=> sesChat \notin sesThere'))
    BY <2>1 DEF SessionsInv
  <2>4. sesClears' # 0
    BY <2>2 DEF SessionsInv
  <2>5. /\ sesThere' \subseteq Chats
        /\ \A c \in sesThere' : EndsWith(sesLines'[c], sesSaid'[c])
    BY <2>1, <2>2 DEF SessionsInv
  <2> QED
    BY <2>2, <2>3, <2>4, <2>5 DEF SessionsInv
<1>9. CASE UNCHANGED Sessions!sessions
  BY <1>9 DEF Sessions!sessions, SessionsInv
<1>10. CASE UNCHANGED sessionsVars
  BY <1>9, <1>10 DEF sessionsVars, Sessions!sessions
<1>11. ASSUME NEW t \in Sessions!Threads, Sessions!Set(t)
       PROVE  SessionsInv'
  BY <1>9, <1>11 DEF Sessions!Set, Sessions!Load, Sessions!Edit, Sessions!Truncate, Sessions!Save
<1> QED
  BY <1>1, <1>3, <1>4, <1>5, <1>6, <1>7, <1>8, <1>10, <1>11 DEF Sessions!Next, Sessions!Cut

\* The module's sizes of sets are those of the theorems about them.
LEMMA SessionsSize == ASSUME NEW S PROVE Sessions!Cardinality(S) = Cardinality(S)
  BY DEF Sessions!Cardinality, Cardinality

\* A run of numbers parses line by line.
LEMMA AllParse ==
  ASSUME NEW s, NEW n \in Nat, EndsWith(s, n)
  PROVE  Sessions!Parsed(s) = s
<1> DEFINE P == Sessions!Parsing(s)
           Size(S) == Sessions!Cardinality(S)
<1>1. s \in Seq(Nat) /\ Len(s) \in Nat /\ s = [k \in 1..Len(s) |-> s[k]]
  BY DEF EndsWith
<1>2. P = 1..Len(s)
  BY <1>1 DEF EndsWith, Sessions!Parsing
<1> HIDE DEF P, Size
<1>3. ASSUME NEW j \in Nat, j <= Len(s)
      PROVE  Size(1..j) = j /\ Size(P \cap (1..j)) = j
  <2>1. Cardinality(1..j) = IF 1 > j THEN 0 ELSE j - 1 + 1
    BY <1>3, FS_Interval
  <2>2. Size(1..j) = j
    BY <1>3, <2>1, SessionsSize DEF Size
  <2>3. P \cap (1..j) = 1..j
    BY <1>1, <1>2, <1>3
  <2> QED
    BY <2>2, <2>3, Zenon
<1>4. \A j \in 1..Len(s) : Size(P \cap (1..j)) = j
  BY <1>1, <1>3
<1>5. Size(P) = Len(s)
  <2>1. Len(s) \in Nat /\ Len(s) <= Len(s)
    BY <1>1
  <2>2. Size(1..Len(s)) = Len(s)
    BY <1>3, <2>1, Zenon
  <2> QED
    BY <1>2, <2>2, Zenon
<1> DEFINE Pick(k) == CHOOSE j \in P : Size(P \cap (1..j)) = k
<1>6. \A k \in 1..Len(s) : Pick(k) = k
  BY <1>2, <1>4
<1>7. Sessions!Parsed(s) = [k \in 1..Size(P) |-> s[Pick(k)]]
  BY DEF Sessions!Parsed, P, Size
<1> HIDE DEF Pick
<1>8. [k \in 1..Len(s) |-> s[Pick(k)]] = [k \in 1..Len(s) |-> s[k]]
  BY <1>6
<1>9. Sessions!Parsed(s) = [k \in 1..Len(s) |-> s[k]]
  BY <1>5, <1>7, <1>8, Zenon
<1> QED
  BY <1>1, <1>9, Zenon

\* What a remainder is.
LEMMA Remainder ==
  ASSUME NEW a \in Int, NEW b \in Nat \ {0}
  PROVE  a % b \in 0..b-1 /\ a = b * (a \div b) + (a % b)
<1>1. a % b \in 0..b-1
  OBVIOUS
<1>2. a = b * (a \div b) + (a % b)
  OBVIOUS
<1> QED
  BY <1>1, <1>2

\* A multiple of b is shorter than b only if it is 0.
LEMMA NoMultiple ==
  ASSUME NEW q \in Int, NEW b \in Nat \ {0}, -b < b * q, b * q < b
  PROVE  q = 0
<1>1. ~(q >= 1)
  <2> SUFFICES ASSUME q >= 1 PROVE FALSE
    OBVIOUS
  <2>1. b * q >= b * 1
    OBVIOUS
  <2> QED
    BY <2>1
<1>2. ~(q <= -1)
  <2> SUFFICES ASSUME q <= -1 PROVE FALSE
    OBVIOUS
  <2>1. b * q <= b * (-1)
    OBVIOUS
  <2> QED
    BY <2>1
<1> QED
  BY <1>1, <1>2

\* A multiple of b leaves nothing.
LEMMA MultipleRemains ==
  ASSUME NEW a \in Int, NEW b \in Nat \ {0}, NEW p \in Int, a = b * p
  PROVE  a % b = 0
<1>1. a = b * (a \div b) + (a % b) /\ a % b \in 0..b-1 /\ a \div b \in Int
  BY Remainder, Quotient
<1>2. PICK o \in Int : o = a \div b
  BY <1>1
<1>3. b * (p - o) = b * p - b * o
  OBVIOUS
<1>4. b * (p - o) = a % b
  BY <1>1, <1>2, <1>3
<1>5. p - o = 0
  BY <1>1, <1>4, NoMultiple
<1> QED
  BY <1>4, <1>5

\* Read from its oldest place, a ring that was filled in a circle holds the last
\* MaxMsgs lines in their order.
LEMMA RingIsRotated ==
  ASSUME NEW s \in Seq(Nat), Len(s) >= MaxMsgs
  PROVE  Sessions!Rotated(s) = [k \in 1..MaxMsgs |-> s[Len(s) - MaxMsgs + k]]
<1> DEFINE n == Len(s)
           m == MaxMsgs
<1>1. n \in Nat /\ m \in Nat \ {0} /\ n >= m
  BY ChatsAssumption
<1> HIDE DEF n, m
<1>2. ASSUME NEW k \in 1..m
      PROVE  Sessions!Rotated(s)[k] = s[n - m + k]
  <2> DEFINE a == n + k - 1
             q == (a % m) + 1
             j == n - m + k
             Here(i) == (i - q) % m = 0 /\ i + m > n
  <2>1. a \in Int /\ a % m \in 0..m-1
    BY <1>1, Remainder
  <2>2. q \in 1..m /\ j \in 1..n /\ j + m > n
    BY <1>1, <2>1
  <2>3. \E p \in Int : j - q = m * p
    <3>1. a = m * (a \div m) + (a % m) /\ a \div m \in Int
      BY <1>1, Remainder, Quotient
    <3>2. PICK p \in Int : p = a \div m
      BY <3>1
    <3>3. m * (p - 1) = m * p - m
      BY <1>1
    <3>4. j - q = m * (p - 1)
      BY <1>1, <2>1, <3>1, <3>2, <3>3
    <3> QED
      BY <3>4
  <2> HIDE DEF j, q
  <2>4. (j - q) % m = 0
    BY <1>1, <2>2, <2>3, MultipleRemains
  <2>5. ASSUME NEW i \in 1..n, Here(i)
        PROVE  i = j
    <3>1. PICK p \in Int : j - q = m * p
      BY <2>3
    <3>2. PICK o \in Int : i - q = m * o
      <4>1. i - q \in Int /\ i - q = m * ((i - q) \div m) + ((i - q) % m) /\ (i - q) \div m \in Int
        BY <1>1, <2>2, Remainder, Quotient
      <4> DEFINE o == (i - q) \div m
      <4>2. o \in Int /\ i - q = m * o + ((i - q) % m)
        BY <4>1
      <4>3. (i - q) % m = 0
        BY <2>5
      <4> HIDE DEF o
      <4>4. i - q = m * o
        BY <1>1, <4>2, <4>3
      <4> QED
        BY <4>2, <4>4
    <3>3. m * (o - p) = m * o - m * p
      BY <1>1
    <3>4. i - j = m * (o - p) /\ -m < i - j /\ i - j < m
      BY <3>1, <3>2, <3>3, <2>5, <2>2, <1>1
    <3>5. o - p = 0
      BY <3>4, <1>1, NoMultiple
    <3> QED
      BY <3>4, <3>5, <1>1, <2>2
  <2>6. (CHOOSE i \in 1..n : Here(i)) = j
    BY <2>2, <2>4, <2>5
  <2>7. Sessions!Ring(s)[q] = s[j]
    BY <2>2, <2>6 DEF Sessions!Ring, n, m
  <2>8. Sessions!Rotated(s)[k] = Sessions!Ring(s)[q]
    BY <1>2 DEF Sessions!Rotated, n, m, q
  <2> QED
    BY <2>7, <2>8 DEF j
<1>3. DOMAIN Sessions!Rotated(s) = 1..m
  BY DEF Sessions!Rotated, m
<1>4. Sessions!Rotated(s) = [k \in DOMAIN Sessions!Rotated(s) |-> Sessions!Rotated(s)[k]]
  BY DEF Sessions!Rotated
<1> QED
  BY <1>2, <1>3, <1>4 DEF n, m

\* What the model is given of a file that ends with n: its last lines, as many as
\* fit the ring.
LEMMA HistoryEnds ==
  ASSUME NEW c, NEW n \in Nat, c \in sesThere, EndsWith(sesLines[c], n)
  PROVE  /\ EndsWith(Sessions!History(c), n)
         /\ Len(Sessions!History(c)) = IF Len(sesLines[c]) < MaxMsgs THEN Len(sesLines[c]) ELSE MaxMsgs
<1> DEFINE s == sesLines[c]
           h == Sessions!History(c)
<1>1. s \in Seq(Nat) /\ Len(s) \in Nat /\ Len(s) <= n /\ \A k \in 1..Len(s) : s[k] = n - Len(s) + k
  BY DEF EndsWith
<1>2. h = IF Len(s) < MaxMsgs THEN s ELSE Sessions!Rotated(s)
  BY AllParse DEF Sessions!History
<1> HIDE DEF s, h
<1>3. CASE Len(s) < MaxMsgs
  BY <1>1, <1>2, <1>3 DEF EndsWith, s, h
<1>4. CASE ~(Len(s) < MaxMsgs)
  <2> DEFINE r == [k \in 1..MaxMsgs |-> s[Len(s) - MaxMsgs + k]]
  <2>0. MaxMsgs \in Nat \ {0} /\ Len(s) >= MaxMsgs
    BY <1>1, <1>4, ChatsAssumption
  <2>1. h = r
    BY <1>1, <1>2, <1>4, <2>0, RingIsRotated
  <2>2. \A k \in 1..MaxMsgs : r[k] = n - MaxMsgs + k
    BY <1>1, <2>0
  <2>3. r \in Seq(Nat) /\ Len(r) = MaxMsgs
    <3>1. \A k \in 1..MaxMsgs : s[Len(s) - MaxMsgs + k] \in Nat
      BY <1>1, <2>0
    <3> QED
      BY <3>1, <2>0
  <2> HIDE DEF r
  <2>4. EndsWith(r, n) /\ Len(r) = MaxMsgs
    BY <2>0, <2>2, <2>3, <1>1 DEF EndsWith
  <2> QED
    BY <2>1, <2>4, <1>4 DEF s, h
<1> QED
  BY <1>3, <1>4

\* The lines that are left of a chat are in the order they were said, whatever fails;
\* and as long as nothing does, whatever is appended, cut and cleared, the model is given
\* a run of lines, and the latest ones when nothing was cleared.
THEOREM HistoriesAreLatest == PartsSpec => [](part = "sessions" => Sessions!HistoryIsLatest)
<1>1. PartsInit => OrderInv /\ SessionsInv
  <2> SUFFICES ASSUME Sessions!Init PROVE OrderInv /\ SessionsInv
    BY DEF PartsInit
  <2>1. /\ sesThere = {} /\ sesPc = "idle" /\ sesChat \in Chats /\ sesOrphan = FALSE
        /\ sesSaid = [c \in Chats |-> 0] /\ sesClears = 0 /\ sesCrashes = 0 /\ sesFaults = 0
        /\ sesLines = [c \in Chats |-> <<>>] /\ sesTmp = [c \in Chats |-> <<>>]
    BY DEF Sessions!Init
  <2>2. Upto(<<>>, 0)
    BY DEF Upto, Sessions!InOrder
  <2>3. \A c \in Chats : sesSaid[c] = 0 /\ sesLines[c] = <<>> /\ sesTmp[c] = <<>>
    BY <2>1
  <2>4. sesSaid \in [Chats -> Nat] /\ DOMAIN sesLines = Chats /\ DOMAIN sesTmp = Chats
    BY <2>1
  <2>5. OrderInv
    BY <2>1, <2>2, <2>3, <2>4 DEF OrderInv
  <2>6. SessionsInv
    BY <2>1, <2>3, <2>4 DEF SessionsInv
  <2> QED
    BY <2>5, <2>6
<1>2. (part = "sessions" => OrderInv /\ SessionsInv) /\ [PartsNext]_<<part, moving>>
        => (part = "sessions" => OrderInv /\ SessionsInv)'
  <2> SUFFICES ASSUME part = "sessions" => OrderInv /\ SessionsInv, [PartsNext]_<<part, moving>>, part' = "sessions"
               PROVE  OrderInv' /\ SessionsInv'
    OBVIOUS
  <2>1. part = "sessions"
    BY DEF PartsNext
  <2> QED
    BY <2>1, SessionsMove, OrderKept, SessionsKept
<1>3. OrderInv /\ SessionsInv => Sessions!HistoryIsLatest
  <2>o. OrderInv => \A c \in Chats : Sessions!InOrder(sesLines[c])
    BY DEF OrderInv, Upto
  <2> SUFFICES ASSUME SessionsInv, sesCrashes = 0, sesFaults = 0, NEW c \in Chats
               PROVE  LET h == Sessions!History(c) IN
                      /\ Sessions!Running(h)
                      /\ sesClears = 0 /\ sesPc \in {"idle", "write"} =>
                           /\ Len(h) = Sessions!Fewest(sesSaid[c], MaxMsgs)
                           /\ h # <<>> => h[Len(h)] = sesSaid[c]
    BY <2>o DEF Sessions!HistoryIsLatest
  <2> DEFINE h == Sessions!History(c)
             n == sesSaid[c]
  <2>0. n \in Nat /\ MaxMsgs \in Nat \ {0}
    BY ChatsAssumption DEF SessionsInv
  <2>1. CASE c \in sesThere
    <3>1. EndsWith(sesLines[c], n)
      BY <2>1 DEF SessionsInv
    <3>2. EndsWith(h, n) /\ Len(h) = IF Len(sesLines[c]) < MaxMsgs THEN Len(sesLines[c]) ELSE MaxMsgs
      BY <2>0, <2>1, <3>1, HistoryEnds
    <3>3. sesClears = 0 => Len(sesLines[c]) = n \/ Len(sesLines[c]) >= 2 * MaxMsgs
      BY <2>1 DEF SessionsInv
    <3>4. Len(sesLines[c]) \in Nat /\ Len(sesLines[c]) <= n
      BY <3>1 DEF EndsWith
    <3> HIDE DEF h, n
    <3>5. sesClears = 0 => Len(h) = Sessions!Fewest(n, MaxMsgs)
      BY <2>0, <3>2, <3>3, <3>4 DEF Sessions!Fewest
    <3>6. h \in Seq(Nat) /\ Len(h) \in Nat /\ \A k \in 1..Len(h) : h[k] = n - Len(h) + k
      BY <3>2 DEF EndsWith
    <3>7. Sessions!Running(h)
      <4>1. ASSUME NEW k \in 1..(Len(h) - 1)
            PROVE  h[k] + 1 = h[k + 1]
        <5>1. k \in 1..Len(h) /\ k + 1 \in 1..Len(h)
          BY <3>6
        <5>2. h[k] = n - Len(h) + k /\ h[k + 1] = n - Len(h) + (k + 1)
          BY <3>6, <5>1
        <5> QED
          BY <2>0, <3>6, <5>2
      <4> QED
        BY <4>1 DEF Sessions!Running
    <3>8. h # <<>> => Len(h) \in 1..Len(h)
      BY <3>6
    <3>9. h # <<>> => h[Len(h)] = n
      BY <2>0, <3>6, <3>8
    <3> QED
      BY <3>5, <3>7, <3>9 DEF h, n
  <2>2. CASE c \notin sesThere
    <3>1. Sessions!Parsed(<<>>) = <<>>
      <4>1. EndsWith(<<>>, 0)
        BY EmptyEnds
      <4> QED
        BY <4>1, AllParse
    <3>2. h = <<>>
      BY <2>0, <2>2, <3>1 DEF Sessions!History
    <3>3. sesClears = 0 /\ sesPc \in {"idle", "write"} => n = 0
      BY <2>2 DEF SessionsInv
    <3> QED
      BY <2>0, <3>2, <3>3 DEF Sessions!Running, Sessions!Fewest
  <2> QED
    BY <2>1, <2>2
<1> QED
  BY <1>1, <1>2, <1>3, PTL DEF PartsSpec

-----------------------------------------------------------------------------
(* The workers of the panel: LanPanel. *)

\* What the names and numbers of the panel are.
PanelTypes ==
  /\ panelMain \in {"top", "wait", "accept", "interrupted", "close", "drain", "join", "ended"}
  /\ panelStop \in BOOLEAN /\ panelSlots \in Int
  /\ \A c \in backlog : c \in Clients /\ conn[c] = "backlog"
  /\ conn \in [Clients -> Panel!Phases \cup {"away", "backlog", "gone"}]
  /\ panelSize \in Seq(Nat) /\ panelPath \in 0..Len(panelSize)
  /\ panelFd \in [Clients -> Nat] /\ \A c \in Clients : panelFd[c] <= Len(panelSize)
  /\ promised \in [Clients -> Nat] /\ panelSent \in [Clients -> Nat]
  /\ light \in {"look", "lit", "done"} /\ led \in BOOLEAN

\* What is sent is what was measured on the file that is open, and files only grow.
ReplyInv ==
  /\ \A f \in 1..Len(panelSize) : panelSize[f] >= Panel!Born(f)
  /\ \A c \in Clients :
       /\ conn[c] # "short"
       /\ conn[c] \in {"stat", "send", "sent"} => panelFd[c] \in 1..Len(panelSize)
       /\ conn[c] \in {"send", "sent"} =>
            promised[c] \in Panel!Born(panelFd[c])..panelSize[panelFd[c]] /\ panelSent[c] <= promised[c]
       /\ conn[c] \notin {"send", "sent", "close", "gone"} => panelSent[c] = 0

\* Who is about to write holds the lock, and the temporary file is its own.
SavingInv ==
  /\ {panelLock, panelTmp, wifi, accepted} \subseteq Clients \cup {"none"} /\ whole \subseteq Clients
  /\ \A c \in Clients :
       /\ conn[c] \in {"create", "fill", "rename", "export"} => panelLock = c
       /\ conn[c] \in {"fill", "rename"} => panelTmp = c
       /\ conn[c] = "rename" => c \in whole
  /\ wifi = accepted /\ (wifi # "none" => wifi \in whole)

\* What a step of a worker changes, as far as the names and numbers go.
LEMMA WorkTypes ==
  ASSUME PanelTypes, ReplyInv, NEW c \in Clients, Panel!Work(c)
  PROVE  PanelTypes'
<1>j. Jobs[c] \subseteq {"open", "lock", "mutex"}
  BY ClientsAssumption
<1>p. \A ph \in Panel!Phases : ph \notin {"away", "backlog", "gone"}
  BY DEF Panel!Phases
<1>1. CASE Panel!Read(c) \/ Panel!Take(c) \/ Panel!Create(c) \/ Panel!Fill(c) \/ Panel!Rename(c) \/ Panel!Export(c)
  <2>1. \E x \in Panel!Phases : conn' = [conn EXCEPT ![c] = x]
    BY <1>1, <1>j DEF Panel!Read, Panel!Routes, Panel!Take, Panel!Create, Panel!Fill, Panel!Rename, Panel!Export,
      Panel!Goes, Panel!Phases
  <2>2. conn[c] # "backlog"
    BY <1>1 DEF Panel!Read, Panel!Take, Panel!Create, Panel!Fill, Panel!Rename, Panel!Export, Panel!Goes
  <2>3. UNCHANGED <<panelMain, panelStop, panelSlots, backlog, panelSize, panelPath, panelFd, promised, panelSent, light, led>>
    BY <1>1 DEF Panel!Read, Panel!Take, Panel!Create, Panel!Fill, Panel!Rename, Panel!Export, Panel!server,
      Panel!reply, Panel!served, Panel!lamp
  <2> QED
    BY <2>1, <2>2, <2>3 DEF PanelTypes
<1>2. CASE Panel!Open(c)
  <2>1. /\ panelFd' = [panelFd EXCEPT ![c] = panelPath] /\ conn[c] = "open"
        /\ \E x \in {"close", "stat"} : conn' = [conn EXCEPT ![c] = x]
        /\ UNCHANGED <<panelMain, panelStop, panelSlots, backlog, panelSize, panelPath, promised, panelSent, light, led>>
    BY <1>2 DEF Panel!Open, Panel!Goes, Panel!server, Panel!served, Panel!lamp
  <2> QED
    BY <2>1 DEF PanelTypes, Panel!Phases
<1>3. CASE Panel!Stat(c)
  <2>1. /\ promised' = [promised EXCEPT ![c] = panelSize[panelFd[c]]] /\ conn[c] = "stat"
        /\ conn' = [conn EXCEPT ![c] = "send"]
        /\ UNCHANGED <<panelMain, panelStop, panelSlots, backlog, panelSize, panelPath, panelFd, panelSent, light, led>>
    BY <1>3 DEF Panel!Stat, Panel!Length, Panel!Goes, Panel!server, Panel!served, Panel!lamp
  <2>2. panelSize[panelFd[c]] \in Nat
    BY <2>1 DEF PanelTypes, ReplyInv
  <2> QED
    BY <2>1, <2>2 DEF PanelTypes, Panel!Phases
<1>5. CASE Panel!Send(c)
  <2>1. /\ \/ panelSent' = [panelSent EXCEPT ![c] = panelSent[c] + 1] /\ conn' = conn
           \/ panelSent' = panelSent /\ \E x \in {"sent", "short", "close"} : conn' = [conn EXCEPT ![c] = x]
        /\ conn[c] = "send"
        /\ UNCHANGED <<panelMain, panelStop, panelSlots, backlog, panelSize, panelPath, panelFd, promised, light, led>>
    BY <1>5 DEF Panel!Send, Panel!Goes, Panel!server, Panel!served, Panel!lamp
  <2>2. panelSent' \in [Clients -> Nat]
    <3>1. panelSent' = panelSent \/ panelSent' = [panelSent EXCEPT ![c] = panelSent[c] + 1]
      BY <2>1
    <3>2. panelSent \in [Clients -> Nat] /\ panelSent[c] \in Nat
      BY DEF PanelTypes
    <3> QED
      BY <3>1, <3>2
  <2>3. /\ conn' \in [Clients -> Panel!Phases \cup {"away", "backlog", "gone"}]
        /\ \A d \in Clients : conn[d] = "backlog" => conn'[d] = "backlog"
    <3>1. conn' = conn \/ \E x \in Panel!Phases : conn' = [conn EXCEPT ![c] = x]
      BY <2>1 DEF Panel!Phases
    <3>2. conn[c] = "send"
      BY <2>1
    <3> QED
      BY <3>1, <3>2 DEF PanelTypes
  <2> QED
    BY <2>1, <2>2, <2>3 DEF PanelTypes
<1>4. CASE Panel!Done(c)
  BY <1>4 DEF PanelTypes, Panel!Done, Panel!Goes, Panel!Release, Panel!Phases, Panel!served, Panel!lamp
<1> QED
  BY <1>1, <1>2, <1>3, <1>4, <1>5 DEF Panel!Work

\* Every step of the panel keeps its variables within their types.
LEMMA PanelTyped ==
  ASSUME PanelTypes, ReplyInv, Panel!Next \/ UNCHANGED panelVars
  PROVE  PanelTypes'
<1>1. CASE Panel!Main
  <2>0. UNCHANGED <<panelFd, promised, panelSent, panelSize, panelPath, light, led>>
    BY <1>1 DEF Panel!Main, Panel!Acquire, Panel!Accept, Panel!Refuse, Panel!Unserved, Panel!Release,
      Panel!AcceptFails, Panel!Close, Panel!End, Panel!lamp, Panel!reply, Panel!served
  <2>1. CASE Panel!Acquire
    <3>1. panelMain' \in {"close", "accept", "wait"}
      <4>1. CASE panelStop
        BY <2>1, <4>1 DEF Panel!Acquire
      <4>2. CASE ~panelStop /\ panelSlots < MaxWorkers
        BY <2>1, <4>2 DEF Panel!Acquire
      <4>3. CASE ~panelStop /\ ~(panelSlots < MaxWorkers)
        BY <2>1, <4>3 DEF Panel!Acquire
      <4> QED
        BY <4>1, <4>2, <4>3
    <3>2. panelSlots' \in Int /\ UNCHANGED <<panelStop, backlog, conn>>
      BY <2>1 DEF PanelTypes, Panel!Acquire
    <3> QED
      BY <2>0, <3>1, <3>2 DEF PanelTypes
  <2>2. CASE Panel!Accept \/ Panel!Refuse
    <3>1. PICK c \in backlog, x \in {"read", "gone"} :
            backlog' = backlog \ {c} /\ conn' = [conn EXCEPT ![c] = x]
      BY <2>2 DEF Panel!Accept, Panel!Refuse
    <3>2. panelMain' = "top" /\ panelStop' = panelStop /\ panelSlots' \in Int
      BY <2>2 DEF PanelTypes, Panel!Accept, Panel!Refuse, Panel!Unserved, Panel!Release
    <3> QED
      BY <2>0, <3>1, <3>2 DEF PanelTypes, Panel!Phases
  <2>3. CASE Panel!AcceptFails \/ Panel!End
    BY <2>0, <2>3 DEF PanelTypes, Panel!AcceptFails, Panel!Release, Panel!End, Panel!Joined
  <2>4. CASE Panel!Close
    BY <2>0, <2>4 DEF PanelTypes, Panel!Close
  <2> QED
    BY <1>1, <2>1, <2>2, <2>3, <2>4 DEF Panel!Main
<1>2. CASE Panel!Connect \/ Panel!Signal
  BY <1>2 DEF PanelTypes, Panel!Connect, Panel!Signal, Panel!lamp, Panel!server, Panel!reply, Panel!served, Panel!Phases
<1>3. CASE Panel!Publish
  <2>1. /\ panelSize' \in Seq(Nat) /\ panelPath' \in 0..Len(panelSize') /\ Len(panelSize) <= Len(panelSize')
    <3>1. CASE panelPath' = 0 /\ UNCHANGED panelSize
      BY <3>1 DEF PanelTypes
    <3>2. CASE panelSize' = Append(panelSize, Panel!Born(Len(panelSize) + 1)) /\ panelPath' = Len(panelSize')
      BY <3>2 DEF PanelTypes, Panel!Born
    <3>3. CASE panelPath # 0 /\ panelSize' = [panelSize EXCEPT ![panelPath] = @ + 1] /\ UNCHANGED panelPath
      BY <3>3 DEF PanelTypes
    <3> QED
      BY <1>3, <3>1, <3>2, <3>3 DEF Panel!Publish
  <2> QED
    BY <1>3, <2>1 DEF PanelTypes, Panel!Publish, Panel!server, Panel!reply, Panel!lamp
<1>4. CASE Panel!Lamp
  BY <1>4 DEF PanelTypes, Panel!Lamp, Panel!On, Panel!Off, Panel!Put, Panel!LedGoes, Panel!server, Panel!reply, Panel!served
<1>5. CASE UNCHANGED panelVars
  BY <1>5 DEF PanelTypes, panelVars
<1> QED
  BY <1>1, <1>2, <1>3, <1>4, <1>5, WorkTypes DEF Panel!Next

\* A number is 1 or 2 blocks at first.
LEMMA BornBlocks == \A f \in Int : Panel!Born(f) \in 1..2
  BY DEF Panel!Born

\* What is sent of a file is a prefix of the version the worker opened.
LEMMA ReplyKept ==
  ASSUME PanelTypes, ReplyInv, Panel!Next \/ UNCHANGED panelVars
  PROVE  ReplyInv'
<1>1. CASE UNCHANGED <<panelSize, panelFd, promised, panelSent>> /\
           \A c \in Clients : conn'[c] = conn[c] \/ conn'[c] \in {"close", "gone"}
                              \/ (conn'[c] \notin {"stat", "send", "sent", "short"} /\ panelSent[c] = 0)
  BY <1>1 DEF ReplyInv
<1>2. CASE Panel!Main
  <2>1. UNCHANGED <<panelSize, panelFd, promised, panelSent>>
    BY <1>2 DEF Panel!Main, Panel!Acquire, Panel!Accept, Panel!Refuse, Panel!AcceptFails, Panel!Close, Panel!End,
      Panel!reply, Panel!served
  <2>2. \A c \in Clients : conn'[c] = conn[c] \/ conn'[c] = "gone" \/ (conn[c] = "backlog" /\ conn'[c] = "read")
    <3>1. CASE Panel!Accept \/ Panel!Refuse
      BY <3>1 DEF PanelTypes, Panel!Accept, Panel!Refuse
    <3>2. CASE Panel!Close
      BY <3>2 DEF PanelTypes, Panel!Close
    <3>3. CASE Panel!Acquire \/ Panel!AcceptFails \/ Panel!End
      BY <3>3 DEF Panel!Acquire, Panel!AcceptFails, Panel!End
    <3> QED
      BY <1>2, <3>1, <3>2, <3>3 DEF Panel!Main
  <2> QED
    BY <1>1, <2>1, <2>2 DEF ReplyInv
<1>3. CASE Panel!Connect
  BY <1>1, <1>3 DEF Panel!Connect, Panel!reply, Panel!served, ReplyInv, PanelTypes
<1>4. CASE Panel!Signal \/ Panel!Lamp \/ UNCHANGED panelVars
  BY <1>1, <1>4 DEF Panel!Signal, Panel!Lamp, Panel!On, Panel!Off, Panel!Put, Panel!LedGoes, panelVars, Panel!reply,
    Panel!served
<1>5. CASE Panel!Publish
  <2>0. \A f \in 1..Len(panelSize) : panelSize[f] \in Nat /\ Panel!Born(f) \in 1..2 /\ panelSize[f] >= Panel!Born(f)
    BY BornBlocks DEF PanelTypes, ReplyInv
  <2>n. Len(panelSize) \in Nat /\ panelSize \in Seq(Nat) /\ panelPath \in 0..Len(panelSize)
    BY DEF PanelTypes
  <2>1. /\ Len(panelSize') \in Nat
        /\ \A f \in 1..Len(panelSize) : f \in 1..Len(panelSize') /\ panelSize'[f] \in Nat /\ panelSize'[f] >= panelSize[f]
        /\ \A f \in 1..Len(panelSize') : panelSize'[f] >= Panel!Born(f)
    <3>1. CASE UNCHANGED panelSize
      BY <3>1, <2>0, <2>n
    <3>2. CASE panelSize' = Append(panelSize, Panel!Born(Len(panelSize) + 1))
      <4> DEFINE b == Panel!Born(Len(panelSize) + 1)
      <4>1. b \in 1..2
        BY <2>n, BornBlocks
      <4>2. /\ Len(panelSize') = Len(panelSize) + 1 /\ panelSize'[Len(panelSize) + 1] = b
            /\ \A f \in 1..Len(panelSize) : panelSize'[f] = panelSize[f]
        BY <2>n, <3>2, <4>1
      <4> HIDE DEF b
      <4>3. \A f \in 1..Len(panelSize') : f \in 1..Len(panelSize) \/ f = Len(panelSize) + 1
        BY <2>n, <4>2
      <4>4. panelSize'[Len(panelSize) + 1] >= Panel!Born(Len(panelSize) + 1)
        BY <4>1, <4>2 DEF b
      <4>5. ASSUME NEW f \in 1..Len(panelSize')
            PROVE  panelSize'[f] >= Panel!Born(f)
        <5>1. CASE f \in 1..Len(panelSize)
          BY <5>1, <4>2, <2>0
        <5>2. CASE f = Len(panelSize) + 1
          BY <5>2, <4>4
        <5> QED
          BY <4>3, <5>1, <5>2
      <4> QED
        BY <2>n, <2>0, <4>2, <4>5
    <3>3. CASE panelPath # 0 /\ panelSize' = [panelSize EXCEPT ![panelPath] = @ + 1]
      BY <3>3, <2>0, <2>n
    <3> QED
      BY <1>5, <3>1, <3>2, <3>3 DEF Panel!Publish
  <2>2. UNCHANGED <<conn, panelFd, promised, panelSent>>
    BY <1>5 DEF Panel!Publish, Panel!reply
  <2>3. \A c \in Clients : /\ panelFd[c] \in 1..Len(panelSize) => panelFd[c] \in 1..Len(panelSize')
                           /\ \A n \in Nat : n <= panelSize[panelFd[c]] /\ panelFd[c] \in 1..Len(panelSize)
                                => n <= panelSize'[panelFd[c]]
    BY <2>0, <2>1 DEF PanelTypes
  <2> QED
    BY <2>1, <2>2, <2>3, BornBlocks DEF ReplyInv, PanelTypes
<1>6. ASSUME NEW c \in Clients, Panel!Work(c)
      PROVE  ReplyInv'
  <2>1. CASE Panel!Read(c) \/ Panel!Take(c) \/ Panel!Create(c) \/ Panel!Fill(c) \/ Panel!Rename(c) \/ Panel!Export(c)
    <3>1. UNCHANGED <<panelSize, panelFd, promised, panelSent>>
      BY <2>1 DEF Panel!Read, Panel!Take, Panel!Create, Panel!Fill, Panel!Rename, Panel!Export, Panel!reply, Panel!served
    <3>2. /\ conn[c] \in {"read", "lock", "mutex", "create", "fill", "rename", "export"}
          /\ \E x \in {"close", "open", "lock", "mutex", "create", "export", "fill", "rename"} : conn' = [conn EXCEPT ![c] = x]
      BY <2>1, ClientsAssumption DEF Panel!Read, Panel!Routes, Panel!Take, Panel!Create, Panel!Fill, Panel!Rename,
        Panel!Export, Panel!Goes
    <3> QED
      BY <1>1, <3>1, <3>2 DEF ReplyInv, PanelTypes
  <2>2. CASE Panel!Open(c)
    <3>1. /\ panelFd' = [panelFd EXCEPT ![c] = panelPath] /\ conn[c] = "open"
          /\ conn' = [conn EXCEPT ![c] = IF panelPath = 0 THEN "close" ELSE "stat"]
          /\ UNCHANGED <<panelSize, promised, panelSent>>
      BY <2>2 DEF Panel!Open, Panel!Goes, Panel!served
    <3> QED
      BY <3>1 DEF PanelTypes, ReplyInv
  <2>3. CASE Panel!Stat(c)
    <3>1. /\ promised' = [promised EXCEPT ![c] = panelSize[panelFd[c]]] /\ conn[c] = "stat"
          /\ conn' = [conn EXCEPT ![c] = "send"]
          /\ UNCHANGED <<panelSize, panelFd, panelSent>>
      BY <2>3 DEF Panel!Stat, Panel!Length, Panel!Goes, Panel!served
    <3>2. /\ panelFd[c] \in 1..Len(panelSize) /\ panelSent[c] = 0 /\ panelSize[panelFd[c]] \in Nat
          /\ Panel!Born(panelFd[c]) \in 1..2 /\ panelSize[panelFd[c]] >= Panel!Born(panelFd[c])
      <4>1. panelFd[c] \in 1..Len(panelSize) /\ panelSent[c] = 0
        BY <3>1 DEF ReplyInv
      <4>2. panelSize[panelFd[c]] \in Nat /\ panelFd[c] \in Int
        BY <4>1 DEF PanelTypes
      <4> QED
        BY <4>1, <4>2, BornBlocks DEF ReplyInv
    <3> QED
      BY <3>1, <3>2 DEF PanelTypes, ReplyInv
  <2>4. CASE Panel!Send(c)
    <3>1. /\ conn[c] = "send" /\ UNCHANGED <<panelSize, panelFd, promised>>
          /\ \/ conn' = [conn EXCEPT ![c] = "close"] /\ panelSent' = panelSent
             \/ panelSent[c] = promised[c] /\ conn' = [conn EXCEPT ![c] = "sent"] /\ panelSent' = panelSent
             \/ /\ panelSent[c] # promised[c] /\ panelSent[c] = panelSize[panelFd[c]]
                /\ conn' = [conn EXCEPT ![c] = "short"] /\ panelSent' = panelSent
             \/ /\ panelSent[c] # promised[c] /\ conn' = conn
                /\ panelSent' = [panelSent EXCEPT ![c] = panelSent[c] + 1]
      BY <2>4 DEF Panel!Send, Panel!Goes, Panel!served
    <3>2. /\ panelFd[c] \in 1..Len(panelSize) /\ panelSize[panelFd[c]] \in Nat
          /\ promised[c] \in Nat /\ promised[c] <= panelSize[panelFd[c]]
          /\ panelSent[c] \in Nat /\ panelSent[c] <= promised[c]
      BY <3>1, BornBlocks DEF PanelTypes, ReplyInv
    <3> QED
      BY <3>1, <3>2 DEF PanelTypes, ReplyInv
  <2>5. CASE Panel!Done(c)
    <3>1. /\ panelFd' = [panelFd EXCEPT ![c] = 0] /\ promised' = [promised EXCEPT ![c] = 0]
          /\ panelSent' = [panelSent EXCEPT ![c] = 0] /\ conn' = [conn EXCEPT ![c] = "gone"]
          /\ UNCHANGED panelSize
      BY <2>5 DEF Panel!Done, Panel!Goes, Panel!served
    <3> QED
      BY <3>1 DEF PanelTypes, ReplyInv
  <2> QED
    BY <1>6, <2>1, <2>2, <2>3, <2>4, <2>5 DEF Panel!Work
<1> QED
  BY <1>2, <1>3, <1>4, <1>5, <1>6 DEF Panel!Next

\* The lock is held from the first step that it is for to the last.
LEMMA SavingKept ==
  ASSUME PanelTypes, SavingInv, Panel!Next \/ UNCHANGED panelVars
  PROVE  SavingInv'
<1> DEFINE Held == {"create", "fill", "rename", "export"}
<1>n. "none" \notin Clients
  BY ClientsAssumption
<1>1. CASE UNCHANGED Panel!saved /\
           \A c \in Clients : conn'[c] = conn[c] \/ conn'[c] \notin Held
  BY <1>1 DEF SavingInv, Panel!saved
<1>2. CASE Panel!Connect \/ Panel!Signal \/ Panel!Lamp \/ Panel!Publish \/ UNCHANGED panelVars
  <2>1. UNCHANGED Panel!saved
    BY <1>2 DEF Panel!Connect, Panel!Signal, Panel!Lamp, Panel!Publish, Panel!On, Panel!Off, Panel!Put,
      Panel!LedGoes, panelVars, Panel!saved
  <2>2. \A c \in Clients : conn'[c] = conn[c] \/ conn'[c] = "backlog"
    BY <1>2 DEF Panel!Connect, Panel!Signal, Panel!Lamp, Panel!Publish, Panel!On, Panel!Off, Panel!Put,
      Panel!LedGoes, panelVars, PanelTypes
  <2> QED
    BY <1>1, <2>1, <2>2
<1>3. CASE Panel!Main
  <2>1. UNCHANGED Panel!saved
    BY <1>3 DEF Panel!Main, Panel!Acquire, Panel!Accept, Panel!Refuse, Panel!AcceptFails, Panel!Close, Panel!End
  <2>2. \A c \in Clients : conn'[c] = conn[c] \/ conn'[c] \in {"gone", "read"}
    BY <1>3 DEF Panel!Main, Panel!Acquire, Panel!Accept, Panel!Refuse, Panel!AcceptFails, Panel!Close, Panel!End, PanelTypes
  <2> QED
    BY <1>1, <2>1, <2>2
<1>4. ASSUME NEW c \in Clients, Panel!Work(c)
      PROVE  SavingInv'
  <2>1. CASE Panel!Read(c) \/ Panel!Open(c) \/ Panel!Stat(c) \/ Panel!Send(c) \/ Panel!Done(c)
    <3>1. UNCHANGED Panel!saved
      BY <2>1 DEF Panel!Read, Panel!Open, Panel!Stat, Panel!Send, Panel!Done
    <3>2. conn' = conn \/ \E x \in {"close", "open", "lock", "mutex", "stat", "send", "sent", "short", "gone"} :
            conn' = [conn EXCEPT ![c] = x]
      BY <2>1, ClientsAssumption DEF Panel!Read, Panel!Routes, Panel!Open, Panel!Stat, Panel!Send, Panel!Done, Panel!Goes
    <3> QED
      BY <1>1, <3>1, <3>2 DEF PanelTypes
  <2>2. CASE Panel!Take(c)
    <3>1. /\ panelLock = "none" /\ panelLock' = c /\ UNCHANGED <<panelTmp, wifi, whole, accepted>>
          /\ \E x \in {"create", "export"} : conn' = [conn EXCEPT ![c] = x]
      BY <2>2 DEF Panel!Take, Panel!Lock, Panel!Goes, Panel!None
    <3> QED
      BY <3>1, <1>n DEF PanelTypes, SavingInv
  <2>3. CASE Panel!Create(c)
    <3>1. /\ conn[c] = "create" /\ conn' = [conn EXCEPT ![c] = "fill"] /\ panelTmp' = c
          /\ UNCHANGED <<panelLock, wifi, whole, accepted>>
      BY <2>3 DEF Panel!Create, Panel!Goes
    <3> QED
      BY <3>1 DEF PanelTypes, SavingInv
  <2>4. CASE Panel!Fill(c)
    <3>1. /\ conn[c] = "fill" /\ UNCHANGED <<wifi, accepted>>
          /\ \/ conn' = [conn EXCEPT ![c] = "rename"] /\ whole' = whole \cup {c} /\ UNCHANGED <<panelTmp, panelLock>>
             \/ conn' = [conn EXCEPT ![c] = "close"] /\ panelTmp' = "none" /\ panelLock' = "none" /\ UNCHANGED whole
      BY <2>4 DEF Panel!Fill, Panel!Goes, Panel!None
    <3>2. \A d \in Clients : d # c => conn[d] \notin Held
      BY <3>1 DEF SavingInv
    <3> QED
      BY <3>1, <3>2 DEF PanelTypes, SavingInv
  <2>5. CASE Panel!Rename(c)
    <3>1. /\ conn[c] = "rename" /\ conn' = [conn EXCEPT ![c] = "close"] /\ panelTmp' = "none" /\ panelLock' = "none"
          /\ UNCHANGED whole /\ \/ wifi' = panelTmp /\ accepted' = c
                                \/ UNCHANGED <<wifi, accepted>>
      BY <2>5 DEF Panel!Rename, Panel!Goes, Panel!None
    <3>2. \A d \in Clients : d # c => conn[d] \notin Held
      BY <3>1 DEF SavingInv
    <3> QED
      BY <3>1, <3>2 DEF PanelTypes, SavingInv
  <2>6. CASE Panel!Export(c)
    <3>1. /\ conn[c] = "export" /\ conn' = [conn EXCEPT ![c] = "close"] /\ panelLock' = "none"
          /\ UNCHANGED <<panelTmp, wifi, whole, accepted>>
      BY <2>6 DEF Panel!Export, Panel!Goes, Panel!None
    <3>2. \A d \in Clients : d # c => conn[d] \notin Held
      BY <3>1 DEF SavingInv
    <3> QED
      BY <3>1, <3>2 DEF PanelTypes, SavingInv
  <2> QED
    BY <1>4, <2>1, <2>2, <2>3, <2>4, <2>5, <2>6 DEF Panel!Work
<1> QED
  BY <1>2, <1>3, <1>4 DEF Panel!Next

\* The slots are the workers there are and the one the main thread holds.
Busy == {c \in Clients : conn[c] \in Panel!Phases}
Reserved == IF panelMain \in {"accept", "interrupted"} THEN 1 ELSE 0
SlotsInv == panelSlots = Cardinality(Busy) + Reserved /\ panelSlots <= MaxWorkers

\* The module's sizes of sets are those of the theorems about them.
LEMMA PanelSize == ASSUME NEW S PROVE Panel!Cardinality(S) = Cardinality(S)
  BY DEF Panel!Cardinality, Cardinality

\* Every slot that is taken belongs to one worker, to the accept loop or to a connection.
LEMMA SlotsBalanced ==
  ASSUME PanelTypes, ReplyInv, SlotsInv, Panel!Next \/ UNCHANGED panelVars
  PROVE  SlotsInv'
<1> DEFINE B == Busy
           n == Cardinality(Busy)
<1>f. IsFiniteSet(B) /\ n \in Nat
  <2>1. IsFiniteSet(B)
    BY ClientsAssumption, FS_Subset DEF Busy
  <2> QED
    BY <2>1, FS_CardinalityType
<1>b. MaxWorkers \in Nat
  BY ClientsAssumption
<1>1. ASSUME Busy' = Busy, UNCHANGED panelSlots, Reserved' = Reserved
      PROVE  SlotsInv'
  <2>1. Cardinality(Busy') = Cardinality(Busy)
    BY <1>1, Zenon
  <2> QED
    BY <1>1, <2>1 DEF SlotsInv
<1>2. ASSUME Busy' = Busy, panelSlots' - panelSlots = Reserved' - Reserved, panelSlots' <= MaxWorkers
      PROVE  SlotsInv'
  <2>1. Cardinality(Busy') = Cardinality(Busy)
    BY <1>2, Zenon
  <2>2. Reserved \in 0..1 /\ Reserved' \in 0..1 /\ panelSlots \in Int /\ panelSlots' \in Int
    BY PanelTyped DEF Reserved, PanelTypes
  <2> QED
    BY <1>f, <1>2, <2>1, <2>2 DEF SlotsInv
<1>3. CASE Panel!Acquire
  <2>1. Busy' = Busy /\ panelMain = "top"
    BY <1>3 DEF Panel!Acquire, Busy
  <2>2. \/ panelMain' = "accept" /\ panelSlots' = panelSlots + 1 /\ panelSlots < MaxWorkers
        \/ panelMain' \in {"close", "wait"} /\ panelSlots' = panelSlots
    <3>1. CASE ~panelStop /\ panelSlots < MaxWorkers
      BY <1>3, <3>1 DEF Panel!Acquire
    <3>2. CASE panelStop
      BY <1>3, <3>2 DEF Panel!Acquire
    <3>3. CASE ~panelStop /\ ~(panelSlots < MaxWorkers)
      BY <1>3, <3>3 DEF Panel!Acquire
    <3> QED
      BY <3>1, <3>2, <3>3
  <2>3. panelSlots' - panelSlots = Reserved' - Reserved /\ panelSlots' <= MaxWorkers
    BY <1>b, <2>1, <2>2 DEF Reserved, SlotsInv, PanelTypes
  <2> QED
    BY <1>2, <2>1, <2>3
<1>4. CASE Panel!Accept
  <2>1. PICK c \in backlog : conn' = [conn EXCEPT ![c] = "read"]
    BY <1>4 DEF Panel!Accept
  <2>2. c \in Clients /\ conn[c] = "backlog"
    BY DEF PanelTypes
  <2>3. Busy' = Busy \cup {c} /\ c \notin Busy
    BY <2>1, <2>2 DEF PanelTypes, Busy, Panel!Phases
  <2>4. Cardinality(Busy \cup {c}) = n + 1
    BY <1>f, <2>3, FS_AddElement
  <2>5. Cardinality(Busy') = n + 1
    BY <2>3, <2>4, Zenon
  <2>6. Reserved = 1 /\ Reserved' = 0 /\ panelSlots' = panelSlots
    BY <1>4 DEF Panel!Accept, Reserved
  <2> QED
    BY <1>f, <2>5, <2>6 DEF SlotsInv
<1>5. CASE Panel!Refuse
  <2>1. PICK c \in backlog : conn' = [conn EXCEPT ![c] = "gone"]
    BY <1>5 DEF Panel!Refuse
  <2>2. c \in Clients /\ conn[c] = "backlog"
    BY DEF PanelTypes
  <2>3. Busy' = Busy
    BY <2>1, <2>2 DEF PanelTypes, Busy, Panel!Phases
  <2>4. Reserved = 1 /\ Reserved' = 0 /\ panelSlots' = panelSlots - 1
    BY <1>5 DEF Panel!Refuse, Panel!Unserved, Panel!Release, Reserved
  <2> QED
    BY <1>b, <1>2, <2>3, <2>4 DEF SlotsInv, PanelTypes
<1>6. CASE Panel!AcceptFails
  <2>1. Busy' = Busy
    BY <1>6 DEF Panel!AcceptFails, Busy
  <2>2. Reserved = 1 /\ Reserved' = 0 /\ panelSlots' = panelSlots - 1
    BY <1>6 DEF Panel!AcceptFails, Panel!Release, Reserved
  <2> QED
    BY <1>b, <1>2, <2>1, <2>2 DEF SlotsInv, PanelTypes
<1>7. CASE Panel!Close
  <2>1. Busy' = Busy
    BY <1>7 DEF Panel!Close, Busy, Panel!Phases, PanelTypes
  <2>2. Reserved' = Reserved /\ UNCHANGED panelSlots
    BY <1>7 DEF Panel!Close, Reserved
  <2> QED
    BY <1>1, <2>1, <2>2
<1>8. CASE Panel!End \/ Panel!Signal \/ Panel!Publish \/ Panel!Lamp \/ UNCHANGED panelVars
  <2>1. UNCHANGED conn
    BY <1>8 DEF Panel!End, Panel!Signal, Panel!Publish, Panel!Lamp, Panel!On, Panel!Off, Panel!Put, Panel!LedGoes, panelVars
  <2>2. Busy' = Busy
    BY <2>1 DEF Busy
  <2>3. Reserved' = Reserved /\ UNCHANGED panelSlots
    BY <1>8 DEF Panel!End, Panel!Joined, Panel!Signal, Panel!Publish, Panel!Lamp, Panel!On, Panel!Off, Panel!Put,
      Panel!LedGoes, panelVars, Panel!server, Reserved
  <2> QED
    BY <1>1, <2>2, <2>3
<1>9. CASE Panel!Connect
  <2>1. PICK c \in Clients : conn[c] = "away" /\ conn' = [conn EXCEPT ![c] = "backlog"]
    BY <1>9 DEF Panel!Connect
  <2>2. Busy' = Busy
    BY <2>1 DEF Busy, Panel!Phases, PanelTypes
  <2>3. Reserved' = Reserved /\ UNCHANGED panelSlots
    BY <1>9 DEF Panel!Connect, Reserved
  <2> QED
    BY <1>1, <2>2, <2>3
<1>10. ASSUME NEW c \in Clients, Panel!Work(c)
       PROVE  SlotsInv'
  <2>1. CASE Panel!Done(c)
    <3>1. conn[c] \in {"close", "sent", "short"} /\ conn' = [conn EXCEPT ![c] = "gone"]
      BY <2>1 DEF Panel!Done, Panel!Goes
    <3>2. Busy' = Busy \ {c} /\ c \in Busy
      BY <3>1 DEF Busy, Panel!Phases, PanelTypes
    <3>3. Cardinality(Busy \ {c}) = n - 1
      BY <1>f, <3>2, FS_RemoveElement
    <3>4. Cardinality(Busy') = n - 1
      BY <3>2, <3>3, Zenon
    <3>5. Reserved' = Reserved /\ panelSlots' = panelSlots - 1
      BY <2>1 DEF Panel!Done, Panel!Release, Reserved, PanelTypes
    <3>6. Reserved \in 0..1 /\ panelSlots \in Int
      BY DEF Reserved, PanelTypes
    <3> QED
      BY <1>b, <1>f, <3>4, <3>5, <3>6 DEF SlotsInv
  <2>2. CASE ~Panel!Done(c)
    <3>1. conn' = conn \/ (conn[c] \in Panel!Phases /\ \E x \in Panel!Phases : conn' = [conn EXCEPT ![c] = x])
      BY <1>10, <2>2, ClientsAssumption DEF Panel!Work, Panel!Read, Panel!Routes, Panel!Open, Panel!Stat, Panel!Send,
        Panel!Take, Panel!Create, Panel!Fill, Panel!Rename, Panel!Export, Panel!Goes, Panel!Phases
    <3>2. Busy' = Busy
      BY <3>1 DEF Busy, PanelTypes
    <3>3. Reserved' = Reserved /\ UNCHANGED panelSlots
      BY <1>10, <2>2 DEF Panel!Work, Panel!Read, Panel!Open, Panel!Stat, Panel!Send, Panel!Take, Panel!Create,
        Panel!Fill, Panel!Rename, Panel!Export, Panel!server, Reserved
    <3> QED
      BY <1>1, <3>2, <3>3
  <2> QED
    BY <2>1, <2>2
<1> QED
  BY <1>3, <1>4, <1>5, <1>6, <1>7, <1>8, <1>9, <1>10 DEF Panel!Next, Panel!Main

\* What holds of the panel in every state.
PanelInv == PanelTypes /\ ReplyInv /\ SavingInv /\ SlotsInv

\* The panel's invariant holds whenever the panel moves.
LEMMA PanelHolds == PartsSpec => [](part = "panel" => PanelInv)
<1>1. PartsInit => PanelInv
  <2> SUFFICES ASSUME Panel!Init PROVE PanelInv
    BY DEF PartsInit
  <2>1. Panel!Born(1) \in 1..2
    BY BornBlocks
  <2>b. panelSize \in Seq(Nat) /\ Len(panelSize) = 1 /\ panelSize[1] = Panel!Born(1)
    <3>1. panelSize = <<Panel!Born(1)>>
      BY DEF Panel!Init
    <3>2. \A b \in 1..2 : <<b>> \in Seq(Nat) /\ Len(<<b>>) = 1 /\ <<b>>[1] = b
      OBVIOUS
    <3> QED
      BY <2>1, <3>1, <3>2
  <2>f. conn = [c \in Clients |-> "away"] /\ panelFd = [c \in Clients |-> 0] /\ promised = panelFd /\ panelSent = panelFd
    BY DEF Panel!Init
  <2>2. PanelTypes
    <3>1. panelPath \in 0..Len(panelSize) /\ light \in {"look", "lit", "done"}
      <4>1. panelPath = 1 /\ light \in {"look", "done"}
        BY DEF Panel!Init
      <4> QED
        BY <2>b, <4>1
    <3>2. panelMain = "top" /\ panelStop \in BOOLEAN /\ panelSlots \in Int /\ led \in BOOLEAN
      <4>1. panelMain = "top" /\ panelStop = FALSE /\ led = FALSE /\ panelSlots = 0
        BY Zenon DEF Panel!Init
      <4>2. panelSlots \in Int
        BY <4>1
      <4> QED
        BY <4>1, <4>2, Zenon
    <3>5. \A c \in backlog : c \in Clients /\ conn[c] = "backlog"
      BY DEF Panel!Init
    <3>3. conn \in [Clients -> Panel!Phases \cup {"away", "backlog", "gone"}]
      BY <2>f
    <3>4. /\ panelFd \in [Clients -> Nat] /\ promised \in [Clients -> Nat] /\ panelSent \in [Clients -> Nat]
          /\ \A c \in Clients : panelFd[c] <= Len(panelSize)
      BY <2>f, <2>b
    <3> QED
      BY <2>b, <3>1, <3>2, <3>3, <3>4, <3>5, Zenon DEF PanelTypes
  <2>3. ReplyInv
    <3>1. \A f \in 1..Len(panelSize) : panelSize[f] >= Panel!Born(f)
      BY <2>1, <2>b
    <3> QED
      BY <2>f, <3>1 DEF ReplyInv
  <2>4. SavingInv
    BY DEF Panel!Init, Panel!None, SavingInv
  <2>5. Busy = {}
    BY DEF Panel!Init, Busy, Panel!Phases
  <2>6. Cardinality(Busy) = 0
    BY <2>5, FS_EmptySet, Zenon
  <2>7. SlotsInv
    BY <2>6, ClientsAssumption DEF Panel!Init, SlotsInv, Reserved
  <2> QED
    BY <2>2, <2>3, <2>4, <2>7 DEF PanelInv
<1>2. (part = "panel" => PanelInv) /\ [PartsNext]_<<part, moving>> => (part = "panel" => PanelInv)'
  <2> SUFFICES ASSUME part = "panel" => PanelInv, [PartsNext]_<<part, moving>>, part' = "panel"
               PROVE  PanelInv'
    OBVIOUS
  <2>1. part = "panel"
    BY DEF PartsNext
  <2> QED
    BY <2>1, PanelMoves, PanelTyped, ReplyKept, SavingKept, SlotsBalanced DEF PanelInv
<1> QED
  BY <1>1, <1>2, PTL DEF PartsSpec

\* No way out of the accept loop or of a worker keeps a slot or gives it back twice.
THEOREM SlotsComeFree == PartsSpec => [](part = "panel" => Panel!SlotsAreKept)
<1>1. PanelInv => Panel!SlotsAreKept
  BY PanelSize DEF PanelInv, SlotsInv, Busy, Reserved, Panel!SlotsAreKept
<1> QED
  BY <1>1, PanelHolds, PTL

\* The panel sends whole files: what it promised and not what the file became.
LEMMA PanelReplies == PanelInv => Panel!ReplyIsWhole
  BY DEF PanelInv, ReplyInv, Panel!ReplyIsWhole

\* A configuration the panel answered with 202 is in the file.
LEMMA PanelSaves == PanelInv => Panel!AcceptedIsSaved
  BY DEF PanelInv, SavingInv, Panel!AcceptedIsSaved, Panel!None

\* The panel's variables keep their types.
LEMMA PanelTypesHold == PanelInv => Panel!TypeOK
<1>1. PanelInv => panelSlots \in 0..MaxWorkers
  <2>1. IsFiniteSet(Busy) /\ Cardinality(Busy) \in Nat
    <3>1. IsFiniteSet(Busy)
      BY ClientsAssumption, FS_Subset DEF Busy
    <3> QED
      BY <3>1, FS_CardinalityType
  <2> QED
    BY <2>1, ClientsAssumption DEF PanelInv, SlotsInv, Reserved, PanelTypes
<1> QED
  BY <1>1 DEF PanelInv, PanelTypes, SavingInv, Panel!TypeOK, Panel!None

-----------------------------------------------------------------------------
(* The recorded samples: KwsCapture. *)

\* A step of the model is one of the capture or none, when it moves.
LEMMA CaptureMoves ==
  ASSUME [PartsNext]_<<part, moving>>, part = "capture"
  PROVE  part' = "capture" /\ (Capture!Next \/ UNCHANGED captureVars)
<1>1. CASE PartsNext
  BY <1>1 DEF PartsNext
<1>2. CASE UNCHANGED <<part, moving>>
  BY <1>2 DEF moving
<1> QED
  BY <1>1, <1>2

\* The steps of a take: before it is published, and until its pair is complete.
Unpublished == {"ready", "record", "choose", "meta", "check", "publish"}
Incomplete == Unpublished \cup {"describe", "rollback"}
Recorded == Unpublished \ {"ready"}
CardTypes ==
  /\ pcm \in [TakeNumbers -> Nat] /\ kwsJson \in [TakeNumbers -> Nat]
  /\ pcmPart \in [Pids \X TakeNumbers -> Nat] /\ jsonPart \in [Pids \X TakeNumbers -> Nat]
  /\ kwsPc \in Incomplete \cup {"off", "prepare", "look"}
  /\ pid \in Pids /\ take \in TakeNumbers /\ kwsRec \in Nat /\ records \in Nat /\ 0 \notin kwsSaved
\* A description under a temporary name has its sound under one, or the sound is
\* published already.
PartsInv == \A p \in Pids, t \in TakeNumbers : jsonPart[<<p, t>>] # 0 => pcmPart[<<p, t>>] # 0 \/ pcm[t] # 0
\* What a batch has of its take at every step; no batch before it has left a
\* description that waits for the sound of this take.
TakeInv ==
  /\ kwsPc \in Unpublished => pcm[take] = 0
  /\ kwsPc \in Incomplete =>
       /\ kwsJson[take] = 0
       /\ \A p \in Pids \ {pid} : jsonPart[<<p, take>>] # 0 => pcmPart[<<p, take>>] # 0
  /\ kwsPc \in {"record", "choose", "meta"} => jsonPart[<<pid, take>>] = 0
  /\ kwsPc \in Recorded => pcmPart[<<pid, take>>] = kwsRec
  /\ kwsPc \in {"check", "publish", "describe"} => jsonPart[<<pid, take>>] = kwsRec
  /\ kwsPc \in Recorded \cup {"describe"} => kwsRec # 0
  /\ kwsPc = "describe" => pcm[take] = kwsRec
CaptureInv == CardTypes /\ PartsInv /\ TakeInv /\ Capture!CorpusIsWhole

\* Every step of the capture, and every cut, keeps its invariant.
LEMMA CaptureKept ==
  ASSUME CaptureInv, Capture!Next \/ UNCHANGED captureVars
  PROVE  CaptureInv'
<1> USE DEF Capture!None, Capture!Part
<1> DEFINE Goal == CaptureInv'
           x == <<pid, take>>
<1>x. x \in Pids \X TakeNumbers
  BY DEF CaptureInv, CardTypes
\* The card stays, and so does the take or the batch looks for another one.
<1>1. ASSUME UNCHANGED Capture!card, UNCHANGED <<pid, kwsRec, records, kwsSaved>>,
             take' \in TakeNumbers,
             \/ kwsPc' \in {"off", "prepare", "look"}
             \/ take' = take /\ kwsPc' = kwsPc
      PROVE  Goal
  BY <1>1 DEF CaptureInv, CardTypes, PartsInv, TakeInv, Capture!CorpusIsWhole, Capture!card, Unpublished, Incomplete, Recorded
<1>2. CASE UNCHANGED captureVars
  BY <1>2, <1>1 DEF captureVars, Capture!card, CaptureInv, CardTypes
<1>3. CASE Capture!Prepare
  BY <1>3 DEF Capture!Prepare, Capture!Goes, Capture!counters, CaptureInv, CardTypes, PartsInv, TakeInv, Capture!CorpusIsWhole,
    Capture!card, Unpublished, Incomplete, Recorded
<1>n. ASSUME NEW then, Capture!NextTake(then)
      PROVE  take' \in TakeNumbers /\ kwsPc' \in {then, "off"}
  BY <1>n DEF Capture!NextTake, CaptureInv, CardTypes
<1>4. CASE Capture!NotReady \/ Capture!First \/ Capture!Quit \/ Capture!Signal
  <2>1. take' \in TakeNumbers
    BY <1>4 DEF Capture!NotReady, Capture!First, Capture!Quit, Capture!Signal, Capture!Unused, Capture!batch, CaptureInv, CardTypes
  <2>2. UNCHANGED Capture!card /\ UNCHANGED <<pid, kwsRec, records, kwsSaved>>
    BY <1>4 DEF Capture!NotReady, Capture!First, Capture!Quit, Capture!Signal, Capture!batch, Capture!counters
  <2>3. kwsPc' \in {"off", "prepare", "look"} \/ (take' = take /\ kwsPc' = kwsPc)
    BY <1>4 DEF Capture!NotReady, Capture!First, Capture!Quit, Capture!Signal, Capture!Goes, Capture!batch
  <2> QED
    BY <2>1, <2>2, <2>3, <1>1
<1>5. CASE Capture!PowerCut
  BY <1>5, <1>1 DEF Capture!PowerCut, Capture!batch, CaptureInv, CardTypes
<1>6. CASE Capture!Look
  <2>1. UNCHANGED Capture!card /\ UNCHANGED <<pid, kwsRec, records, kwsSaved>>
    BY <1>6 DEF Capture!Look, Capture!counters
  <2>2. CASE kwsPc' \in {"off", "look"}
    BY <1>6, <2>1, <2>2, <1>1, <1>n DEF Capture!Look, CaptureInv, CardTypes
  <2>3. CASE kwsPc' \notin {"off", "look"}
    <3>1. kwsPc' = "ready" /\ take' = take /\ pcm[take] = 0 /\ kwsJson[take] = 0
      BY <1>6, <2>3, <1>n DEF Capture!Look, Capture!Published
    <3> QED
      BY <2>1, <3>1 DEF CaptureInv, CardTypes, PartsInv, TakeInv, Capture!CorpusIsWhole, Capture!card, Unpublished, Incomplete, Recorded
  <2> QED
    BY <2>2, <2>3
<1>7. CASE Capture!Reserve
  <2>1. UNCHANGED <<pid, kwsSaved>>
    BY <1>7 DEF Capture!Reserve
  <2>2. CASE UNCHANGED <<Capture!card, kwsRec, records>>
    <3>1. kwsPc' \in {"off", "look"} /\ take' \in TakeNumbers
      BY <1>7, <2>2, <1>n, <1>x DEF Capture!Reserve, CaptureInv, CardTypes, Capture!card
    <3> QED
      BY <2>1, <2>2, <3>1, <1>1
  <2>3. CASE ~UNCHANGED <<Capture!card, kwsRec, records>>
    <3>1. /\ kwsPc = "ready" /\ kwsPc' = "record" /\ records' = records + 1 /\ kwsRec' = records + 1 /\ pcmPart[x] = 0
          /\ pcmPart' = [pcmPart EXCEPT ![x] = records + 1] /\ UNCHANGED <<pcm, kwsJson, jsonPart, take>>
      BY <1>7, <2>3 DEF Capture!Reserve
    <3>2. jsonPart[x] = 0
      BY <3>1, <1>x DEF CaptureInv, CardTypes, PartsInv, TakeInv, Unpublished
    <3>3. CardTypes'
      BY <2>1, <3>1, <1>x DEF CaptureInv, CardTypes, Incomplete, Unpublished
    <3>4. PartsInv'
      BY <3>1, <1>x DEF CaptureInv, CardTypes, PartsInv
    <3>5. TakeInv'
      BY <2>1, <3>1, <3>2, <1>x DEF CaptureInv, CardTypes, TakeInv, Unpublished, Incomplete, Recorded
    <3> QED
      BY <2>1, <3>1, <3>3, <3>4, <3>5 DEF CaptureInv, Capture!CorpusIsWhole
  <2> QED
    BY <2>2, <2>3
\* A step of the take that leaves the card alone.
<1>8. CASE Capture!Record \/ Capture!Keep
  BY <1>8 DEF Capture!Record, Capture!Keep, Capture!Goes, Capture!card, Capture!batch, Capture!counters,
    CaptureInv, CardTypes, PartsInv, TakeInv, Capture!CorpusIsWhole, Unpublished, Incomplete, Recorded
\* The temporary sound goes, and there is no description that needs it.
<1>9. ASSUME kwsPc \in {"record", "choose", "meta"}, Capture!Drop, jsonPart[x] = 0,
             UNCHANGED <<pid, kwsRec, records, kwsSaved>>, take' \in TakeNumbers, kwsPc' \in {"off", "look"}
      PROVE  Goal
  <2>1. pcmPart' = [pcmPart EXCEPT ![x] = 0] /\ UNCHANGED <<pcm, kwsJson, jsonPart>>
    BY <1>9 DEF Capture!Drop, Capture!Unlinked
  <2>2. CardTypes'
    BY <1>9, <2>1 DEF CaptureInv, CardTypes
  <2>3. PartsInv'
    BY <1>9, <2>1, <1>x DEF CaptureInv, CardTypes, PartsInv
  <2> QED
    BY <1>9, <2>1, <2>2, <2>3 DEF CaptureInv, TakeInv, Capture!CorpusIsWhole, Incomplete, Unpublished, Recorded
<1>10. CASE Capture!Discard
  <2>1. kwsPc \in {"record", "choose"} /\ kwsPc' \in {"off", "look"} /\ Capture!Drop
        /\ UNCHANGED <<pid, take, kwsRec, records, kwsSaved>>
    BY <1>10 DEF Capture!Discard, Capture!Goes, Capture!batch, Capture!counters
  <2> QED
    BY <2>1, <1>9 DEF CaptureInv, CardTypes, TakeInv
<1>11. CASE Capture!WriteMeta
  <2>1. kwsPc = "meta" /\ jsonPart[x] = 0 /\ UNCHANGED <<pid, kwsRec, records, kwsSaved>>
    BY <1>11 DEF Capture!WriteMeta, Capture!counters, CaptureInv, TakeInv
  <2>2. CASE Capture!Drop
    <3>1. take' \in TakeNumbers /\ kwsPc' \in {"off", "look"}
      BY <1>11, <2>1, <2>2 DEF Capture!WriteMeta, Capture!Drop, Capture!Sidecar, CaptureInv, CardTypes, Unpublished, Capture!Unlinked, TakeInv, Recorded
    <3> QED
      BY <2>1, <2>2, <3>1, <1>9
  <2>3. CASE ~Capture!Drop
    <3>1. kwsPc' = "check" /\ jsonPart' = [jsonPart EXCEPT ![x] = kwsRec] /\ UNCHANGED <<take, pcm, kwsJson, pcmPart>>
      BY <1>11, <2>1, <2>3 DEF Capture!WriteMeta, Capture!Sidecar
    <3>2. CardTypes'
      BY <2>1, <3>1 DEF CaptureInv, CardTypes, Incomplete, Unpublished
    <3>3. PartsInv'
      BY <2>1, <3>1, <1>x DEF CaptureInv, CardTypes, PartsInv, TakeInv, Recorded, Unpublished
    <3>4. TakeInv'
      BY <2>1, <3>1, <1>x DEF CaptureInv, CardTypes, TakeInv, Unpublished, Incomplete, Recorded
    <3> QED
      BY <2>1, <3>1, <3>2, <3>3, <3>4 DEF CaptureInv, Capture!CorpusIsWhole
  <2> QED
    BY <2>2, <2>3
<1>12. CASE Capture!Check
  <2>1. kwsPc = "check" /\ ~Capture!Published
    BY <1>12, <1>x DEF Capture!Check, Capture!Published, CaptureInv, CardTypes, TakeInv, Unpublished, Incomplete
  <2>2. kwsPc' = "publish" /\ UNCHANGED <<pcm, kwsJson, pcmPart, jsonPart, take, pid, kwsRec, records, kwsSaved>>
    BY <1>12, <2>1 DEF Capture!Check, Capture!counters
  <2> QED
    BY <2>1, <2>2 DEF CaptureInv, CardTypes, PartsInv, TakeInv, Capture!CorpusIsWhole, Unpublished, Incomplete, Recorded
<1>13. CASE Capture!PublishPcm
  <2>1. kwsPc = "publish" /\ UNCHANGED <<pid, take, kwsRec, records, kwsSaved, kwsJson>>
        /\ pcmPart' = [pcmPart EXCEPT ![x] = 0]
    BY <1>13 DEF Capture!PublishPcm, Capture!CleanUp, Capture!Unlinked, Capture!batch, Capture!counters
  <2>0. pcmPart[x] = kwsRec /\ jsonPart[x] = kwsRec /\ kwsRec # 0 /\ pcm[take] = 0 /\ kwsJson[take] = 0
    BY <2>1 DEF CaptureInv, TakeInv, Recorded, Unpublished, Incomplete
  <2>2. CASE kwsPc' = "describe"
    <3>1. pcm' = [pcm EXCEPT ![take] = kwsRec] /\ UNCHANGED jsonPart
      BY <1>13, <2>2, <2>0 DEF Capture!PublishPcm
    <3>2. CardTypes'
      BY <2>1, <2>2, <3>1 DEF CaptureInv, CardTypes, Incomplete
    <3>3. PartsInv'
      BY <2>1, <3>1, <2>0, <1>x DEF CaptureInv, CardTypes, PartsInv
    <3>4. TakeInv'
      BY <2>0, <2>1, <2>2, <3>1, <1>x DEF CaptureInv, CardTypes, TakeInv, Incomplete, Unpublished, Recorded
    <3>5. Capture!CorpusIsWhole'
      BY <2>0, <2>1, <3>1 DEF CaptureInv, CardTypes, Capture!CorpusIsWhole
    <3> QED
      BY <3>2, <3>3, <3>4, <3>5 DEF CaptureInv
  <2>3. CASE kwsPc' # "describe"
    <3>1. kwsPc' = "off" /\ jsonPart' = [jsonPart EXCEPT ![x] = 0] /\ UNCHANGED pcm
      BY <1>13, <2>3 DEF Capture!PublishPcm, Capture!CleanUp, Capture!Unlinked
    <3> QED
      BY <2>1, <3>1, <1>x DEF CaptureInv, CardTypes, PartsInv, TakeInv, Capture!CorpusIsWhole, Incomplete, Unpublished, Recorded
  <2> QED
    BY <2>2, <2>3
<1>14. CASE Capture!PublishJson
  <2>1. kwsPc = "describe" /\ UNCHANGED <<pcm, pcmPart, pid, kwsRec, records>>
    BY <1>14 DEF Capture!PublishJson
  <2>0. jsonPart[x] = kwsRec /\ kwsRec # 0 /\ pcm[take] = kwsRec /\ kwsJson[take] = 0
    BY <2>1 DEF CaptureInv, TakeInv, Recorded, Unpublished, Incomplete
  <2>2. CASE kwsPc' = "rollback"
    <3>1. UNCHANGED <<take, kwsJson, jsonPart, kwsSaved>>
      BY <1>14, <2>2, <1>n DEF Capture!PublishJson
    <3> QED
      BY <2>1, <2>2, <3>1 DEF CaptureInv, CardTypes, PartsInv, TakeInv, Capture!CorpusIsWhole, Incomplete, Unpublished, Recorded
  <2>3. CASE kwsPc' # "rollback"
    <3>1. /\ kwsJson' = [kwsJson EXCEPT ![take] = kwsRec] /\ jsonPart' = [jsonPart EXCEPT ![x] = 0]
          /\ kwsSaved' = kwsSaved \cup {kwsRec} /\ take' \in TakeNumbers /\ kwsPc' \in {"look", "off"}
      BY <1>14, <2>3, <2>0, <1>n DEF Capture!PublishJson, Capture!Unlinked
    <3>2. CardTypes'
      BY <2>0, <2>1, <3>1 DEF CaptureInv, CardTypes
    <3>3. PartsInv'
      BY <2>1, <3>1, <1>x DEF CaptureInv, CardTypes, PartsInv
    <3>4. TakeInv'
      BY <3>1 DEF TakeInv, Incomplete, Unpublished, Recorded
    <3>5. Capture!CorpusIsWhole'
      BY <2>0, <2>1, <3>1 DEF CaptureInv, CardTypes, Capture!CorpusIsWhole
    <3> QED
      BY <3>2, <3>3, <3>4, <3>5 DEF CaptureInv
  <2> QED
    BY <2>2, <2>3
<1>15. CASE Capture!Rollback
  <2>1. /\ kwsPc = "rollback" /\ kwsPc' = "off" /\ UNCHANGED <<kwsJson, pid, take, kwsRec, records, kwsSaved>>
        /\ pcmPart' = [pcmPart EXCEPT ![x] = 0] /\ jsonPart' = [jsonPart EXCEPT ![x] = 0]
    BY <1>15 DEF Capture!Rollback, Capture!Goes, Capture!CleanUp, Capture!Unlinked, Capture!batch, Capture!counters
  <2>2. pcm' = pcm \/ pcm' = [pcm EXCEPT ![take] = 0]
    BY <1>15 DEF Capture!Rollback
  <2>3. kwsJson[take] = 0 /\ \A p \in Pids \ {pid} : jsonPart[<<p, take>>] # 0 => pcmPart[<<p, take>>] # 0
    BY <2>1 DEF CaptureInv, TakeInv, Incomplete
  <2>4. CardTypes'
    BY <2>1, <2>2 DEF CaptureInv, CardTypes
  <2>5. PartsInv'
    BY <2>1, <2>2, <2>3, <1>x DEF CaptureInv, CardTypes, PartsInv
  <2>6. TakeInv'
    BY <2>1 DEF TakeInv, Incomplete, Unpublished, Recorded
  <2>7. Capture!CorpusIsWhole'
    BY <2>1, <2>2, <2>3 DEF CaptureInv, CardTypes, Capture!CorpusIsWhole
  <2> QED
    BY <2>4, <2>5, <2>6, <2>7 DEF CaptureInv
<1> QED
  BY <1>2, <1>3, <1>4, <1>5, <1>6, <1>7, <1>8, <1>10, <1>11, <1>12, <1>13, <1>14, <1>15 DEF Capture!Next

\* The capture's invariant holds whenever the capture moves.
LEMMA CaptureHolds == PartsSpec => [](part = "capture" => CaptureInv)
<1>1. PartsInit => CaptureInv
  BY DEF PartsInit, Capture!Init, Capture!None, CaptureInv, CardTypes, PartsInv, TakeInv, Capture!CorpusIsWhole,
    Incomplete, Unpublished, Recorded
<1>2. (part = "capture" => CaptureInv) /\ [PartsNext]_<<part, moving>> => (part = "capture" => CaptureInv)'
  <2> SUFFICES ASSUME part = "capture" => CaptureInv, [PartsNext]_<<part, moving>>, part' = "capture"
               PROVE  CaptureInv'
    OBVIOUS
  <2>1. part = "capture"
    BY DEF PartsNext, moving
  <2> QED
    BY <2>1, CaptureMoves, CaptureKept
<1> QED
  BY <1>1, <1>2, PTL DEF PartsSpec

\* A take that was said to be kept is on disk, and the corpus holds whole takes.
LEMMA CaptureKeeps == CaptureInv => Capture!KeptIsSaved /\ Capture!CorpusIsWhole
  BY DEF CaptureInv, TakeInv, Capture!KeptIsSaved, Capture!None, Capture!Part, Capture!Published, Unpublished, Incomplete

-----------------------------------------------------------------------------
(* The network the assistant joins: AgentMain. *)

\* A step of the model is one of the assistant's life or none, when it moves.
LEMMA LifeMoves ==
  ASSUME [PartsNext]_<<part, moving>>, part = "main"
  PROVE  part' = "main" /\ (Life!Next \/ UNCHANGED mainVars)
<1>1. CASE PartsNext
  BY <1>1 DEF PartsNext
<1>2. CASE UNCHANGED <<part, moving>>
  BY <1>2 DEF moving
<1> QED
  BY <1>1, <1>2

Ssids == {g.ssid : g \in NetworksGiven} \cup {""}
Passwords == {g.psk : g \in NetworksGiven} \cup {""}
Network == [ssid : Ssids, psk : Passwords]
LifeTypes ==
  /\ wish \in [Life!Callers -> Network] /\ credentials \in Network /\ radio \in Network
  /\ joining \in [Life!Callers -> {"idle", "read", "psk", "essid", "status", "ssid", "pass", "wait"}]
  /\ mixed \in BOOLEAN
\* How far a caller is says what the radio was told and what is saved of its network.
Step(c) ==
  /\ joining[c] = "read" => credentials \in NetworksGiven /\ wish[c].ssid = credentials.ssid
  /\ joining[c] \notin {"idle", "read"} => wish[c] \in NetworksGiven
  /\ joining[c] \notin {"idle", "read", "psk"} => radio.psk = wish[c].psk
  /\ joining[c] \notin {"idle", "read", "psk", "essid"} => radio.ssid = wish[c].ssid
  /\ joining[c] \in {"pass", "wait"} => credentials.ssid = wish[c].ssid
  /\ joining[c] = "wait" => credentials.psk = wish[c].psk
\* At most one caller is on its way, and what is saved is a network that was given.
JoinInv ==
  /\ \A c, d \in Life!Callers : c # d => joining[c] = "idle" \/ joining[d] = "idle"
  /\ (\A c \in Life!Callers : joining[c] # "pass") => credentials \in NetworksGiven \cup {Life!Unset}
  /\ \A c \in Life!Callers : Step(c)
LifeInv == LifeTypes /\ (~mixed => JoinInv)

\* Two networks with the same name and key are the same.
LEMMA SameNetwork ==
  ASSUME NEW a \in Network, NEW b \in Network, a.ssid = b.ssid, a.psk = b.psk
  PROVE  a = b
  BY DEF Network

\* A network with another name is a network.
LEMMA WithName ==
  ASSUME NEW a \in Network, NEW b \in Ssids
  PROVE  /\ [a EXCEPT !.ssid = b] \in Network
         /\ [a EXCEPT !.ssid = b].ssid = b /\ [a EXCEPT !.ssid = b].psk = a.psk
  BY DEF Network

\* A network with another key is a network.
LEMMA WithKey ==
  ASSUME NEW a \in Network, NEW b \in Passwords
  PROVE  /\ [a EXCEPT !.psk = b] \in Network
         /\ [a EXCEPT !.psk = b].psk = b /\ [a EXCEPT !.psk = b].ssid = a.ssid
  BY DEF Network

\* The name and the key of a network.
LEMMA NameAndKey == ASSUME NEW a \in Network PROVE a.ssid \in Ssids /\ a.psk \in Passwords
  BY DEF Network

\* The networks that are given have a name and a key, and the unset one has no name.
LEMMA GivenNetworks ==
  /\ Life!Unset \in Network /\ Life!Unset.ssid = ""
  /\ \A g \in NetworksGiven : g \in Network /\ g.ssid # "" /\ g.psk # ""
<1>1. Life!Unset \in Network /\ Life!Unset.ssid = ""
  BY DEF Network, Life!Unset, Ssids, Passwords
<1>2. ASSUME NEW g \in NetworksGiven PROVE g \in Network
  <2>1. g = [ssid |-> g.ssid, psk |-> g.psk] /\ g.ssid \in Ssids /\ g.psk \in Passwords
    BY LifeAssumption DEF Ssids, Passwords
  <2> QED
    BY <2>1 DEF Network
<1> QED
  BY <1>1, <1>2, LifeAssumption

\* A step of one caller, when no other is on its way.
LEMMA JoinKept ==
  ASSUME LifeTypes, LifeTypes', LifeInv, NEW c \in Life!Callers, NEW from, NEW goal, Life!Joins(c, from, goal),
         from = "idle" => mixed' = (mixed \/ ~Life!Alone(c)),
         mixed => mixed',
         ~mixed /\ ~mixed' /\ Step(c) => Step(c)',
         \/ goal = "pass"
         \/ credentials' = credentials /\ from # "pass"
         \/ credentials' \in NetworksGiven \cup {Life!Unset}
         \/ mixed'
  PROVE  LifeInv'
<1> SUFFICES ASSUME ~mixed' PROVE JoinInv'
  BY DEF LifeInv
<1>1. ~mixed /\ JoinInv /\ Step(c)
  BY DEF LifeInv, JoinInv
<1>2. joining[c] = from /\ joining' = [joining EXCEPT ![c] = goal]
  BY DEF Life!Joins
<1>3. \A d \in Life!Callers \ {c} : joining[d] = "idle"
  BY <1>1, <1>2 DEF JoinInv, Life!Alone
<1>4. joining'[c] = goal /\ \A d \in Life!Callers \ {c} : joining'[d] = "idle"
  BY <1>2, <1>3 DEF LifeTypes
<1>5. \A d \in Life!Callers : Step(d)'
  BY <1>1, <1>4 DEF Step
<1>6. (\A d \in Life!Callers : joining'[d] # "pass") => credentials' \in NetworksGiven \cup {Life!Unset}
  BY <1>1, <1>2, <1>3, <1>4 DEF JoinInv
<1> QED
  BY <1>4, <1>5, <1>6 DEF JoinInv

\* Nothing that concerns the network changes.
JoinVars == <<wish, joining, credentials, radio, mixed>>

\* What joining does not look at does not disturb the invariant.
LEMMA ApartKept ==
  ASSUME LifeInv, UNCHANGED JoinVars
  PROVE  LifeInv'
  BY DEF LifeInv, LifeTypes, JoinInv, Step, JoinVars

\* A step of joining keeps what is stored, told and wished for in agreement.
LEMMA JoiningKept ==
  ASSUME LifeInv, NEW c \in Life!Callers, Life!Joining(c)
  PROVE  LifeInv'
<1>t. LifeTypes /\ ((~mixed /\ JoinInv) \/ mixed)
  BY DEF LifeInv
<1>w. wish[c] \in Network /\ wish[c].ssid \in Ssids /\ wish[c].psk \in Passwords
      /\ credentials.ssid \in Ssids /\ credentials.psk \in Passwords /\ radio \in Network /\ credentials \in Network
  BY <1>t, NameAndKey DEF LifeTypes
<1>1. CASE Life!ReadPass(c)
  <2>1. /\ Life!Joins(c, "read", "psk") /\ UNCHANGED <<credentials, radio, mixed>>
        /\ wish' = [wish EXCEPT ![c] = [wish[c] EXCEPT !.psk = credentials.psk]]
    BY <1>1 DEF Life!ReadPass
  <2>2. wish'[c] \in Network /\ wish'[c].psk = credentials.psk /\ wish'[c].ssid = wish[c].ssid
    BY <2>1, <1>t, <1>w, WithKey DEF LifeTypes
  <2>3. LifeTypes'
    BY <2>1, <2>2, <1>t DEF LifeTypes, Life!Joins
  <2>4. Step(c) => Step(c)'
    <3> SUFFICES ASSUME Step(c) PROVE Step(c)'
      OBVIOUS
    <3>1. joining[c] = "read" /\ joining'[c] = "psk"
      BY <2>1, <1>t DEF Life!Joins, LifeTypes
    <3>2. credentials \in NetworksGiven /\ wish'[c] = credentials
      BY <3>1, <2>2, <1>w, SameNetwork DEF Step
    <3> QED
      BY <3>1, <3>2 DEF Step
  <2> QED
    BY <2>1, <2>3, <2>4, <1>t, JoinKept
<1>2. CASE Life!TellPsk(c)
  <2>1. /\ Life!Joins(c, "psk", "essid") /\ UNCHANGED <<wish, credentials, mixed>>
        /\ radio' = IF wish[c].psk = "" THEN radio ELSE [radio EXCEPT !.psk = wish[c].psk]
    BY <1>2 DEF Life!TellPsk
  <2>2. radio' \in Network /\ (wish[c].psk # "" => radio'.psk = wish[c].psk)
    BY <2>1, <1>w, WithKey
  <2>3. LifeTypes'
    BY <2>1, <2>2, <1>t DEF LifeTypes, Life!Joins
  <2>4. Step(c) => Step(c)'
    <3>1. joining[c] = "psk" /\ joining'[c] = "essid"
      BY <2>1, <1>t DEF Life!Joins, LifeTypes
    <3> QED
      BY <3>1, <2>1, <2>2, GivenNetworks DEF Step
  <2> QED
    BY <2>1, <2>3, <2>4, <1>t, JoinKept
<1>3. CASE Life!TellEssid(c)
  <2>1. /\ Life!Joins(c, "essid", "status") /\ UNCHANGED <<wish, credentials, mixed>>
        /\ radio' = [radio EXCEPT !.ssid = wish[c].ssid]
    BY <1>3 DEF Life!TellEssid
  <2>2. radio' \in Network /\ radio'.ssid = wish[c].ssid /\ radio'.psk = radio.psk
    BY <2>1, <1>w, WithName
  <2>3. LifeTypes'
    BY <2>1, <2>2, <1>t DEF LifeTypes, Life!Joins
  <2>4. Step(c) => Step(c)'
    <3>1. joining[c] = "essid" /\ joining'[c] = "status"
      BY <2>1, <1>t DEF Life!Joins, LifeTypes
    <3> QED
      BY <3>1, <2>1, <2>2 DEF Step
  <2> QED
    BY <2>1, <2>3, <2>4, <1>t, JoinKept
<1>4. CASE Life!NotAssociated(c) \/ Life!Associated(c) \/ Life!Waited(c)
  <2>1. PICK from \in {"status", "wait"}, goal \in {"idle", "ssid"} :
          /\ Life!Joins(c, from, goal) /\ UNCHANGED <<credentials, radio, mixed>> /\ (from = "wait" => goal = "idle")
          /\ wish' = wish \/ (goal = "idle" /\ wish' = [wish EXCEPT ![c] = Life!Unset])
    BY <1>4 DEF Life!NotAssociated, Life!Associated, Life!Waited, Life!Forgets
  <2>3. LifeTypes'
    BY <2>1, <1>t, GivenNetworks DEF LifeTypes, Life!Joins
  <2>4. Step(c) => Step(c)'
    <3>1. joining[c] = from /\ joining'[c] = goal
      BY <2>1, <1>t DEF Life!Joins, LifeTypes
    <3> QED
      BY <3>1, <2>1 DEF Step
  <2> QED
    BY <2>1, <2>3, <2>4, <1>t, JoinKept
<1>5. CASE Life!SaveSsid(c)
  <2>1. Life!Joins(c, "ssid", "pass") /\ UNCHANGED <<wish, radio>>
        /\ \/ credentials' = [credentials EXCEPT !.ssid = wish[c].ssid] /\ mixed' = mixed
           \/ credentials' = credentials /\ mixed' = TRUE
    BY <1>5 DEF Life!SaveSsid
  <2>2. credentials' \in Network /\ (~mixed' => credentials'.ssid = wish[c].ssid)
    <3>1. CASE credentials' = credentials /\ mixed'
      BY <3>1, <1>w
    <3>2. CASE credentials' = [credentials EXCEPT !.ssid = wish[c].ssid]
      BY <3>2, <1>w, WithName
    <3> QED
      BY <2>1, <3>1, <3>2
  <2>3. LifeTypes' /\ (mixed => mixed')
    BY <2>1, <2>2, <1>t DEF LifeTypes, Life!Joins
  <2>4. ~mixed' /\ Step(c) => Step(c)'
    <3>1. joining[c] = "ssid" /\ joining'[c] = "pass"
      BY <2>1, <1>t DEF Life!Joins, LifeTypes
    <3> QED
      BY <3>1, <2>1, <2>2 DEF Step
  <2> QED
    BY <2>1, <2>3, <2>4, <1>t, JoinKept
<1>6. CASE Life!SavePass(c)
  <2>1. Life!Joins(c, "pass", "wait") /\ UNCHANGED <<wish, radio>>
        /\ \/ credentials' = [credentials EXCEPT !.psk = wish[c].psk] /\ mixed' = mixed
           \/ credentials' = credentials /\ mixed' = TRUE
    BY <1>6 DEF Life!SavePass
  <2>2. credentials' \in Network /\ (~mixed' => credentials'.psk = wish[c].psk /\ credentials'.ssid = credentials.ssid)
    <3>1. CASE credentials' = credentials /\ mixed'
      BY <3>1, <1>w
    <3>2. CASE credentials' = [credentials EXCEPT !.psk = wish[c].psk]
      BY <3>2, <1>w, WithKey
    <3> QED
      BY <2>1, <3>1, <3>2
  <2>3. LifeTypes' /\ (mixed => mixed')
    BY <2>1, <2>2, <1>t DEF LifeTypes, Life!Joins
  <2>5. joining[c] = "pass" /\ joining'[c] = "wait"
    BY <2>1, <1>t DEF Life!Joins, LifeTypes
  <2>4. ~mixed' /\ Step(c) => Step(c)'
    BY <2>5, <2>1, <2>2 DEF Step
  <2>6. ~mixed' => credentials' \in NetworksGiven
    <3> SUFFICES ASSUME ~mixed' PROVE credentials' \in NetworksGiven
      OBVIOUS
    <3>1. Step(c)
      BY <1>t, <2>1 DEF JoinInv, LifeTypes
    <3>2. credentials' = wish[c]
      BY <3>1, <2>2, <2>5, <1>w, SameNetwork DEF Step
    <3> QED
      BY <3>1, <3>2, <2>5 DEF Step
  <2> QED
    BY <2>1, <2>3, <2>4, <2>6, <1>t, JoinKept
<1> QED
  BY <1>1, <1>2, <1>3, <1>4, <1>5, <1>6 DEF Life!Joining

\* Every step of the assistant's life keeps its invariant.
LEMMA LifeKept ==
  ASSUME LifeInv, Life!Next \/ UNCHANGED mainVars
  PROVE  LifeInv'
<1>t. LifeTypes /\ ((~mixed /\ JoinInv) \/ mixed)
  BY DEF LifeInv
<1>c. "watch" \in Life!Callers /\ "cli" \in Life!Callers
  BY DEF Life!Callers
<1>1. CASE UNCHANGED mainVars
  BY <1>1, ApartKept DEF mainVars, JoinVars
<1>2. CASE Life!Main
  <2>1. UNCHANGED JoinVars
    BY <1>2 DEF Life!Main, Life!Initialised, Life!StartDispatch, Life!StartLocal, Life!StartWatcher, Life!StartCli, Life!Quits,
      Life!Stop, Life!Destroys, Life!network, JoinVars
  <2> QED
    BY <2>1, ApartKept
<1>3. CASE \/ Life!NothingSaved \/ Life!Joined \/ Life!Connected \/ Life!Offline \/ Life!StartCloud \/ Life!Quit
           \/ Life!InputEnds \/ Life!Leaves
  <2>1. UNCHANGED JoinVars
    BY <1>3 DEF Life!NothingSaved, Life!Joined, Life!Connected, Life!Offline, Life!StartCloud, Life!Quit, Life!InputEnds,
      Life!Leaves, Life!rest, Life!network, JoinVars
  <2> QED
    BY <2>1, ApartKept
<1>4. ASSUME NEW c \in Life!Callers, Life!ReadSsid(c)
      PROVE  LifeInv'
  <2> DEFINE new == [ssid |-> credentials.ssid, psk |-> ""]
  <2>1. /\ Life!Joins(c, "idle", "read") /\ credentials.ssid # "" /\ wish' = [wish EXCEPT ![c] = new]
        /\ mixed' = (mixed \/ ~Life!Alone(c)) /\ UNCHANGED <<credentials, radio>>
    BY <1>4 DEF Life!ReadSsid
  <2>2. new \in Network /\ new.ssid = credentials.ssid
    BY <1>t, NameAndKey DEF LifeTypes, Network, Passwords
  <2>3. LifeTypes' /\ (mixed => mixed')
    BY <2>1, <2>2, <1>t DEF LifeTypes, Life!Joins
  <2>4. ~mixed' => credentials \in NetworksGiven
    BY <2>1, <1>t, GivenNetworks DEF JoinInv, Life!Alone, Life!Joins
  <2>5. ~mixed' => Step(c)'
    BY <2>1, <2>2, <2>4, <1>t DEF Step, Life!Joins, LifeTypes
  <2> QED
    BY <2>1, <2>3, <2>5, <1>t, JoinKept
<1>5. CASE Life!SetWifi
  <2>1. PICK g \in NetworksGiven : wish' = [wish EXCEPT !["cli"] = g]
    BY <1>5 DEF Life!SetWifi
  <2>2. Life!Joins("cli", "idle", "psk") /\ mixed' = (mixed \/ ~Life!Alone("cli")) /\ UNCHANGED <<credentials, radio>>
    BY <1>5 DEF Life!SetWifi
  <2>3. LifeTypes' /\ (mixed => mixed')
    BY <2>1, <2>2, <1>t, GivenNetworks DEF LifeTypes, Life!Joins
  <2>4. Step("cli")'
    BY <2>1, <2>2, <1>t, <1>c DEF Step, Life!Joins, LifeTypes
  <2> QED
    BY <2>2, <2>3, <2>4, <1>t, <1>c, JoinKept
<1>6. CASE Life!ConfigReset
  <2>1. credentials' = Life!Unset /\ mixed' = (mixed \/ ~Life!Alone("cli")) /\ joining["cli"] = "idle"
        /\ UNCHANGED <<wish, joining, radio>>
    BY <1>6 DEF Life!ConfigReset, Life!Command
  <2>2. LifeTypes'
    BY <2>1, <1>t, GivenNetworks DEF LifeTypes
  <2>3. ASSUME ~mixed' PROVE \A c \in Life!Callers : joining'[c] = "idle"
    BY <2>1, <2>3 DEF Life!Alone
  <2> QED
    BY <2>1, <2>2, <2>3 DEF LifeInv, JoinInv, Step
<1>7. CASE Life!Restart
  <2>1. /\ mixed' = (mixed \/ \E c \in Life!Callers : joining[c] = "pass")
        /\ wish' = [c \in Life!Callers |-> Life!Unset] /\ joining' = [c \in Life!Callers |-> "idle"]
        /\ radio' = Life!Unset /\ credentials' = credentials
    BY <1>7 DEF Life!Restart
  <2>2. LifeTypes'
    BY <2>1, <1>t, GivenNetworks DEF LifeTypes
  <2> QED
    BY <2>1, <2>2, <1>t DEF LifeInv, JoinInv, Step
<1> QED
  BY <1>1, <1>2, <1>3, <1>4, <1>5, <1>6, <1>7, <1>c, JoiningKept
    DEF Life!Next, Life!Watcher, Life!Cli, Life!WatchReads, Life!WifiReconnect

\* The invariant of the assistant's life holds whenever it moves.
LEMMA LifeHolds == PartsSpec => [](part = "main" => LifeInv)
<1>1. PartsInit => LifeInv
  <2> SUFFICES ASSUME Life!Init PROVE LifeInv
    BY DEF PartsInit
  <2>1. /\ wish = [c \in Life!Callers |-> Life!Unset] /\ joining = [c \in Life!Callers |-> "idle"]
        /\ credentials = Life!Unset /\ radio = Life!Unset /\ mixed = FALSE
    BY DEF Life!Init
  <2> QED
    BY <2>1, GivenNetworks DEF LifeInv, LifeTypes, JoinInv, Step
<1>2. (part = "main" => LifeInv) /\ [PartsNext]_<<part, moving>> => (part = "main" => LifeInv)'
  <2> SUFFICES ASSUME part = "main" => LifeInv, [PartsNext]_<<part, moving>>, part' = "main"
               PROVE  LifeInv'
    OBVIOUS
  <2>1. part = "main"
    BY DEF PartsNext, moving
  <2> QED
    BY <2>1, LifeMoves, LifeKept
<1> QED
  BY <1>1, <1>2, PTL DEF PartsSpec

\* What the next boot joins is what the radio was told of.
LEMMA LifeTells == LifeInv => Life!SavedIsTold
<1> SUFFICES ASSUME LifeInv, ~mixed PROVE JoinInv /\ LifeTypes /\ Life!SavedIsTold
  BY DEF Life!SavedIsTold
<1>1. JoinInv /\ LifeTypes
  BY DEF LifeInv
<1>2. \A c \in Life!Callers : joining[c] = "wait" => credentials = radio
  BY <1>1, SameNetwork DEF JoinInv, LifeTypes, Step
<1> QED
  BY <1>1, <1>2 DEF JoinInv, Life!SavedIsTold

-----------------------------------------------------------------------------
(* The recording that is recognised and the answer that is played: VoiceWakeup. *)

\* A step of the model is one of the wake-up service or none, when it moves.
LEMMA WakeupMoves ==
  ASSUME [PartsNext]_<<part, moving>>, part = "wakeup"
  PROVE  part' = "wakeup" /\ (Wakeup!Next \/ UNCHANGED wakeupVars)
<1>1. CASE PartsNext
  BY <1>1 DEF PartsNext
<1>2. CASE UNCHANGED <<part, moving>>
  BY <1>2 DEF moving
<1> QED
  BY <1>1, <1>2

\* The module's sizes of sets are those of the theorems about them.
LEMMA WakeupSize == ASSUME NEW S PROVE Wakeup!Cardinality(S) = Cardinality(S)
  BY DEF Wakeup!Cardinality, Cardinality

\* The buffer has the first frames of a recording, as many as there are or as fit,
\* and all that are speech; of one that is complete, only the last frame may be missing.
Fit == Wakeup!Capped(frame, ClipRoom)
WakeupInv ==
  /\ frame \in Nat /\ wakeRecording \in BOOLEAN
  /\ wakeRecording /\ wakePc = "listen" => clip = 1..Fit /\ spoken \subseteq 1..Fit
  /\ wakePc = "asr" => \E n \in Nat : clip = 1..n /\ spoken \subseteq 1..n
  /\ Wakeup!PlayedIsWhole

\* The buffer has room when fewer frames have come than it holds.
LEMMA ClipSize ==
  ASSUME NEW n \in Nat PROVE Wakeup!Cardinality(1..n) = n
<1>1. Cardinality(1..n) = n
  BY FS_Interval
<1> QED
  BY <1>1, WakeupSize, Zenon

\* Every step of the wake-up service keeps its invariant.
LEMMA WakeupKept ==
  ASSUME WakeupInv, Wakeup!Next \/ UNCHANGED wakeupVars
  PROVE  WakeupInv'
<1>r. ClipRoom \in Nat /\ frame \in Nat /\ Fit \in Nat /\ Fit = IF frame > ClipRoom THEN ClipRoom ELSE frame
  BY WakeupAssumption DEF WakeupInv, Fit, Wakeup!Capped
<1>1. ASSUME UNCHANGED Wakeup!capture, UNCHANGED answer,
             wakePc' = wakePc \/ wakePc' \notin {"listen", "asr", "play"} \/ (wakePc' = "play" /\ answer = "whole")
      PROVE  WakeupInv'
  BY <1>1 DEF WakeupInv, Wakeup!capture, Wakeup!PlayedIsWhole, Fit, Wakeup!Capped
<1>2. ASSUME wakeRecording' = FALSE, frame' = 0, wakePc' \in {"listen", "done"}
      PROVE  WakeupInv'
  BY <1>2 DEF WakeupInv, Wakeup!PlayedIsWhole
<1>3. CASE UNCHANGED wakeupVars
  BY <1>3, <1>1 DEF wakeupVars, Wakeup!capture
<1>4. CASE Wakeup!Start \/ Wakeup!Stop \/ Wakeup!Joined \/ Wakeup!Configure \/ Wakeup!Leave
  BY <1>4, <1>1 DEF Wakeup!Start, Wakeup!Stop, Wakeup!Joined, Wakeup!Configure, Wakeup!Leave, Wakeup!cloud
<1>5. CASE Wakeup!Open
  BY <1>5, <1>2 DEF Wakeup!Open
<1>6. CASE Wakeup!Asr \/ Wakeup!Llm \/ Wakeup!Play
  <2>1. CASE Wakeup!Returned
    BY <2>1, <1>2 DEF Wakeup!Returned
  <2>2. CASE ~Wakeup!Returned
    BY <1>6, <2>2, <1>1 DEF Wakeup!Asr, Wakeup!Llm, Wakeup!Play, Wakeup!Works, Wakeup!Refused, Wakeup!Failed
  <2> QED
    BY <2>1, <2>2
<1>7. CASE Wakeup!Tts
  <2>1. CASE Wakeup!Returned
    BY <2>1, <1>2 DEF Wakeup!Returned
  <2>2. CASE ~Wakeup!Returned
    <3>1. PICK made \in Wakeup!Synthesis : answer' = made[1] /\ Wakeup!Accepted(made) /\ Wakeup!Works("play", "speaking")
      BY <1>7, <2>2 DEF Wakeup!Tts, Wakeup!Refused, Wakeup!Failed
    <3>2. answer' = "whole"
      <4>1. made \in {<<"whole", TRUE>>, <<"part", FALSE>>, <<answer, FALSE>>} /\ made[2]
        BY <3>1 DEF Wakeup!Synthesis, Wakeup!Accepted
      <4>2. <<"part", FALSE>>[2] = FALSE /\ <<answer, FALSE>>[2] = FALSE /\ <<"whole", TRUE>>[1] = "whole"
        OBVIOUS
      <4>3. made = <<"whole", TRUE>>
        BY <4>1, <4>2, Zenon
      <4> QED
        BY <3>1, <4>2, <4>3, Zenon
    <3> QED
      BY <3>1, <3>2 DEF Wakeup!Works, Wakeup!capture, WakeupInv, Wakeup!PlayedIsWhole
  <2> QED
    BY <2>1, <2>2
<1>8. ASSUME NEW loud \in BOOLEAN, Wakeup!Frame(loud)
      PROVE  WakeupInv'
  <2>0. wakePc = "listen" /\ UNCHANGED answer /\ wakeRecording \in BOOLEAN
    BY <1>8 DEF Wakeup!Frame, Wakeup!cloud, WakeupInv
  <2>1. CASE Wakeup!Speech
    <3>1. /\ frame' = IF ~wakeRecording THEN 1 ELSE frame + 1
          /\ spoken' = (IF ~wakeRecording THEN {} ELSE spoken) \cup {frame'}
          /\ wakePc' = "listen"
      BY <2>0, <2>1 DEF Wakeup!Speech
    <3> DEFINE kept == IF ~wakeRecording THEN {} ELSE clip
               n == IF ~wakeRecording THEN 0 ELSE Fit
    <3>2. kept = 1..n /\ n \in Nat
      BY <1>r, <2>0 DEF WakeupInv
    <3>3. Wakeup!Cardinality(kept) = n
      BY <3>2, ClipSize, Zenon
    <3>4. CASE n < ClipRoom
      <4>1. clip' = kept \cup {frame'} /\ wakeRecording' = TRUE
        BY <2>1, <3>1, <3>3, <3>4 DEF Wakeup!Speech
      <4>2. frame' = n + 1 /\ frame' <= ClipRoom
        BY <3>1, <3>4, <1>r
      <4>3. clip' = 1..frame' /\ spoken' \subseteq 1..frame' /\ Fit' = frame'
        BY <4>1, <4>2, <3>1, <3>2, <1>r, <2>0 DEF WakeupInv, Fit, Wakeup!Capped
      <4> QED
        BY <4>1, <4>2, <4>3, <3>1, <3>2 DEF WakeupInv, Wakeup!PlayedIsWhole
    <3>5. CASE ~(n < ClipRoom)
      <4>1. wakeRecording' = FALSE
        BY <2>1, <3>1, <3>3, <3>5 DEF Wakeup!Speech, Wakeup!Overflow
      <4>2. frame' \in Nat /\ wakePc' = "listen"
        BY <3>1, <1>r
      <4> QED
        BY <4>1, <4>2 DEF WakeupInv, Wakeup!PlayedIsWhole
    <3> QED
      BY <3>4, <3>5
  <2>2. CASE Wakeup!Quiet
    <3>1. CASE ~wakeRecording
      BY <2>2, <3>1, <2>0 DEF Wakeup!Quiet, WakeupInv, Wakeup!PlayedIsWhole
    <3>2. CASE wakeRecording
      <4>1. /\ frame' = frame + 1 /\ wakePc' \in {"asr", "listen"} /\ wakeRecording' /\ spoken' = spoken
            /\ clip' = IF wakePc' = "listen" /\ Wakeup!Cardinality(clip) < ClipRoom THEN clip \cup {frame + 1} ELSE clip
        BY <2>2, <3>2 DEF Wakeup!Quiet
      <4>2. clip = 1..Fit /\ spoken \subseteq 1..Fit
        BY <3>2, <2>0 DEF WakeupInv
      <4>3. Wakeup!Cardinality(clip) = Fit
        BY <4>2, <1>r, ClipSize, Zenon
      <4>4. CASE wakePc' = "asr"
        BY <4>1, <4>2, <4>4, <1>r DEF WakeupInv, Wakeup!PlayedIsWhole
      <4>5. CASE wakePc' = "listen"
        <5>1. clip' = 1..Fit' /\ Fit <= Fit' /\ Fit' \in Nat
          <6>1. Fit' = IF frame + 1 > ClipRoom THEN ClipRoom ELSE frame + 1
            BY <4>1 DEF Fit, Wakeup!Capped
          <6>2. CASE Fit < ClipRoom
            <7>1. Fit = frame /\ Fit' = frame + 1
              BY <6>1, <6>2, <1>r
            <7>2. clip' = clip \cup {frame + 1}
              BY <4>1, <4>3, <4>5, <6>2
            <7> QED
              BY <7>1, <7>2, <4>2, <1>r
          <6>3. CASE ~(Fit < ClipRoom)
            <7>1. Fit' = Fit
              BY <6>1, <6>3, <1>r
            <7>2. clip' = clip
              BY <4>1, <4>3, <4>5, <6>3
            <7> QED
              BY <7>1, <7>2, <4>2, <1>r
          <6> QED
            BY <6>2, <6>3
        <5>2. spoken' \subseteq 1..Fit'
          BY <5>1, <4>1, <4>2, <1>r
        <5> QED
          BY <5>1, <5>2, <4>1, <4>5, <1>r DEF WakeupInv, Wakeup!PlayedIsWhole
      <4> QED
        BY <4>1, <4>4, <4>5
    <3> QED
      BY <2>0, <3>1, <3>2
  <2> QED
    BY <1>8, <2>1, <2>2 DEF Wakeup!Frame
<1> QED
  BY <1>3, <1>4, <1>5, <1>6, <1>7, <1>8 DEF Wakeup!Next, Wakeup!Thread

\* The invariant of the wake-up service holds whenever it moves.
LEMMA WakeupHolds == PartsSpec => [](part = "wakeup" => WakeupInv)
<1>1. PartsInit => WakeupInv
  <2> SUFFICES ASSUME Wakeup!Init PROVE WakeupInv
    BY DEF PartsInit
  <2>1. frame = 0 /\ wakeRecording = FALSE /\ wakePc = "none"
    BY Zenon DEF Wakeup!Init
  <2> QED
    BY <2>1 DEF WakeupInv, Wakeup!PlayedIsWhole
<1>2. (part = "wakeup" => WakeupInv) /\ [PartsNext]_<<part, moving>> => (part = "wakeup" => WakeupInv)'
  <2> SUFFICES ASSUME part = "wakeup" => WakeupInv, [PartsNext]_<<part, moving>>, part' = "wakeup"
               PROVE  WakeupInv'
    OBVIOUS
  <2>1. part = "wakeup"
    BY DEF PartsNext, moving
  <2> QED
    BY <2>1, WakeupMoves, WakeupKept
<1> QED
  BY <1>1, <1>2, PTL DEF PartsSpec

\* What is recognised and what is played is whole.
LEMMA WakeupWhole == WakeupInv => Wakeup!ClipIsWhole /\ Wakeup!PlayedIsWhole
  BY DEF WakeupInv, Wakeup!ClipIsWhole

-----------------------------------------------------------------------------
(* The text that is recognised: VolcAsr. *)

\* A step of the model is one of the recognition or none, when it moves.
LEMMA AsrMoves ==
  ASSUME [PartsNext]_<<part, moving>>, part = "asr"
  PROVE  part' = "asr" /\ (Asr!Next \/ UNCHANGED asrVars)
<1>1. CASE PartsNext
  BY <1>1 DEF PartsNext
<1>2. CASE UNCHANGED <<part, moving>>
  BY <1>2 DEF moving
<1> QED
  BY <1>1, <1>2

\* The sessions do not overlap: one thread recognises.
OneAsrUser == \A u, v \in AsrUsers : u = v

Response == [kind : {"text"}, final : BOOLEAN, text : AsrTexts] \cup [kind : {"broken", "other"}, final : {FALSE}]
Session == [pc : {"idle", "connect", "upgrade", "request", "audio", "receive", "close"}, kind : {"batch", "stream"},
            text : Seq(STRING), ret : {"none", "ok", "nothing", "error", "aborted"}, wire : Seq(Response), ended : BOOLEAN,
            heard : Seq(STRING), tries : Nat, sessions : Nat]

\* A session that begins.
LEMMA SessionBegins ==
  ASSUME NEW k \in {"batch", "stream"}, NEW n \in Nat
  PROVE  LET t == [Asr!Fresh EXCEPT !.pc = "connect", !.kind = k, !.sessions = n]
         IN  t \in Session /\ t.pc = "connect" /\ t.text = <<>> /\ t.heard = <<>>
<1>1. Asr!Fresh \in Session /\ Asr!Fresh.text = <<>> /\ Asr!Fresh.heard = <<>>
  BY DEF Asr!Fresh, Session
<1> QED
  BY <1>1 DEF Session

\* A text that more may be written to has the offset at its beginning.
AsrInv ==
  /\ asrUser \in [AsrUsers -> Session] /\ confirmed \in Nat
  /\ \A u \in AsrUsers :
       /\ asrUser[u].text = asrUser[u].heard
       /\ asrUser[u].pc = "receive" /\ asrUser[u].text # <<>> => confirmed = 0
       /\ asrUser[u].pc \in {"connect", "upgrade", "request", "audio"} => asrUser[u].text = <<>>

\* One session goes on as s.
LEMMA SessionKept ==
  ASSUME OneAsrUser, AsrInv, NEW u \in AsrUsers, NEW s \in Session, asrUser' = [asrUser EXCEPT ![u] = s],
         confirmed' \in Nat, s.text = s.heard,
         s.pc = "receive" /\ s.text # <<>> => confirmed' = 0,
         s.pc \in {"connect", "upgrade", "request", "audio"} => s.text = <<>>
  PROVE  AsrInv'
<1>1. \A v \in AsrUsers : v = u
  BY DEF OneAsrUser
<1> QED
  BY <1>1 DEF AsrInv

\* Every step of a session keeps the text it returns the one it heard.
LEMMA AsrKept ==
  ASSUME OneAsrUser, AsrInv, Asr!Next \/ UNCHANGED asrVars
  PROVE  AsrInv'
<1>1. CASE UNCHANGED asrVars
  BY <1>1 DEF asrVars, AsrInv
<1> SUFFICES ASSUME NEW u \in AsrUsers,
               \/ \E k \in {"batch", "stream"} : Asr!Begin(u, k)
               \/ Asr!Connect(u) \/ Asr!Upgrade(u) \/ Asr!Request(u) \/ Asr!Audio(u) \/ Asr!Serve(u) \/ Asr!Receive(u)
               \/ Asr!Close(u)
             PROVE AsrInv'
  BY <1>1 DEF Asr!Next
<1> DEFINE s == asrUser[u]
<1>s. /\ s \in Session /\ confirmed \in Nat /\ s.text = s.heard
      /\ s.pc = "receive" /\ s.text # <<>> => confirmed = 0
      /\ s.pc \in {"connect", "upgrade", "request", "audio"} => s.text = <<>>
  BY DEF AsrInv
\* The session ends, or goes on without a word.
<1>2. ASSUME NEW goal, goal \in {"upgrade", "request", "audio"} => s.pc \in {"connect", "upgrade", "request", "audio"},
             goal \in {"upgrade", "request", "audio", "close"}
             \/ (goal = "receive" /\ s.pc = "audio"),
             Asr!Goes(u, goal), UNCHANGED confirmed
      PROVE  AsrInv'
  <2>1. asrUser' = [asrUser EXCEPT ![u] = [s EXCEPT !.pc = goal]]
    BY <1>2 DEF Asr!Goes
  <2>2. /\ [s EXCEPT !.pc = goal] \in Session /\ [s EXCEPT !.pc = goal].pc = goal /\ [s EXCEPT !.pc = goal].text = s.text
        /\ [s EXCEPT !.pc = goal].heard = s.heard
    BY <1>2, <1>s DEF Session
  <2> QED
    BY <2>1, <2>2, <1>2, <1>s, SessionKept
<1>3. ASSUME NEW how \in {"ok", "nothing", "error", "aborted"}, Asr!End(u, how), UNCHANGED confirmed
      PROVE  AsrInv'
  <2> DEFINE t == [s EXCEPT !.pc = "idle", !.ret = how]
  <2>1. asrUser' = [asrUser EXCEPT ![u] = t]
    BY <1>3 DEF Asr!End
  <2>2. t \in Session /\ t.pc = "idle" /\ t.text = s.text /\ t.heard = s.heard
    BY <1>s DEF Session
  <2> QED
    BY <2>1, <2>2, <1>3, <1>s, SessionKept
<1>4. ASSUME NEW k \in {"batch", "stream"}, Asr!Begin(u, k) PROVE AsrInv'
  <2> DEFINE t == [Asr!Fresh EXCEPT !.pc = "connect", !.kind = k, !.sessions = s.sessions + 1]
  <2>1. asrUser' = [asrUser EXCEPT ![u] = t] /\ UNCHANGED confirmed
    BY <1>4 DEF Asr!Begin
  <2>2. t \in Session /\ t.pc = "connect" /\ t.text = <<>> /\ t.heard = <<>>
    <3>1. s.sessions + 1 \in Nat
      BY <1>s DEF Session
    <3> QED
      BY <3>1, SessionBegins, Zenon
  <2> QED
    BY <2>1, <2>2, <1>s, SessionKept
<1>5. CASE Asr!Connect(u) \/ Asr!Upgrade(u) \/ Asr!Request(u) \/ Asr!Audio(u)
  <2>1. CASE \E how \in {"error", "aborted"} : Asr!End(u, how) /\ UNCHANGED confirmed
    BY <2>1, <1>3
  <2>2. CASE ~\E how \in {"error", "aborted"} : Asr!End(u, how) /\ UNCHANGED confirmed
    BY <1>5, <2>2, <1>2 DEF Asr!Connect, Asr!Upgrade, Asr!Request, Asr!Audio, Asr!Stage
  <2> QED
    BY <2>1, <2>2
<1>6. CASE Asr!Serve(u)
  <2>1. PICK r \in Response : asrUser' = [asrUser EXCEPT ![u] = [s EXCEPT !.wire = Append(s.wire, r), !.ended = r.final]]
    BY <1>6 DEF Asr!Serve, Response
  <2> DEFINE t == [s EXCEPT !.wire = Append(s.wire, r), !.ended = r.final]
  <2>2. Append(s.wire, r) \in Seq(Response) /\ r.final \in BOOLEAN
    <3>1. s.wire \in Seq(Response)
      BY <1>s DEF Session
    <3>2. r.final \in BOOLEAN
      BY DEF Response
    <3> QED
      BY <3>1, <3>2
  <2>3. t \in Session /\ t.pc = s.pc /\ t.text = s.text /\ t.heard = s.heard
    BY <2>2, <1>s DEF Session
  <2> QED
    BY <1>6, <2>1, <2>3, <1>s, SessionKept DEF Asr!Serve
<1>7. CASE Asr!Close(u)
  BY <1>7, <1>3 DEF Asr!Close
<1>8. CASE Asr!Receive(u)
  <2>0. s.pc = "receive"
    BY <1>8 DEF Asr!Receive
  <2> DEFINE r == Head(s.wire)
             ends == r.final \/ s.tries + 1 = MaxResponses
             p == IF ends THEN "close" ELSE s.pc
             t == [s EXCEPT !.wire = Tail(s.wire), !.tries = s.tries + 1, !.pc = p]
  <2>1. CASE Asr!End(u, "error") /\ UNCHANGED confirmed
    BY <2>1, <1>3
  <2>2. CASE ~(Asr!End(u, "error") /\ UNCHANGED confirmed)
    <3>1. s.wire # <<>> /\ ((r.kind = "text" /\ r.text # <<>> /\ Asr!Write(u, r)) \/ Asr!Skip(u, r))
      BY <1>8, <2>2 DEF Asr!Receive, Asr!NoFrame
    <3>2. s.wire \in Seq(Response) /\ s.tries \in Nat /\ s.text \in Seq(STRING)
      BY <1>s DEF Session
    <3>3. r \in Response /\ Tail(s.wire) \in Seq(Response)
      BY <3>1, <3>2
    <3>4. t \in Session /\ t.pc \in {"close", "receive"} /\ t.text = s.text /\ t.heard = s.heard
      <4>1. p \in {"close", "receive"}
        BY <2>0
      <4>2. s.tries + 1 \in Nat
        BY <3>2
      <4>3. s \in Session
        BY <1>s
      <4> DEFINE n == s.tries + 1
                 w == Tail(s.wire)
      <4>4. n \in Nat /\ w \in Seq(Response)
        BY <4>2, <3>3
      <4> HIDE DEF p, s, n, w
      <4>5. t = [s EXCEPT !.wire = w, !.tries = n, !.pc = p]
        BY DEF w, n
      <4> HIDE DEF t
      <4> QED
        BY <4>1, <4>3, <4>4, <4>5 DEF Session
    <3>5. CASE Asr!Skip(u, r)
      <4>1. asrUser' = [asrUser EXCEPT ![u] = t] /\ UNCHANGED confirmed
        BY <3>5 DEF Asr!Skip
      <4> QED
        BY <4>1, <3>4, <2>0, <1>s, SessionKept
    <3>6. CASE r.kind = "text" /\ r.text # <<>> /\ Asr!Write(u, r)
      <4>1. r.text \in AsrTexts /\ r.text \in Seq(STRING) /\ r.final \in BOOLEAN
        BY <3>3, <3>6, SpeechAssumption DEF Response
      <4>2. Asr!Offset(s.text) = 0
        BY <2>0, <1>s DEF Asr!Offset
      <4>3. Asr!Merged(s.text, 0, r.text) = r.text
        <5>1. Len(s.text) >= 0 /\ SubSeq(s.text, 1, 0) = <<>>
          BY <3>2
        <5>2. <<>> \o r.text = r.text
          BY <4>1
        <5>3. Asr!Merged(s.text, 0, r.text) = SubSeq(s.text, 1, 0) \o r.text
          BY <5>1, <3>2 DEF Asr!Merged
        <5> QED
          BY <5>1, <5>2, <5>3, Zenon
      <4> DEFINE w == [t EXCEPT !.text = r.text, !.heard = r.text]
      <4>4. asrUser' = [asrUser EXCEPT ![u] = [s EXCEPT !.text = r.text, !.heard = r.text, !.wire = Tail(s.wire),
                                                 !.tries = s.tries + 1, !.pc = IF ends THEN "close" ELSE s.pc]]
            /\ confirmed' = IF r.final THEN Len(r.text) ELSE 0
        BY <3>6, <4>2, <4>3 DEF Asr!Write
      <4>5. [s EXCEPT !.text = r.text, !.heard = r.text, !.wire = Tail(s.wire), !.tries = s.tries + 1,
                      !.pc = IF ends THEN "close" ELSE s.pc] = w
        BY <1>s DEF Session
      <4>6. w \in Session /\ w.pc = t.pc /\ w.text = r.text /\ w.heard = r.text
        BY <3>4, <4>1 DEF Session
      <4>7. confirmed' \in Nat /\ (w.pc = "receive" => confirmed' = 0)
        BY <4>1, <4>4, <4>6, <1>s DEF Session
      <4> QED
        BY <4>4, <4>5, <4>6, <4>7, <3>4, SessionKept
    <3> QED
      BY <3>1, <3>5, <3>6
  <2> QED
    BY <2>1, <2>2
<1> QED
  BY <1>4, <1>5, <1>6, <1>7, <1>8

\* The invariant of the recognition holds whenever it moves, when one thread recognises.
LEMMA AsrHolds == OneAsrUser => (PartsSpec => [](part = "asr" => AsrInv))
<1> SUFFICES ASSUME OneAsrUser PROVE PartsSpec => [](part = "asr" => AsrInv)
  OBVIOUS
<1>1. PartsInit => AsrInv
  BY DEF PartsInit, Asr!Init, Asr!Fresh, AsrInv, Session
<1>2. (part = "asr" => AsrInv) /\ [PartsNext]_<<part, moving>> => (part = "asr" => AsrInv)'
  <2> SUFFICES ASSUME part = "asr" => AsrInv, [PartsNext]_<<part, moving>>, part' = "asr"
               PROVE  AsrInv'
    OBVIOUS
  <2>1. part = "asr"
    BY DEF PartsNext, moving
  <2> QED
    BY <2>1, AsrMoves, AsrKept
<1> QED
  BY <1>1, <1>2, PTL DEF PartsSpec

\* A session returns the last text that was said in it.
LEMMA AsrReturns == AsrInv => Asr!LastIsReturned
  BY DEF AsrInv, Asr!LastIsReturned

-----------------------------------------------------------------------------
(* The speech that is played as it comes: VolcTts. *)

\* A step of the model is one of the speech or none, when it moves.
LEMMA TtsMoves ==
  ASSUME [PartsNext]_<<part, moving>>, part = "tts"
  PROVE  part' = "tts" /\ (Tts!Next \/ UNCHANGED ttsVars)
<1>1. CASE PartsNext
  BY <1>1 DEF PartsNext
<1>2. CASE UNCHANGED <<part, moving>>
  BY <1>2 DEF moving
<1> QED
  BY <1>1, <1>2

Sound == [kind : {"audio"}, n : Nat, last : BOOLEAN]
Notice == [kind : {"ack", "short", "error", "close", "frontend"}]
SpeechTypes ==
  /\ ttsMade \in Nat /\ wire \in Seq(Sound \cup Notice) /\ played \in Seq(Nat)
  /\ timeouts \in Nat /\ quiet \in Nat /\ over \in BOOLEAN /\ aligned \in BOOLEAN
Audible(i) == wire[i].kind = "audio"
\* The pieces on their way follow what was played, in their order and without a
\* gap; what ends the speech comes after all of them, or before all and means nothing.
WireInv ==
  /\ Len(played) <= ttsMade
  /\ \A i \in 1..Len(wire) : Audible(i) => wire[i].n > Len(played) /\ wire[i].n <= ttsMade
  /\ \A i, j \in 1..Len(wire) : i < j /\ Audible(i) /\ Audible(j) => wire[i].n < wire[j].n
  /\ \A k \in Nat : k > Len(played) /\ k <= ttsMade => \E i \in 1..Len(wire) : Audible(i) /\ wire[i].n = k
  /\ \A i \in 1..Len(wire) : Audible(i) /\ wire[i].last => wire[i].n = Pieces
  /\ \A i \in 1..Len(wire) : wire[i].kind = "close" =>
       over /\ ttsMade \in {0, Pieces} /\ \A j \in 1..Len(wire) : j > i => ~Audible(j)
  /\ \A i \in 1..Len(wire) : wire[i].kind = "frontend" =>
       \/ ttsMade = Pieces /\ \A j \in 1..Len(wire) : j > i => ~Audible(j)
       \/ Len(played) = 0 /\ \A j \in 1..Len(wire) : j < i => ~Audible(j)
InOrder == \A i \in 1..Len(played) : played[i] = i
Complete == ttsRet = "ok" /\ quiet < MaxTimeouts /\ (over => ttsMade = Pieces) => Len(played) = Pieces
TtsInv ==
  /\ SpeechTypes
  /\ ttsPc # "done" => timeouts = quiet /\ ttsRet = "none" /\ (aligned => WireInv)
  /\ aligned => InOrder /\ Complete

\* When no piece is on its way, all that were made were played.
LEMMA Drained ==
  ASSUME SpeechTypes, WireInv, \A i \in 1..Len(wire) : ~Audible(i)
  PROVE  Len(played) = ttsMade
<1>1. Len(played) \in Nat /\ ttsMade \in Nat /\ Len(played) <= ttsMade
  BY DEF SpeechTypes, WireInv
<1>2. ~(Len(played) < ttsMade)
  BY <1>1 DEF WireInv
<1> QED
  BY <1>1, <1>2

\* Where there is a piece, the first one on its way is the next one.
LEMMA NextPiece ==
  ASSUME SpeechTypes, WireInv, Len(wire) > 0, Audible(1)
  PROVE  wire[1].n = Len(played) + 1
<1>1. Len(played) \in Nat /\ ttsMade \in Nat /\ Len(wire) \in Nat
  BY DEF SpeechTypes
<1>t. \A i \in 1..Len(wire) : Audible(i) => wire[i].n \in Nat
  BY DEF SpeechTypes, Audible, Sound, Notice
<1>2. wire[1].n > Len(played) /\ wire[1].n <= ttsMade /\ wire[1].n \in Nat
  BY <1>1, <1>t DEF WireInv
<1>3. PICK i \in 1..Len(wire) : Audible(i) /\ wire[i].n = Len(played) + 1
  BY <1>1, <1>2 DEF WireInv
<1>4. i # 1 => wire[1].n < wire[i].n
  BY <1>1, <1>3 DEF WireInv
<1> QED
  BY <1>1, <1>2, <1>3, <1>4

\* The first frame is taken off the wire, and played if it is a piece.
LEMMA WireTaken ==
  ASSUME SpeechTypes, WireInv, Len(wire) > 0, wire' = Tail(wire), UNCHANGED <<ttsMade, over>>,
         IF Audible(1) THEN played' = Append(played, wire[1].n) ELSE played' = played
  PROVE  WireInv'
<1>1. Len(played) \in Nat /\ ttsMade \in Nat /\ Len(wire) \in Nat \ {0}
  BY DEF SpeechTypes
<1>2. Len(wire') = Len(wire) - 1 /\ \A i \in 1..Len(wire') : wire'[i] = wire[i + 1] /\ i + 1 \in 1..Len(wire)
  BY DEF SpeechTypes
<1>3. \A i \in 1..Len(wire') : Audible(i)' <=> Audible(i + 1)
  BY <1>2 DEF Audible
<1>4. Len(played') = IF Audible(1) THEN Len(played) + 1 ELSE Len(played)
  <2>1. CASE Audible(1)
    <3>1. wire[1].n \in Nat
      BY <2>1, <1>1 DEF SpeechTypes, Audible, Sound, Notice
    <3> QED
      BY <3>1, <2>1 DEF SpeechTypes
  <2> QED
    BY <2>1
<1>t. \A i \in 1..Len(wire) : Audible(i) => wire[i].n \in Nat
  BY DEF SpeechTypes, Audible, Sound, Notice
<1>5. Audible(1) => wire[1].n = Len(played) + 1
  BY <1>1, NextPiece
<1>6. Len(played') <= ttsMade'
  <2>1. Audible(1) => wire[1].n <= ttsMade
    BY <1>1 DEF WireInv
  <2> QED
    BY <2>1, <1>1, <1>4, <1>5 DEF WireInv
<1>7. ASSUME NEW i \in 1..Len(wire'), Audible(i)'
      PROVE  wire'[i].n > Len(played') /\ wire'[i].n <= ttsMade'
  <2>1. Audible(i + 1) /\ wire'[i] = wire[i + 1] /\ i + 1 \in 1..Len(wire) /\ 1 < i + 1 /\ 1 \in 1..Len(wire)
    BY <1>7, <1>1, <1>2, <1>3
  <2>2. wire[i + 1].n > Len(played) /\ wire[i + 1].n <= ttsMade /\ wire[i + 1].n \in Nat
    BY <2>1, <1>t DEF WireInv
  <2>3. Audible(1) => wire[1].n < wire[i + 1].n
    BY <2>1 DEF WireInv
  <2> QED
    BY <2>1, <2>2, <2>3, <1>1, <1>4, <1>5
<1>8. \A i, j \in 1..Len(wire') : i < j /\ Audible(i)' /\ Audible(j)' => wire'[i].n < wire'[j].n
  BY <1>2, <1>3 DEF WireInv
<1>9. ASSUME NEW k \in Nat, k > Len(played'), k <= ttsMade'
      PROVE  \E i \in 1..Len(wire') : Audible(i)' /\ wire'[i].n = k
  <2>1. k > Len(played) /\ k <= ttsMade
    BY <1>9, <1>1, <1>4
  <2>2. PICK i \in 1..Len(wire) : Audible(i) /\ wire[i].n = k
    BY <2>1 DEF WireInv
  <2>3. i # 1
    BY <2>2, <1>1, <1>4, <1>5, <1>9
  <2>4. i - 1 \in 1..Len(wire') /\ (i - 1) + 1 = i
    BY <2>3, <1>1, <1>2
  <2>5. Audible(i - 1)' /\ wire'[i - 1].n = k
    BY <2>2, <2>4, <1>2, <1>3
  <2> QED
    BY <2>4, <2>5
<1>10. ASSUME NEW i \in 1..Len(wire'), Audible(i)', wire'[i].last
       PROVE  wire'[i].n = Pieces
  <2>1. wire'[i] = wire[i + 1] /\ i + 1 \in 1..Len(wire) /\ Audible(i + 1)
    BY <1>10, <1>2, <1>3
  <2>2. wire[i + 1].last
    BY <1>10, <2>1, Zenon
  <2> QED
    BY <2>1, <2>2, Zenon DEF WireInv
<1>11. ASSUME NEW i \in 1..Len(wire'), wire'[i].kind = "close"
       PROVE  over' /\ ttsMade' \in {0, Pieces} /\ \A j \in 1..Len(wire') : j > i => ~Audible(j)'
  <2>1. wire[i + 1].kind = "close" /\ i + 1 \in 1..Len(wire)
    BY <1>11, <1>2
  <2>2. over /\ ttsMade \in {0, Pieces} /\ \A j \in 1..Len(wire) : j > i + 1 => ~Audible(j)
    BY <2>1 DEF WireInv
  <2> QED
    BY <2>2, <1>2, <1>3
<1>12. ASSUME NEW i \in 1..Len(wire'), wire'[i].kind = "frontend"
       PROVE  \/ ttsMade' = Pieces /\ \A j \in 1..Len(wire') : j > i => ~Audible(j)'
              \/ Len(played') = 0 /\ \A j \in 1..Len(wire') : j < i => ~Audible(j)'
  <2>1. wire[i + 1].kind = "frontend" /\ i + 1 \in 1..Len(wire) /\ 1 \in 1..Len(wire) /\ 1 < i + 1
    BY <1>12, <1>1, <1>2
  <2>2. \/ ttsMade = Pieces /\ \A j \in 1..Len(wire) : j > i + 1 => ~Audible(j)
        \/ Len(played) = 0 /\ \A j \in 1..Len(wire) : j < i + 1 => ~Audible(j)
    BY <2>1 DEF WireInv
  <2>3. CASE ttsMade = Pieces /\ \A j \in 1..Len(wire) : j > i + 1 => ~Audible(j)
    BY <2>3, <1>2, <1>3
  <2>4. CASE Len(played) = 0 /\ \A j \in 1..Len(wire) : j < i + 1 => ~Audible(j)
    <3>1. ~Audible(1)
      BY <2>1, <2>4
    <3> QED
      BY <3>1, <2>4, <1>2, <1>3, <1>4
  <2> QED
    BY <2>2, <2>3, <2>4
<1> QED
  BY <1>6, <1>7, <1>8, <1>9, <1>10, <1>11, <1>12 DEF WireInv

\* The service adds a frame f.
LEMMA WireGrows ==
  ASSUME SpeechTypes, WireInv, ~over, NEW f \in Sound \cup Notice, wire' = Append(wire, f), UNCHANGED played,
         \/ f.kind = "audio" /\ f.n = ttsMade + 1 /\ (f.last => f.n = Pieces) /\ ttsMade' = ttsMade + 1 /\ ttsMade < Pieces
         \/ /\ f.kind # "audio" /\ ttsMade' = ttsMade
            /\ f.kind = "close" => over'
            /\ f.kind \in {"frontend", "close"} => ttsMade \in {0, Pieces}
  PROVE  WireInv'
<1>1. Len(played) \in Nat /\ ttsMade \in Nat /\ Len(wire) \in Nat /\ Len(played) <= ttsMade /\ Pieces \in Nat
  BY SpeechAssumption DEF SpeechTypes, WireInv
<1>n. PICK n \in Nat : n = Len(wire) + 1
  BY <1>1
<1>2. Len(wire') = n /\ wire'[n] = f /\ \A i \in 1..Len(wire) : wire'[i] = wire[i]
  BY <1>n DEF SpeechTypes
<1>3. \A i \in 1..n : i \in 1..Len(wire) \/ i = n
  BY <1>1, <1>n
<1>a. n \in Nat /\ 1..Len(wire) \subseteq 1..n /\ n \in 1..n /\ n \notin 1..Len(wire)
  BY <1>1, <1>n
<1>4. (\A i \in 1..Len(wire) : Audible(i)' <=> Audible(i)) /\ (Audible(n)' <=> f.kind = "audio")
  BY <1>2 DEF Audible
<1>t. \A i \in 1..Len(wire) : Audible(i) => wire[i].n \in Nat
  BY DEF SpeechTypes, Audible, Sound, Notice
<1>h. ttsMade' \in Nat /\ ttsMade <= ttsMade' /\ \A i \in 1..Len(wire) : wire[i].kind # "close"
  BY <1>1 DEF WireInv
<1>6. Len(played') <= ttsMade'
  BY <1>1, <1>h
<1>7. \A i \in 1..n : Audible(i)' => wire'[i].n > Len(played') /\ wire'[i].n <= ttsMade'
  BY <1>1, <1>2, <1>3, <1>4, <1>t, <1>h DEF WireInv
<1>8. \A i, j \in 1..n : i < j /\ Audible(i)' /\ Audible(j)' => wire'[i].n < wire'[j].n
  <2> SUFFICES ASSUME NEW i \in 1..n, NEW j \in 1..n, i < j, Audible(i)', Audible(j)'
               PROVE  wire'[i].n < wire'[j].n
    OBVIOUS
  <2>1. i \in 1..Len(wire) /\ Audible(i) /\ wire'[i] = wire[i]
    BY <1>1, <1>2, <1>3, <1>4, <1>n
  <2>2. wire[i].n \in Nat /\ wire[i].n <= ttsMade
    BY <2>1, <1>t DEF WireInv
  <2>3. CASE j = n
    BY <2>1, <2>2, <2>3, <1>1, <1>2, <1>4
  <2>4. CASE j \in 1..Len(wire)
    BY <2>1, <2>4, <1>2, <1>4 DEF WireInv
  <2> QED
    BY <2>3, <2>4, <1>3
<1>9. ASSUME NEW k \in Nat, k > Len(played'), k <= ttsMade'
      PROVE  \E i \in 1..n : Audible(i)' /\ wire'[i].n = k
  <2>1. CASE k <= ttsMade
    <3>1. PICK i \in 1..Len(wire) : Audible(i) /\ wire[i].n = k
      BY <2>1, <1>9 DEF WireInv
    <3>2. i \in 1..n /\ Audible(i)' /\ wire'[i].n = k
      BY <3>1, <1>2, <1>4, <1>a
    <3> QED
      BY <3>2
  <2>2. CASE ~(k <= ttsMade)
    <3>1. f.kind = "audio" /\ f.n = k
      BY <2>2, <1>9, <1>1
    <3> QED
      BY <3>1, <1>2, <1>4, <1>a
  <2> QED
    BY <2>1, <2>2
<1>10. ASSUME NEW i \in 1..n, Audible(i)', wire'[i].last
       PROVE  wire'[i].n = Pieces
  <2>1. CASE i = n
    <3>1. f.last /\ f.kind = "audio"
      BY <1>10, <2>1, <1>2, <1>4, Zenon
    <3>2. f.n = Pieces
      BY <3>1, Zenon
    <3> QED
      BY <3>2, <2>1, <1>2, Zenon
  <2>2. CASE i \in 1..Len(wire)
    BY <2>2, <1>10, <1>2, <1>4, Zenon DEF WireInv
  <2> QED
    BY <2>1, <2>2, <1>3, Zenon
<1>11. \A i \in 1..n : wire'[i].kind = "close" =>
         over' /\ ttsMade' \in {0, Pieces} /\ \A j \in 1..n : j > i => ~Audible(j)'
  BY <1>2, <1>3, <1>h, <1>n
<1>12. ASSUME NEW i \in 1..n, wire'[i].kind = "frontend"
       PROVE  \/ ttsMade' = Pieces /\ \A j \in 1..n : j > i => ~Audible(j)'
              \/ Len(played') = 0 /\ \A j \in 1..n : j < i => ~Audible(j)'
  <2>1. CASE i = n
    <3>1. f.kind = "frontend" /\ ttsMade' = ttsMade /\ ttsMade \in {0, Pieces}
      BY <2>1, <1>12, <1>2
    <3>2. CASE ttsMade = Pieces
      BY <2>1, <3>1, <3>2, <1>1, <1>n
    <3>3. CASE ttsMade = 0
      <4>1. \A j \in 1..Len(wire) : ~Audible(j)
        BY <3>3, <1>1, <1>t DEF WireInv
      <4> QED
        BY <2>1, <3>3, <4>1, <1>1, <1>3, <1>4
    <3> QED
      BY <3>1, <3>2, <3>3
  <2>2. CASE i \in 1..Len(wire)
    <3>1. \/ ttsMade = Pieces /\ \A j \in 1..Len(wire) : j > i => ~Audible(j)
          \/ Len(played) = 0 /\ \A j \in 1..Len(wire) : j < i => ~Audible(j)
      BY <2>2, <1>12, <1>2 DEF WireInv
    <3>2. CASE ttsMade = Pieces /\ \A j \in 1..Len(wire) : j > i => ~Audible(j)
      <4>1. f.kind # "audio" /\ ttsMade' = Pieces
        BY <3>2, <1>1
      <4> QED
        BY <3>2, <4>1, <1>3, <1>4
    <3>3. CASE Len(played) = 0 /\ \A j \in 1..Len(wire) : j < i => ~Audible(j)
      BY <2>2, <3>3, <1>1, <1>3, <1>4, <1>n
    <3> QED
      BY <3>1, <3>2, <3>3
  <2> QED
    BY <2>1, <2>2, <1>3
<1> QED
  BY <1>2, <1>6, <1>7, <1>8, <1>9, <1>10, <1>11, <1>12 DEF WireInv

\* What the loop does with a frame, when nothing or the beginning of the wire is read.
LEMMA HandledTypes ==
  ASSUME SpeechTypes, NEW f \in Sound \cup Notice, Tts!Handle(f)
  PROVE  /\ timeouts' = 0 /\ quiet' = 0 /\ played' \in Seq(Nat)
         /\ played' = IF f.kind = "audio" THEN Append(played, f.n) ELSE played
<1>1. timeouts' = 0 /\ quiet' = 0 /\ played' = IF f.kind = "audio" THEN Append(played, f.n) ELSE played
  BY DEF Tts!Handle, Tts!Resumed
<1>2. f.kind = "audio" => f.n \in Nat
  BY DEF Sound, Notice
<1> QED
  BY <1>1, <1>2 DEF SpeechTypes

\* A frame of the wire is read.
LEMMA FrameRead ==
  ASSUME TtsInv, Tts!Receive
  PROVE  TtsInv'
<1>0. /\ ttsPc = "receive" /\ aligned /\ wire # <<>> /\ Tts!Handle(Head(wire)) /\ wire' = Tail(wire)
      /\ UNCHANGED <<ttsMade, over, aligned>>
  BY DEF Tts!Receive
<1>t. SpeechTypes /\ WireInv /\ InOrder /\ Complete /\ timeouts = quiet /\ ttsRet = "none"
  BY <1>0 DEF TtsInv
<1>l. Len(wire) \in Nat \ {0} /\ Len(played) \in Nat /\ ttsMade \in Nat /\ Head(wire) = wire[1] /\ 1 \in 1..Len(wire)
      /\ wire[1] \in Sound \cup Notice
  BY <1>0, <1>t DEF SpeechTypes
<1> DEFINE f == wire[1]
<1>1. /\ timeouts' = 0 /\ quiet' = 0 /\ played' \in Seq(Nat)
      /\ played' = IF f.kind = "audio" THEN Append(played, f.n) ELSE played
  BY <1>0, <1>t, <1>l, HandledTypes
<1>2. SpeechTypes'
  <2>1. Tail(wire) \in Seq(Sound \cup Notice)
    BY <1>0, <1>t DEF SpeechTypes
  <2> QED
    BY <2>1, <1>0, <1>1, <1>t DEF SpeechTypes
<1>3. WireInv'
  BY <1>0, <1>1, <1>t, <1>l, WireTaken DEF Audible
<1>n. f.kind = "audio" => f.n = Len(played) + 1
  BY <1>t, <1>l, NextPiece DEF Audible
<1>4. InOrder'
  <2>1. CASE f.kind = "audio"
    <3>1. played' = Append(played, Len(played) + 1)
      BY <2>1, <1>1, <1>n
    <3> QED
      BY <3>1, <1>t, <1>l DEF InOrder, SpeechTypes
  <2>2. CASE f.kind # "audio"
    BY <2>2, <1>1, <1>t DEF InOrder
  <2> QED
    BY <2>1, <2>2
<1>5. CASE UNCHANGED <<ttsPc, ttsRet>>
  BY <1>0, <1>1, <1>2, <1>3, <1>4, <1>5, <1>t DEF TtsInv, Complete
\* The loop ends: with an error, or everything has been played.
<1>6. ASSUME ttsPc' = "done", ttsRet' = "error" \/ Len(played') = Pieces
      PROVE  TtsInv'
  BY <1>0, <1>1, <1>2, <1>4, <1>6, <1>t DEF TtsInv, Complete
<1>7. CASE f.kind = "audio" /\ f.last
  <2>1. Tts!Ended(FALSE, Tts!Played + 1)
    BY <1>0, <1>l, <1>7 DEF Tts!Handle
  <2>2. Len(played') = Len(played) + 1
    BY <1>1, <1>7, <1>n, <1>l, <1>t DEF SpeechTypes
  <2>3. f.n = Pieces
    BY <1>7, <1>t, <1>l DEF WireInv, Audible
  <2> QED
    BY <2>1, <2>2, <2>3, <1>6, <1>7, <1>n DEF Tts!Ended
<1>8. CASE f.kind = "error"
  <2>1. Tts!Ended(TRUE, Tts!Played)
    BY <1>0, <1>l, <1>8 DEF Tts!Handle
  <2> QED
    BY <2>1, <1>6 DEF Tts!Ended
<1>9. CASE f.kind = "close" \/ (f.kind = "frontend" /\ Len(played) > 0)
  <2>1. Tts!Ended(FALSE, Tts!Played)
    <3>1. Tts!Handle(f)
      BY <1>0, <1>l
    <3>2. CASE f.kind = "close"
      BY <3>1, <3>2 DEF Tts!Handle
    <3>3. CASE f.kind = "frontend" /\ Len(played) > 0
      <4>1. Tts!Played > 0 /\ Tts!Played # 0
        BY <3>3, <1>l DEF Tts!Played
      <4> QED
        BY <3>1, <3>3, <4>1, Zenon DEF Tts!Handle
    <3> QED
      BY <1>9, <3>2, <3>3
  <2>2. \A i \in 1..Len(wire) : ~Audible(i)
    <3>1. ~Audible(1) /\ \A i \in 1..Len(wire) : i = 1 \/ i > 1
      BY <1>9, <1>l DEF Audible
    <3>2. \A i \in 1..Len(wire) : i > 1 => ~Audible(i)
      BY <1>9, <1>t, <1>l DEF WireInv
    <3> QED
      BY <3>1, <3>2
  <2>3. Len(played) = ttsMade
    BY <2>2, <1>t, Drained
  <2>4. Len(played) = 0 \/ ttsMade = Pieces
    BY <2>3, <1>9, <1>t, <1>l DEF WireInv
  <2>5. ttsPc' = "done" /\ (Len(played) = 0 => ttsRet' = "error")
    BY <2>1 DEF Tts!Ended, Tts!Played
  <2>6. played' = played
    BY <1>1, <1>9
  <2> QED
    BY <2>3, <2>4, <2>5, <2>6, <1>6
<1>10. CASE ~(f.kind = "audio" /\ f.last) /\ f.kind # "error" /\ ~(f.kind = "close" \/ (f.kind = "frontend" /\ Len(played) > 0))
  <2>1. Tts!Handle(f)
    BY <1>0, <1>l
  <2>2. CASE f.kind = "audio"
    BY <2>1, <2>2, <1>5, <1>10 DEF Tts!Handle
  <2>3. CASE f.kind # "audio"
    BY <2>1, <2>3, <1>5, <1>10 DEF Tts!Handle, Tts!Played
  <2> QED
    BY <2>2, <2>3
<1> QED
  BY <1>7, <1>8, <1>9, <1>10, Zenon

\* Every step of the speech keeps its invariant.
LEMMA TtsKept ==
  ASSUME TtsInv, Tts!Next \/ UNCHANGED ttsVars
  PROVE  TtsInv'
<1>t. SpeechTypes /\ MaxTimeouts \in Nat /\ Pieces \in Nat
  BY SpeechAssumption DEF TtsInv
<1>1. CASE UNCHANGED ttsVars
  BY <1>1 DEF ttsVars, TtsInv, SpeechTypes, WireInv, Audible, InOrder, Complete
<1>2. CASE Tts!Connect \/ Tts!Upgrade \/ Tts!Request
  <2>1. /\ UNCHANGED <<played, timeouts, quiet, aligned, wire, ttsMade, over>> /\ ttsPc # "done"
        /\ (ttsPc' # "done" /\ ttsRet' = ttsRet) \/ (ttsPc' = "done" /\ ttsRet' = "error")
    BY <1>2 DEF Tts!Connect, Tts!Upgrade, Tts!Request, Tts!Stage, Tts!received, Tts!service
  <2>2. SpeechTypes' /\ (WireInv => WireInv') /\ (InOrder => InOrder')
    BY <2>1, <1>t DEF SpeechTypes, WireInv, Audible, InOrder
  <2> QED
    BY <2>1, <2>2 DEF TtsInv, Complete
<1>3. CASE Tts!Serve
  <2>1. ttsPc = "receive" /\ ~over /\ UNCHANGED <<ttsPc, ttsRet, played, timeouts, quiet, aligned>>
    BY <1>3 DEF Tts!Serve, Tts!received
  <2>2. PICK f \in Sound \cup Notice :
          /\ wire' = Append(wire, f) /\ over' \in BOOLEAN
          /\ \/ f.kind = "audio" /\ f.n = ttsMade + 1 /\ (f.last => f.n = Pieces) /\ ttsMade' = ttsMade + 1 /\ ttsMade < Pieces
             \/ /\ f.kind # "audio" /\ ttsMade' = ttsMade
                /\ f.kind = "close" => over'
                /\ f.kind \in {"frontend", "close"} => ttsMade \in {0, Pieces}
    <3>1. CASE ttsMade < Pieces /\ ttsMade' = ttsMade + 1
               /\ \E ends \in {ttsMade + 1 = Pieces, FALSE} :
                    over' = ends /\ wire' = Append(wire, [kind |-> "audio", n |-> ttsMade + 1, last |-> ends])
      <4>1. PICK ends \in {ttsMade + 1 = Pieces, FALSE} :
                   over' = ends /\ wire' = Append(wire, [kind |-> "audio", n |-> ttsMade + 1, last |-> ends])
        BY <3>1
      <4>2. ends \in BOOLEAN /\ (ends => ttsMade + 1 = Pieces) /\ ttsMade + 1 \in Nat
        <5>1. ttsMade + 1 \in Nat
          BY <1>t DEF SpeechTypes
        <5>2. ends = FALSE \/ ends = (ttsMade + 1 = Pieces)
          BY <4>1, Zenon
        <5>3. ends \in BOOLEAN /\ (ends => ttsMade + 1 = Pieces)
          BY <5>2, Zenon
        <5> QED
          BY <5>1, <5>3, Zenon
      <4> DEFINE f == [kind |-> "audio", n |-> ttsMade + 1, last |-> ends]
      <4>3. f \in Sound /\ f.kind = "audio" /\ f.n = ttsMade + 1 /\ f.last = ends
        BY <4>2 DEF Sound
      <4>4. wire' = Append(wire, f) /\ over' \in BOOLEAN /\ (f.last => f.n = Pieces)
        BY <4>1, <4>2, <4>3, Zenon
      <4> HIDE DEF f
      <4> QED
        BY <3>1, <4>3, <4>4, Zenon
    <3>2. CASE ttsMade' = ttsMade
               /\ \E k \in {"ack", "short", "error"} \cup (IF ttsMade \in {0, Pieces} THEN {"frontend", "close"} ELSE {}) :
                    over' = (k \in {"error", "close"}) /\ wire' = Append(wire, [kind |-> k])
      <4>1. PICK k \in {"ack", "short", "error"} \cup (IF ttsMade \in {0, Pieces} THEN {"frontend", "close"} ELSE {}) :
                   over' = (k \in {"error", "close"}) /\ wire' = Append(wire, [kind |-> k])
        BY <3>2
      <4>2. k \in {"ack", "short", "error", "close", "frontend"} /\ (k \in {"frontend", "close"} => ttsMade \in {0, Pieces})
        OBVIOUS
      <4> DEFINE f == [kind |-> k]
      <4>3. f \in Notice /\ f.kind = k /\ f.kind # "audio"
        BY <4>2 DEF Notice
      <4>4. wire' = Append(wire, f) /\ over' \in BOOLEAN
        BY <4>1
      <4>5. f.kind = "close" => over'
        BY <4>1, <4>3
      <4>6. f.kind \in {"frontend", "close"} => ttsMade \in {0, Pieces}
        BY <4>2, <4>3, Zenon
      <4> HIDE DEF f
      <4> QED
        BY <3>2, <4>3, <4>4, <4>5, <4>6, Zenon
    <3> QED
      BY <1>3, <3>1, <3>2 DEF Tts!Serve
  <2>3. SpeechTypes'
    <3>1. wire' \in Seq(Sound \cup Notice)
      BY <2>2, <1>t DEF SpeechTypes
    <3>2. ttsMade' \in Nat
      BY <2>2, <1>t DEF SpeechTypes
    <3> QED
      BY <2>1, <2>2, <3>1, <3>2, <1>t, Zenon DEF SpeechTypes
  <2>4. aligned => WireInv'
    <3> SUFFICES ASSUME aligned PROVE WireInv'
      OBVIOUS
    <3>1. WireInv
      BY <2>1 DEF TtsInv
    <3> QED
      BY <3>1, <2>1, <2>2, <1>t, WireGrows
  <2>5. InOrder => InOrder'
    BY <2>1 DEF InOrder
  <2> QED
    BY <2>1, <2>3, <2>4, <2>5 DEF TtsInv, Complete
<1>4. CASE Tts!Receive
  BY <1>4, FrameRead
<1>5. CASE Tts!Misread
  <2>1. /\ ttsPc = "receive" /\ ~aligned /\ wire # <<>> /\ wire' = Tail(wire) /\ UNCHANGED <<ttsMade, over, aligned>>
        /\ \E f \in Tts!Noise : Tts!Handle(f)
    BY <1>5 DEF Tts!Misread
  <2>2. PICK f \in Sound \cup Notice : Tts!Handle(f)
    BY <2>1 DEF Tts!Noise, Sound, Notice
  <2>3. timeouts' = 0 /\ quiet' = 0 /\ played' \in Seq(Nat)
    BY <2>2, <1>t, HandledTypes
  <2>4. Tail(wire) \in Seq(Sound \cup Notice)
    BY <2>1, <1>t DEF SpeechTypes
  <2>5. SpeechTypes'
    BY <2>1, <2>3, <2>4, <1>t DEF SpeechTypes
  <2>6. ttsPc' = "done" \/ ttsRet' = ttsRet
    BY <2>2 DEF Tts!Handle, Tts!Ended
  <2> QED
    BY <2>1, <2>3, <2>5, <2>6 DEF TtsInv
<1>6. CASE Tts!Stall
  <2>1. ttsPc = "receive" /\ aligned' \in BOOLEAN /\ (aligned' => aligned) /\ quiet' = quiet + 1
        /\ UNCHANGED <<played, wire, ttsMade, over>>
    BY <1>6, <1>t DEF Tts!Stall, Tts!service, SpeechTypes
  <2>2. timeouts = quiet /\ ttsRet = "none" /\ timeouts \in Nat /\ quiet \in Nat /\ Len(played) \in Nat
    BY <2>1, <1>t DEF TtsInv, SpeechTypes
  <2>3. /\ timeouts' \in Nat
        /\ \/ ttsPc' = "receive" /\ ttsRet' = "none" /\ timeouts' = timeouts + 1
           \/ ttsPc' = "done" /\ (ttsRet' = "error" \/ ~(quiet' < MaxTimeouts))
    BY <1>6, <2>1, <2>2, <1>t DEF Tts!Stall, Tts!Ended, Tts!Played
  <2>4. SpeechTypes'
    BY <2>1, <2>2, <2>3, <1>t DEF SpeechTypes
  <2>5. (WireInv => WireInv') /\ (InOrder => InOrder')
    BY <2>1 DEF WireInv, Audible, InOrder
  <2>6. aligned => WireInv /\ InOrder
    BY <2>1 DEF TtsInv
  <2>7. ttsPc' # "done" => timeouts' = quiet' /\ ttsRet' = "none"
    BY <2>1, <2>2, <2>3
  <2>8. Complete'
    BY <2>3 DEF Complete
  <2> QED
    BY <2>1, <2>4, <2>5, <2>6, <2>7, <2>8 DEF TtsInv
<1>7. CASE Tts!Broken
  <2>1. ttsPc = "receive" /\ ttsPc' = "done" /\ UNCHANGED <<played, timeouts, quiet, aligned, wire, ttsMade>>
    BY <1>7 DEF Tts!Broken, Tts!Ended, Tts!received
  <2>2. (ttsRet' = "error" /\ over' = over) \/ (ttsRet' \in {"error", "ok"} /\ wire = <<>> /\ over' = TRUE)
    BY <1>7 DEF Tts!Broken, Tts!Ended
  <2>3. SpeechTypes'
    BY <2>1, <2>2, <1>t DEF SpeechTypes
  <2>4. aligned => InOrder'
    BY <2>1 DEF TtsInv, InOrder
  <2>5. aligned => Complete'
    <3> SUFFICES ASSUME aligned, ttsRet' # "error" PROVE Complete'
      BY DEF Complete
    <3>1. WireInv /\ Len(wire) = 0
      BY <2>1, <2>2 DEF TtsInv
    <3>2. Len(played) = ttsMade
      BY <3>1, <1>t, Drained
    <3> QED
      BY <2>1, <2>2, <3>2 DEF Complete
  <2> QED
    BY <2>1, <2>3, <2>4, <2>5 DEF TtsInv
<1> QED
  BY <1>1, <1>2, <1>3, <1>4, <1>5, <1>6, <1>7 DEF Tts!Next

\* The invariant of the speech holds whenever it moves.
LEMMA TtsHolds == PartsSpec => [](part = "tts" => TtsInv)
<1>1. PartsInit => TtsInv
  <2> SUFFICES ASSUME Tts!Init PROVE TtsInv
    BY DEF PartsInit
  <2>1. /\ ttsPc = "connect" /\ ttsRet = "none" /\ played = <<>> /\ wire = <<>> /\ ttsMade = 0 /\ timeouts = 0 /\ quiet = 0
        /\ over = FALSE /\ aligned = TRUE
    BY Zenon DEF Tts!Init
  <2>2. SpeechTypes
    <3>1. played \in Seq(Nat) /\ wire \in Seq(Sound \cup Notice) /\ ttsMade \in Nat /\ timeouts \in Nat /\ quiet \in Nat
      BY <2>1
    <3> QED
      BY <2>1, <3>1, Zenon DEF SpeechTypes
  <2>3. Len(played) = 0 /\ Len(wire) = 0
    BY <2>1
  <2>4. WireInv /\ InOrder
    BY <2>1, <2>3 DEF WireInv, InOrder
  <2> QED
    BY <2>1, <2>2, <2>4 DEF TtsInv, Complete
<1>2. (part = "tts" => TtsInv) /\ [PartsNext]_<<part, moving>> => (part = "tts" => TtsInv)'
  <2> SUFFICES ASSUME part = "tts" => TtsInv, [PartsNext]_<<part, moving>>, part' = "tts"
               PROVE  TtsInv'
    OBVIOUS
  <2>1. part = "tts"
    BY DEF PartsNext, moving
  <2> QED
    BY <2>1, TtsMoves, TtsKept
<1> QED
  BY <1>1, <1>2, PTL DEF PartsSpec

\* What is played is what was sent.
LEMMA TtsForgives == TtsInv => Tts!StallsAreForgiven
  BY DEF TtsInv, InOrder, Complete, Tts!StallsAreForgiven, Tts!Played

-----------------------------------------------------------------------------
(* The skills of the assistant: SkillSync. *)

\* A step of the model is one of the skills, or leaves them alone.
LEMMA SkillsMove ==
  ASSUME [PartsNext]_<<part, moving>>
  PROVE  [Skills!Next]_(Skills!vars)
<1>1. UNCHANGED skillsVars => UNCHANGED Skills!vars
  BY DEF skillsVars, Skills!vars, Skills!boot, Skills!sync, Skills!rest
<1>2. CASE PartsNext
  <2>1. part # "skills" => UNCHANGED skillsVars
    BY <1>2 DEF PartsNext, OthersStay
  <2>2. part = "skills" => Skills!Next
    BY <1>2 DEF PartsNext
  <2> QED
    BY <1>1, <2>1, <2>2
<1>3. CASE UNCHANGED <<part, moving>>
  BY <1>1, <1>3 DEF moving
<1> QED
  BY <1>2, <1>3

BuiltIns == Managed \cup Shipped
\* The skills of the table that no built-in one is named like.
Fetched == Skills!InTable \ BuiltIns
\* The file of k is of the version v, or not of the table any more, or spoilt.
Holds(k, v) == k \in spoilt \/ files[k] \in {v, Skills!Gone, Skills!Own}
Row(t) == Table[page[t]]
Versions == [Skills!InTable -> Nat]

\* A call knows no version that the table had not; what its map has of the present
\* version is whole, and so is what it met, but for the one it writes.
Call(t) ==
  /\ \A k \in Skills!InTable : skillSeen[t][k] <= skillTable[k] /\ map[t][k] <= skillTable[k]
  /\ ~full => \A k \in Skills!InTable : versions[k] <= map[t][k]
  /\ ~full => \A k \in Fetched : map[t][k] # 0 /\ map[t][k] = skillTable[k] => Holds(k, map[t][k])
  /\ skillPc[t] = "write" =>
       /\ Row(t) \in Skills!InTable /\ skillSeen[t][Row(t)] # 0
       /\ ~full => map[t][Row(t)] < skillSeen[t][Row(t)]
       /\ Row(t) \in Fetched => files[Row(t)] \in {Skills!Torn, Skills!Gone, Skills!Own}
  /\ ~skillBad[t] => \A k \in Fetched :
       skillSeen[t][k] # 0 /\ ~(skillPc[t] = "write" /\ k = Row(t)) => Holds(k, skillSeen[t][k])
SkillTypes ==
  /\ skillTable \in Versions /\ versions \in Versions
  /\ map \in [SkillSyncs -> Versions] /\ skillSeen \in [SkillSyncs -> Versions]
  /\ files \in [Skills!Names -> Int]
  /\ page \in [SkillSyncs -> Nat \ {0}]
  /\ skillBad \in [SkillSyncs -> BOOLEAN]
  /\ skillPc \in [SkillSyncs -> {"idle", "fetch", "write", "clean", "save"}]
  /\ todo \subseteq BuiltIns /\ skillOpen \in BuiltIns \cup {"none"}
\* No two calls are under way at once.
OneBusy == \A t, u \in SkillSyncs : t # u => skillPc[t] = "idle" \/ skillPc[u] = "idle"
SkillsInv ==
  /\ SkillTypes /\ OneBusy
  /\ \A k \in Skills!InTable : versions[k] <= skillTable[k]
  /\ ~full => \A k \in Fetched : versions[k] # 0 /\ versions[k] = skillTable[k] => Holds(k, versions[k])
  /\ \A t \in SkillSyncs : skillPc[t] # "idle" => ~booting /\ Call(t)

\* Where the names of the skills come from, and what an empty map holds.
LEMMA SkillNames ==
  /\ Skills!InTable \subseteq Skills!Names /\ Fetched \subseteq Skills!InTable
  /\ BuiltIns \subseteq Skills!Names
  /\ Len(Table) \in Nat /\ \A i \in 1..Len(Table) : Table[i] \in Skills!InTable
  /\ Skills!NoMap \in Versions /\ \A k \in Skills!InTable : Skills!NoMap[k] = 0
<1>1. Skills!InTable \subseteq Skills!Names /\ Fetched \subseteq Skills!InTable /\ BuiltIns \subseteq Skills!Names
  BY Zenon DEF Skills!Names, Fetched, BuiltIns
<1>2. Table \in Seq(Skills!InTable)
  BY Zenon, SkillsAssumption DEF Skills!InTable
<1>3. Len(Table) \in Nat /\ \A i \in 1..Len(Table) : Table[i] \in Skills!InTable
  BY <1>2
<1>4. Skills!NoMap \in Versions /\ \A k \in Skills!InTable : Skills!NoMap[k] = 0
  BY DEF Skills!NoMap, Versions
<1> QED
  BY <1>1, <1>3, <1>4

\* The file of k stays as it is, and what is said of it, or is none of the table's.
FileGoes(k) == \/ files'[k] \in {Skills!Gone, Skills!Own}
               \/ files'[k] = files[k] /\ (k \in spoilt => k \in spoilt')

\* What changes no file of a fetched skill but to one's own or none, and no version,
\* leaves the calls as they are.
LEMMA FilesGo ==
  ASSUME SkillsInv, UNCHANGED <<full, skillTable, versions, page, map, skillSeen, skillBad>>,
         files' \in [Skills!Names -> Int],
         todo' \subseteq BuiltIns, skillOpen' \in BuiltIns \cup {"none"},
         \A k \in Fetched : FileGoes(k),
         skillPc' \in [SkillSyncs -> {"idle", "fetch", "write", "clean", "save"}],
         \A t \in SkillSyncs : skillPc'[t] # "idle" =>
           /\ skillPc[t] # "idle" /\ (skillPc'[t] = "write" <=> skillPc[t] = "write") /\ ~booting'
  PROVE  SkillsInv'
<1>1. \A v : \A k \in Fetched : Holds(k, v) => Holds(k, v)'
  BY DEF Holds, FileGoes
<1>2. SkillTypes' /\ OneBusy'
  BY DEF SkillsInv, SkillTypes, OneBusy
<1>3. ~full' => \A k \in Fetched : versions'[k] # 0 /\ versions'[k] = skillTable'[k] => Holds(k, versions[k])'
  BY <1>1 DEF SkillsInv
<1>4. ASSUME NEW t \in SkillSyncs, skillPc'[t] # "idle" PROVE Call(t)'
  <2>1. Call(t) /\ (skillPc'[t] = "write" <=> skillPc[t] = "write") /\ Row(t)' = Row(t)
    BY <1>4 DEF SkillsInv, Row
  <2>2. skillPc'[t] = "write" /\ Row(t) \in Fetched => files'[Row(t)] \in {Skills!Torn, Skills!Gone, Skills!Own}
    BY <2>1 DEF Call, FileGoes
  <2> QED
    BY <2>1, <2>2, <1>1 DEF Call, Row
<1> QED
  BY <1>2, <1>3, <1>4 DEF SkillsInv

\* A step of the only call there is.
LEMMA SkillsOnly ==
  ASSUME SkillTypes', NEW t \in SkillSyncs, \A u \in SkillSyncs \ {t} : skillPc'[u] = "idle",
         skillPc'[t] # "idle" => ~booting' /\ Call(t)',
         \A k \in Skills!InTable : versions'[k] <= skillTable'[k],
         ~full' => \A k \in Fetched : versions'[k] # 0 /\ versions'[k] = skillTable'[k] => Holds(k, versions[k])'
  PROVE  SkillsInv'
<1>1. OneBusy'
  BY DEF OneBusy
<1>2. \A u \in SkillSyncs : skillPc'[u] # "idle" => ~booting' /\ Call(u)'
  <2> TAKE u \in SkillSyncs
  <2>1. CASE u = t
    BY <2>1
  <2>2. CASE u # t
    BY <2>2
  <2> QED
    BY <2>1, <2>2
<1> QED
  BY <1>1, <1>2 DEF SkillsInv
\* While one is under way, the others are not.
LEMMA OthersIdle ==
  ASSUME SkillsInv, NEW t \in SkillSyncs, skillPc[t] # "idle" \/ ~skillsCrossed', NEW x,
         skillPc' = [skillPc EXCEPT ![t] = x] \/ skillPc' = skillPc,
         Skills!Start(t) \/ skillPc[t] # "idle"
  PROVE  \A u \in SkillSyncs \ {t} : skillPc'[u] = "idle"
  BY DEF SkillsInv, OneBusy, SkillTypes, Skills!Start

\* A synchronisation that begins takes the map as it is, or an empty one.
LEMMA SkillsStart ==
  ASSUME SkillsInv, ~skillsCrossed', NEW t \in SkillSyncs, Skills!Start(t)
  PROVE  SkillsInv'
<1> DEFINE m == IF full THEN Skills!NoMap ELSE versions
<1>1. /\ ~booting /\ skillPc' = [skillPc EXCEPT ![t] = "fetch"] /\ page' = [page EXCEPT ![t] = 1]
      /\ map' = [map EXCEPT ![t] = m] /\ skillSeen' = [skillSeen EXCEPT ![t] = Skills!NoMap]
      /\ skillBad' = [skillBad EXCEPT ![t] = FALSE]
      /\ UNCHANGED <<full, skillTable, files, versions, booting, todo, skillOpen, spoilt>>
  BY Zenon DEF Skills!Start, Skills!boot
<1>2. SkillTypes /\ m \in Versions /\ (full => m = Skills!NoMap) /\ (~full => m = versions)
  BY SkillNames DEF SkillsInv, SkillTypes
<1> HIDE DEF m
<1>3. /\ skillPc'[t] = "fetch" /\ map'[t] = m /\ skillSeen'[t] = Skills!NoMap /\ skillBad'[t] = FALSE
      /\ SkillTypes'
  BY <1>1, <1>2, SkillNames DEF SkillTypes
<1>4. \A k \in Skills!InTable : m[k] <= skillTable[k]
  BY <1>2, SkillNames DEF SkillsInv, SkillTypes, Versions
<1>5. \A k \in Skills!InTable : Skills!NoMap[k] <= skillTable[k]
  BY <1>2, SkillNames DEF SkillTypes, Versions
<1>6. ~full => \A k \in Skills!InTable : versions[k] <= m[k]
  BY <1>2 DEF SkillTypes, Versions
<1>7. ~full => \A k \in Fetched : m[k] # 0 /\ m[k] = skillTable[k] => Holds(k, m[k])
  BY <1>1, <1>2 DEF SkillsInv
<1>8. \A k \in Fetched : Skills!NoMap[k] = 0
  BY SkillNames
<1>9. Call(t)'
  BY <1>1, <1>3, <1>4, <1>5, <1>6, <1>7, <1>8 DEF Call, Holds
<1>10. \A u \in SkillSyncs \ {t} : skillPc'[u] = "idle"
  BY <1>1, OthersIdle
<1>11. ~full' => \A k \in Fetched : versions'[k] # 0 /\ versions'[k] = skillTable'[k] => Holds(k, versions[k])'
  BY <1>1 DEF SkillsInv, Holds
<1> HIDE DEF m
<1> QED
  BY <1>1, <1>3, <1>9, <1>10, <1>11, SkillsOnly DEF SkillsInv

\* The end of the pages, and of the call.
LEMMA SkillsEnd ==
  ASSUME SkillsInv, NEW t \in SkillSyncs,
         Skills!NoPage(t) \/ Skills!Truncate(t) \/ Skills!Save(t)
  PROVE  SkillsInv'
<1>0. SkillTypes /\ skillPc[t] # "idle" /\ Call(t) /\ ~booting /\ UNCHANGED <<full, skillTable, files, booting, todo, skillOpen, page, map, skillSeen, spoilt>>
  BY DEF SkillsInv, Skills!NoPage, Skills!Truncate, Skills!Save, Skills!boot, Skills!rest
<1>h. \A k \in Fetched : \A v : Holds(k, v) => Holds(k, v)'
  BY <1>0 DEF Holds
<1>1. CASE Skills!NoPage(t)
  <2>1. /\ skillPc[t] = "fetch" /\ skillPc' = [skillPc EXCEPT ![t] = "clean"] /\ UNCHANGED versions
        /\ skillBad' = skillBad \/ skillBad' = [skillBad EXCEPT ![t] = TRUE]
    BY <1>1 DEF Skills!NoPage
  <2>2. SkillTypes' /\ skillPc'[t] = "clean" /\ (~skillBad'[t] => ~skillBad[t])
    BY <1>0, <2>1 DEF SkillTypes
  <2>3. Call(t)'
    BY <1>0, <2>1, <2>2 DEF Call, Holds, Row
  <2>4. \A u \in SkillSyncs \ {t} : skillPc'[u] = "idle"
    BY <1>0, <2>1, OthersIdle
  <2>5. ~full' => \A k \in Fetched : versions'[k] # 0 /\ versions'[k] = skillTable'[k] => Holds(k, versions[k])'
    BY <1>0, <1>h, <2>1 DEF SkillsInv
  <2> QED
    BY <1>0, <2>1, <2>2, <2>3, <2>4, <2>5, SkillsOnly DEF SkillsInv
<1>2. CASE Skills!Truncate(t)
  <2>1. /\ skillPc[t] = "clean" /\ UNCHANGED skillBad
        /\ \/ versions' = Skills!NoMap /\ skillPc' = [skillPc EXCEPT ![t] = "save"]
           \/ UNCHANGED versions /\ skillPc' = [skillPc EXCEPT ![t] = "idle"]
    BY <1>2 DEF Skills!Truncate
  <2>2. CASE versions' = Skills!NoMap /\ skillPc' = [skillPc EXCEPT ![t] = "save"]
    <3>1. SkillTypes' /\ skillPc'[t] = "save"
      BY <1>0, <2>1, <2>2, SkillNames DEF SkillTypes
    <3>2. \A k \in Skills!InTable : versions'[k] = 0 /\ skillTable[k] \in Nat /\ map[t][k] \in Nat
      BY <1>0, <2>2, SkillNames DEF SkillTypes, Versions
    <3>3. \A k \in Skills!InTable : versions'[k] <= skillTable[k] /\ versions'[k] <= map[t][k]
      BY <3>2
    <3>4. Call(t)'
      BY <1>0, <2>1, <3>1, <3>3 DEF Call, Holds, Row
    <3>5. \A k \in Fetched : versions'[k] = 0
      BY <3>2, SkillNames
    <3>6. \A u \in SkillSyncs \ {t} : skillPc'[u] = "idle"
      BY <1>0, <2>2, OthersIdle
    <3> QED
      BY <1>0, <3>1, <3>3, <3>4, <3>5, <3>6, SkillsOnly
  <2>3. CASE UNCHANGED versions /\ skillPc' = [skillPc EXCEPT ![t] = "idle"]
    <3>1. SkillTypes' /\ skillPc'[t] = "idle"
      BY <1>0, <2>1, <2>3 DEF SkillTypes
    <3>2. \A u \in SkillSyncs \ {t} : skillPc'[u] = "idle"
      BY <1>0, <2>3, OthersIdle
    <3>3. ~full' => \A k \in Fetched : versions'[k] # 0 /\ versions'[k] = skillTable'[k] => Holds(k, versions[k])'
      BY <1>0, <1>h, <2>3 DEF SkillsInv
    <3> QED
      BY <1>0, <2>3, <3>1, <3>2, <3>3, SkillsOnly DEF SkillsInv
  <2> QED
    BY <2>1, <2>2, <2>3
<1>3. CASE Skills!Save(t)
  <2>1. /\ skillPc[t] = "save" /\ skillPc' = [skillPc EXCEPT ![t] = "idle"] /\ UNCHANGED skillBad
        /\ versions' = map[t] \/ versions' = Skills!NoMap
    BY <1>3 DEF Skills!Save
  <2>2. SkillTypes' /\ skillPc'[t] = "idle"
    BY <1>0, <2>1, SkillNames DEF SkillTypes
  <2>3. \A u \in SkillSyncs \ {t} : skillPc'[u] = "idle"
    BY <1>0, <2>1, OthersIdle
  <2>4. CASE versions' = map[t]
    <3>1. \A k \in Skills!InTable : versions'[k] <= skillTable'[k]
      BY <1>0, <2>4 DEF Call
    <3>2. ~full' => \A k \in Fetched : versions'[k] # 0 /\ versions'[k] = skillTable'[k] => Holds(k, versions[k])'
      BY <1>0, <1>h, <2>4 DEF Call
    <3> QED
      BY <2>2, <2>3, <3>1, <3>2, SkillsOnly
  <2>5. CASE versions' = Skills!NoMap
    <3>1. \A k \in Skills!InTable : versions'[k] = 0 /\ skillTable'[k] \in Nat
      BY <1>0, <2>5, SkillNames DEF SkillTypes, Versions
    <3>2. \A k \in Skills!InTable : versions'[k] <= skillTable'[k]
      BY <3>1
    <3>3. \A k \in Fetched : versions'[k] = 0
      BY <3>1, SkillNames
    <3> QED
      BY <2>2, <2>3, <3>2, <3>3, SkillsOnly
  <2> QED
    BY <2>1, <2>4, <2>5
<1> QED
  BY <1>1, <1>2, <1>3

\* A page: a row with the version of the map, one that cannot be written, or the
\* beginning of a write.
LEMMA SkillsPage ==
  ASSUME SkillsInv, NEW t \in SkillSyncs, Skills!Page(t)
  PROVE  SkillsInv'
<1> DEFINE k == Row(t)
           v == skillTable[k]
           next == page' = [page EXCEPT ![t] = @ + 1] /\ UNCHANGED skillPc
<1>1. /\ skillPc[t] = "fetch" /\ page[t] <= Len(Table)
      /\ skillSeen' = [skillSeen EXCEPT ![t][k] = v]
      /\ \/ (v = 0 \/ Skills!Same(t, k)) /\ next /\ UNCHANGED <<files, map, skillBad, spoilt>>
         \/ /\ v # 0 /\ ~Skills!Same(t, k) /\ skillPc' = [skillPc EXCEPT ![t] = "write"]
            /\ files' = [files EXCEPT ![k] = Skills!Torn] /\ spoilt' = spoilt \ {k}
            /\ UNCHANGED <<page, map, skillBad>>
         \/ /\ v # 0 /\ next /\ skillBad' = [skillBad EXCEPT ![t] = TRUE] /\ UNCHANGED <<files, map, spoilt>>
      /\ UNCHANGED <<full, skillTable, versions, booting, todo, skillOpen>>
  <2>1. map' = [map EXCEPT ![t] = map[t]] => map' = map
    BY DEF SkillsInv, SkillTypes
  <2> QED
    BY <2>1 DEF Skills!Page, Skills!boot, Skills!Refused, Row
<1>2. SkillTypes /\ Call(t) /\ ~booting
  BY <1>1 DEF SkillsInv
<1>3. k \in Skills!InTable /\ k \in Skills!Names /\ v \in Nat
  BY <1>1, <1>2, SkillNames DEF SkillTypes, Versions, Row
<1> HIDE DEF k, v
<1>4. /\ skillSeen' \in [SkillSyncs -> Versions] /\ skillSeen'[t][k] = v
      /\ \A j \in Skills!InTable : j # k => skillSeen'[t][j] = skillSeen[t][j]
  <2>1. skillSeen[t] \in Versions /\ skillSeen'[t] = [skillSeen[t] EXCEPT ![k] = v]
    BY <1>1, <1>2 DEF SkillTypes
  <2>2. skillSeen'[t] \in Versions /\ skillSeen'[t][k] = v /\ \A j \in Skills!InTable : j # k => skillSeen'[t][j] = skillSeen[t][j]
    BY <2>1, <1>3 DEF Versions
  <2>3. skillSeen' = [skillSeen EXCEPT ![t] = [skillSeen[t] EXCEPT ![k] = v]]
    BY <1>1, <1>2 DEF SkillTypes
  <2>4. skillSeen' \in [SkillSyncs -> Versions]
    BY <1>2, <2>1, <2>2, <2>3 DEF SkillTypes
  <2> QED
    BY <2>2, <2>4
<1>5. \A j \in Skills!InTable : skillSeen'[t][j] <= skillTable[j]
  <2> TAKE j \in Skills!InTable
  <2>1. CASE j = k
    BY <2>1, <1>3, <1>4 DEF v
  <2>2. CASE j # k
    BY <2>2, <1>2, <1>4 DEF Call
  <2> QED
    BY <2>1, <2>2
<1>6. k \in Fetched /\ v # 0 /\ Skills!Same(t, k) => Holds(k, v)
  BY <1>2 DEF Skills!Same, Call, v
<1>7. ASSUME next, UNCHANGED <<files, map, spoilt>>, (skillBad' = skillBad /\ (v = 0 \/ Skills!Same(t, k))) \/ skillBad' = [skillBad EXCEPT ![t] = TRUE]
      PROVE  SkillsInv'
  <2>0. skillBad' \in [SkillSyncs -> BOOLEAN] /\ (~skillBad'[t] => ~skillBad[t] /\ (v = 0 \/ Skills!Same(t, k)))
    <3>1. CASE skillBad' = skillBad /\ (v = 0 \/ Skills!Same(t, k))
      BY <1>2, <3>1 DEF SkillTypes
    <3>2. CASE skillBad' = [skillBad EXCEPT ![t] = TRUE]
      BY <1>2, <3>2 DEF SkillTypes
    <3> QED
      BY <1>7, <3>1, <3>2
  <2>1. skillPc'[t] = "fetch" /\ SkillTypes'
    <3>1. page' \in [SkillSyncs -> Nat \ {0}] /\ skillPc' = skillPc
      BY <1>2, <1>7 DEF SkillTypes
    <3>2. UNCHANGED <<skillTable, versions, map, files, todo, skillOpen>>
      BY <1>1, <1>7
    <3> HIDE DEF next
    <3> QED
      BY <1>1, <1>2, <1>4, <2>0, <3>1, <3>2, Zenon DEF SkillTypes
  <2>2. ASSUME ~skillBad'[t], NEW j \in Fetched, skillSeen'[t][j] # 0 PROVE Holds(j, skillSeen'[t][j])
    <3>1. CASE j = k
      BY <2>0, <2>1, <2>2, <3>1, <1>4, <1>6
    <3>2. CASE j # k
      BY <2>0, <2>1, <2>2, <3>2, <1>1, <1>2, <1>4, SkillNames DEF Call
    <3> QED
      BY <3>1, <3>2
  <2>3. Call(t)'
    BY <1>1, <1>2, <1>5, <1>7, <2>0, <2>1, <2>2 DEF Call, Holds
  <2>4. \A u \in SkillSyncs \ {t} : skillPc'[u] = "idle"
    BY <1>1, <1>7, OthersIdle
  <2>5. ~full' => \A j \in Fetched : versions'[j] # 0 /\ versions'[j] = skillTable'[j] => Holds(j, versions[j])'
    BY <1>1, <1>7 DEF SkillsInv, Holds
  <2> QED
    BY <1>1, <1>2, <1>7, <2>1, <2>3, <2>4, <2>5, SkillsOnly DEF SkillsInv
<1>8. ASSUME v # 0, ~Skills!Same(t, k), skillPc' = [skillPc EXCEPT ![t] = "write"],
             files' = [files EXCEPT ![k] = Skills!Torn], spoilt' = spoilt \ {k},
             UNCHANGED <<page, map, skillBad>>
      PROVE  SkillsInv'
  <2>1. skillPc'[t] = "write" /\ SkillTypes' /\ \A j \in Skills!Names : j # k => files'[j] = files[j]
    <3>1. Skills!Torn \in Int
      BY DEF Skills!Torn
    <3> QED
      BY <3>1, <1>1, <1>2, <1>3, <1>4, <1>8 DEF SkillTypes
  <2>2. ~full => map[t][k] < v /\ versions[k] < v
    <3>1. map[t][k] \in Nat /\ versions[k] \in Nat /\ map[t][k] <= v
      BY <1>2, <1>3 DEF SkillTypes, Versions, Call, v
    <3>2. ~full => map[t][k] # v /\ versions[k] <= map[t][k]
      BY <1>2, <1>3, <1>8 DEF Skills!Same, Call, v
    <3> QED
      BY <1>3, <3>1, <3>2
  <2>3. \A x : \A j \in Fetched : j # k /\ Holds(j, x) => Holds(j, x)'
    BY <1>8, <2>1, SkillNames DEF Holds
  <2>4. Row(t)' = k
    BY <1>8 DEF Row, k
  <2>5. ~full => \A j \in Fetched : map[t][j] # 0 /\ map[t][j] = skillTable[j] => Holds(j, map[t][j])'
    <3> SUFFICES ASSUME ~full, NEW j \in Fetched, map[t][j] # 0, map[t][j] = skillTable[j]
                 PROVE  Holds(j, map[t][j])'
      BY <1>8
    <3>1. j # k /\ Holds(j, map[t][j])
      BY <1>2, <1>3, <2>2 DEF Call, v
    <3> QED
      BY <1>8, <2>3, <3>1
  <2>6. ASSUME ~skillBad[t], NEW j \in Fetched, skillSeen'[t][j] # 0, j # k PROVE Holds(j, skillSeen[t][j])'
    <3>1. Holds(j, skillSeen[t][j]) /\ skillSeen'[t][j] = skillSeen[t][j] /\ files'[j] = files[j]
      BY <2>1, <2>6, <1>1, <1>2, <1>4, SkillNames DEF Call
    <3> QED
      BY <3>1, <1>8, <2>6 DEF Holds
  <2>7. Call(t)'
    <3>1. \A j \in Skills!InTable : skillSeen'[t][j] <= skillTable'[j] /\ map'[t][j] <= skillTable'[j]
      BY <1>1, <1>2, <1>5, <1>8 DEF Call
    <3>2. ~full' => \A j \in Skills!InTable : versions'[j] <= map'[t][j]
      BY <1>1, <1>2, <1>8 DEF Call
    <3>3. ~full' => \A j \in Fetched : map'[t][j] # 0 /\ map'[t][j] = skillTable'[j] => Holds(j, map[t][j])'
      BY <1>1, <1>8, <2>5
    <3>4. k \in Skills!InTable /\ skillSeen'[t][k] # 0 /\ (~full' => map'[t][k] < skillSeen'[t][k])
      BY <1>1, <1>3, <1>4, <1>8, <2>2
    <3>5. files'[k] = Skills!Torn
      BY <1>2, <1>3, <1>8 DEF SkillTypes
    <3> QED
      BY <1>8, <2>1, <2>4, <2>6, <3>1, <3>2, <3>3, <3>4, <3>5 DEF Call
  <2>8. ~full => \A j \in Fetched : versions[j] # 0 /\ versions[j] = skillTable[j] => Holds(j, versions[j])'
    <3> SUFFICES ASSUME ~full, NEW j \in Fetched, versions[j] # 0, versions[j] = skillTable[j]
                 PROVE  Holds(j, versions[j])'
      BY <1>1
    <3>1. j # k
      BY <1>3, <2>2 DEF v
    <3>2. Holds(j, versions[j])
      BY DEF SkillsInv
    <3> QED
      BY <1>1, <2>3, <3>1, <3>2
  <2>9. \A u \in SkillSyncs \ {t} : skillPc'[u] = "idle"
    BY <1>1, <1>8, OthersIdle
  <2> QED
    BY <1>1, <1>2, <2>1, <2>7, <2>8, <2>9, SkillsOnly DEF SkillsInv
<1> QED
  BY <1>1, <1>7, <1>8

\* A skill that is written is whole when its version is recorded.
LEMMA SkillsWrite ==
  ASSUME SkillsInv, NEW t \in SkillSyncs, Skills!Write(t)
  PROVE  SkillsInv'
<1> DEFINE k == Row(t)
           v == skillSeen[t][k]
           m == Skills!Noted(map[t], k, v)
           leave(x) == /\ files' = [files EXCEPT ![k] = x]
                       /\ spoilt' = IF x = Skills!Torn THEN spoilt \cup {k} ELSE spoilt \ {k}
<1>1. /\ skillPc[t] = "write" /\ map' = [map EXCEPT ![t] = m]
      /\ \E x \in {v, Skills!Torn, files[k]} : leave(x) /\ (x = Skills!Torn \/ x = v \/ files[k] # Skills!Torn)
      /\ skillPc' = [skillPc EXCEPT ![t] = "fetch"] /\ page' = [page EXCEPT ![t] = @ + 1]
      /\ UNCHANGED <<full, skillTable, versions, booting, todo, skillOpen, skillSeen, skillBad>>
  BY DEF Skills!Write, Skills!boot, Row
<1>2. SkillTypes /\ Call(t) /\ ~booting
  BY <1>1 DEF SkillsInv
<1>3. k \in Skills!InTable /\ k \in Skills!Names /\ v \in Nat /\ v # 0 /\ v <= skillTable[k]
      /\ (~full => map[t][k] < v) /\ map[t] \in Versions /\ map[t][k] \in Nat /\ versions[k] \in Nat /\ skillTable[k] \in Nat
  BY <1>1, <1>2, SkillNames DEF SkillTypes, Versions, Call
<1>4. m \in Versions /\ (\A j \in Skills!InTable : j # k => m[j] = map[t][j]) /\ (m[k] = v \/ (m[k] = 0 /\ map[t][k] = 0))
  <2>1. m = [map[t] EXCEPT ![k] = v] \/ (m = map[t] /\ ~(map[t][k] # 0))
    BY DEF Skills!Noted
  <2> QED
    BY <2>1, <1>3 DEF Versions
<1>w. k \in Fetched => files[k] \in {Skills!Torn, Skills!Gone, Skills!Own}
  BY <1>1, <1>2 DEF Call
<1>x. PICK x \in {v, Skills!Torn, files[k]} : leave(x) /\ (x = Skills!Torn \/ x = v \/ files[k] # Skills!Torn)
  BY <1>1
<1>y. x \in Int
  BY <1>2, <1>3 DEF SkillTypes, Skills!Torn
<1> HIDE DEF k, v, m
<1>5. /\ skillPc'[t] = "fetch" /\ SkillTypes' /\ map'[t] = m /\ files'[k] = x
      /\ \A j \in Skills!Names : j # k => files'[j] = files[j]
  BY <1>1, <1>2, <1>3, <1>4, <1>x, <1>y DEF SkillTypes
<1>z. /\ \A j \in Fetched : \A y : j # k /\ Holds(j, y) => Holds(j, y)'
      /\ \A j \in Fetched : \A y : j = k /\ y = v => Holds(j, y)'
  <2>1. \A j \in Fetched : \A y : j # k /\ Holds(j, y) => Holds(j, y)'
    BY <1>5, <1>x, SkillNames DEF Holds
  <2>2. ASSUME NEW j \in Fetched, NEW y, j = k, y = v PROVE Holds(j, y)'
    <3>1. CASE x = Skills!Torn
      BY <2>2, <3>1, <1>x DEF Holds
    <3>2. CASE x # Skills!Torn
      <4>1. x \in {y, Skills!Gone, Skills!Own}
        BY <2>2, <3>2, <1>w, <1>x
      <4> QED
        BY <1>5, <2>2, <4>1 DEF Holds
    <3> QED
      BY <3>1, <3>2
  <2> QED
    BY <2>1, <2>2
<1>6. \A j \in Skills!InTable : m[j] <= skillTable[j]
  BY <1>2, <1>3, <1>4 DEF Call
<1>7. ~full => \A j \in Skills!InTable : versions[j] <= m[j]
  <2> SUFFICES ASSUME ~full, NEW j \in Skills!InTable PROVE versions[j] <= m[j]
    OBVIOUS
  <2>1. versions[j] <= map[t][j]
    BY <1>2 DEF Call
  <2>2. CASE j # k
    BY <2>1, <2>2, <1>4
  <2>3. CASE j = k
    BY <2>1, <2>3, <1>3, <1>4
  <2> QED
    BY <2>2, <2>3
<1>8. ~full => \A j \in Fetched : m[j] # 0 /\ m[j] = skillTable[j] => Holds(j, map[t][j])'
  <2> SUFFICES ASSUME ~full, NEW j \in Fetched, m[j] # 0, m[j] = skillTable[j]
               PROVE  Holds(j, map[t][j])'
    OBVIOUS
  <2>1. CASE j = k
    <3>1. map'[t][j] = v
      BY <2>1, <1>4, <1>5
    <3> QED
      BY <2>1, <3>1, <1>z DEF Holds
  <2>2. CASE j # k
    <3>1. m[j] = map[t][j] /\ map'[t][j] = map[t][j]
      BY <2>2, <1>4, <1>5, SkillNames
    <3>2. Holds(j, map[t][j])
      BY <3>1, <1>2 DEF Call
    <3> QED
      BY <2>2, <3>1, <3>2, <1>z DEF Holds
  <2> QED
    BY <2>1, <2>2
<1>9. ASSUME ~skillBad[t], NEW j \in Fetched, skillSeen[t][j] # 0
      PROVE  Holds(j, skillSeen[t][j])'
  <2>1. CASE j = k
    <3>1. skillSeen'[t][j] = v
      BY <2>1, <1>1 DEF v
    <3> QED
      BY <2>1, <3>1, <1>z DEF Holds
  <2>2. CASE j # k
    <3>1. Holds(j, skillSeen[t][j]) /\ skillSeen' = skillSeen
      BY <2>2, <1>1, <1>2, <1>5, <1>9, SkillNames DEF Call, k
    <3> QED
      BY <2>2, <3>1, <1>z DEF Holds
  <2> QED
    BY <2>1, <2>2
<1>10. Call(t)'
  <2>1. \A j \in Skills!InTable : skillSeen'[t][j] <= skillTable'[j] /\ map'[t][j] <= skillTable'[j]
    BY <1>1, <1>2, <1>5, <1>6 DEF Call
  <2> QED
    BY <1>1, <1>5, <1>7, <1>8, <1>9, <2>1 DEF Call
<1>11. ~full => \A j \in Fetched : versions[j] # 0 /\ versions[j] = skillTable[j] => Holds(j, versions[j])'
  <2> SUFFICES ASSUME ~full, NEW j \in Fetched, versions[j] # 0, versions[j] = skillTable[j]
               PROVE  Holds(j, versions[j])'
    OBVIOUS
  <2>1. Holds(j, versions[j])
    BY DEF SkillsInv
  <2>2. j # k
    <3> SUFFICES ASSUME j = k PROVE FALSE
      OBVIOUS
    <3>1. versions[k] <= map[t][k] /\ map[t][k] < v /\ v <= skillTable[k] /\ versions[k] = skillTable[k]
      BY <1>2, <1>3 DEF Call
    <3> QED
      BY <3>1, <1>3
  <2> QED
    BY <2>1, <2>2, <1>1, <1>z DEF Holds
<1>12. \A u \in SkillSyncs \ {t} : skillPc'[u] = "idle"
  BY <1>1, OthersIdle
<1> QED
  BY <1>1, <1>2, <1>5, <1>10, <1>11, <1>12, SkillsOnly DEF SkillsInv

\* The others do not touch what a call knows.
LEMMA SkillsAround ==
  ASSUME SkillsInv,
         \/ Skills!Install \/ Skills!Keep \/ Skills!Installed \/ Skills!Up \/ Skills!Push \/ Skills!Delete
         \/ Skills!Cut \/ \E t \in SkillSyncs : Skills!Orphan(t)
  PROVE  SkillsInv'
<1>0. SkillTypes /\ {Skills!Gone, Skills!Own, Skills!Torn, Skills!BuiltIn} \subseteq Int
      /\ \A t \in SkillSyncs : skillPc[t] # "idle" => ~booting
  BY DEF SkillsInv, Skills!Gone, Skills!Own, Skills!Torn, Skills!BuiltIn
<1>k. \A k \in Fetched : k \notin BuiltIns /\ k \in Skills!Names
  BY SkillNames DEF Fetched
<1>1. CASE Skills!Install
  <2>1. /\ \E n \in todo : /\ todo' = todo \ {n}
                         /\ \/ skillOpen' = n /\ files' = [files EXCEPT ![n] = Skills!Torn]
                            \/ UNCHANGED <<skillOpen, files>>
        /\ UNCHANGED <<full, skillTable, versions, booting, page, map, skillSeen, skillBad, skillPc, spoilt>>
    BY <1>1 DEF Skills!Install, Skills!sync, Skills!rest
  <2>2. PICK n \in todo : /\ todo' = todo \ {n}
                          /\ \/ skillOpen' = n /\ files' = [files EXCEPT ![n] = Skills!Torn]
                             \/ UNCHANGED <<skillOpen, files>>
    BY <2>1
  <2>3. n \in BuiltIns /\ todo' \subseteq BuiltIns /\ skillOpen' \in BuiltIns \cup {"none"} /\ files' \in [Skills!Names -> Int]
    BY <1>0, <2>2 DEF SkillTypes
  <2>4. \A k \in Fetched : FileGoes(k)
    BY <1>0, <1>k, <2>1, <2>2, <2>3 DEF SkillTypes, FileGoes
  <2> QED
    BY <1>0, <2>1, <2>3, <2>4, FilesGo DEF SkillTypes
<1>2. CASE Skills!Keep \/ Skills!Up
  <2>1. /\ UNCHANGED <<full, skillTable, files, versions, skillOpen, page, map, skillSeen, skillBad, skillPc, spoilt>>
        /\ todo' \subseteq todo /\ (booting' = booting \/ booting' = FALSE)
    BY <1>2 DEF Skills!Keep, Skills!Up, Skills!sync, Skills!rest
  <2>2. \A k \in Fetched : FileGoes(k)
    BY <2>1 DEF FileGoes
  <2> QED
    BY <1>0, <2>1, <2>2, FilesGo DEF SkillTypes
<1>3. CASE Skills!Installed
  <2>1. /\ skillOpen # "none" /\ skillOpen' = "none"
        /\ files' = [files EXCEPT ![skillOpen] = Skills!BuiltIn] \/ files' = files
        /\ UNCHANGED <<full, skillTable, versions, booting, todo, page, map, skillSeen, skillBad, skillPc, spoilt>>
    BY <1>3 DEF Skills!Installed, Skills!sync
  <2>2. skillOpen \in BuiltIns
    BY <1>0, <2>1 DEF SkillTypes
  <2>3. files' \in [Skills!Names -> Int]
    BY <1>0, <2>1 DEF SkillTypes
  <2>4. \A k \in Fetched : FileGoes(k)
    BY <1>0, <1>k, <2>1, <2>2 DEF SkillTypes, FileGoes
  <2> QED
    BY <1>0, <2>1, <2>3, <2>4, FilesGo DEF SkillTypes
<1>4. CASE Skills!Push \/ Skills!Delete \/ \E t \in SkillSyncs : Skills!Orphan(t)
  <2>1. /\ UNCHANGED <<full, skillTable, versions, booting, todo, skillOpen, page, map, skillSeen, skillBad, skillPc>>
        /\ \E n \in Skills!Names, x \in {Skills!Gone, Skills!Own} :
             files' = [files EXCEPT ![n] = x] /\ spoilt' = spoilt \ {n}
    <3>1. CASE Skills!Push
      BY <3>1 DEF Skills!Push, Skills!Names, Skills!Placed, Skills!sync, Skills!boot
    <3>2. CASE Skills!Delete
      BY <3>2 DEF Skills!Delete, Skills!Placed, Skills!sync, Skills!boot
    <3>3. CASE \E t \in SkillSyncs : Skills!Orphan(t)
      BY <3>3 DEF Skills!Orphan, Skills!Orphans, Skills!Placed, Skills!sync, Skills!boot
    <3> QED
      BY <1>4, <3>1, <3>2, <3>3
  <2>2. PICK n \in Skills!Names, x \in {Skills!Gone, Skills!Own} :
          files' = [files EXCEPT ![n] = x] /\ spoilt' = spoilt \ {n}
    BY <2>1
  <2>3. files' \in [Skills!Names -> Int]
    BY <1>0, <2>2 DEF SkillTypes
  <2>4. \A k \in Fetched : FileGoes(k)
    BY <1>0, <1>k, <2>2 DEF SkillTypes, FileGoes
  <2> QED
    BY <1>0, <2>1, <2>3, <2>4, FilesGo DEF SkillTypes
<1>5. CASE Skills!Cut
  <2>1. /\ UNCHANGED <<full, skillTable, versions, page, map, skillSeen, skillBad>>
        /\ todo' = BuiltIns /\ skillOpen' = "none"
        /\ files' = [n \in Skills!Names |-> IF n \in Retired THEN Skills!Gone ELSE files[n]]
        /\ skillPc' = [t \in SkillSyncs |-> "idle"] /\ spoilt' = spoilt \ Retired
    BY <1>5, Zenon DEF Skills!Cut, BuiltIns
  <2>2. files' \in [Skills!Names -> Int] /\ skillPc' \in [SkillSyncs -> {"idle", "fetch", "write", "clean", "save"}]
        /\ \A t \in SkillSyncs : skillPc'[t] = "idle"
    BY <1>0, <2>1 DEF SkillTypes
  <2>3. \A k \in Fetched : FileGoes(k)
    BY <1>k, <2>1 DEF FileGoes
  <2> QED
    BY <2>1, <2>2, <2>3, FilesGo
<1> QED
  BY <1>1, <1>2, <1>3, <1>4, <1>5

\* A new version of the table is nobody's yet.
LEMMA SkillsEdit ==
  ASSUME SkillsInv, Skills!Edit
  PROVE  SkillsInv'
<1>1. PICK k \in Skills!InTable : skillTable' = [skillTable EXCEPT ![k] = @ + 1]
  BY DEF Skills!Edit
<1>2. /\ UNCHANGED <<full, files, versions, booting, todo, skillOpen, page, map, skillSeen, skillBad, skillPc>>
      /\ SkillTypes
  BY DEF Skills!Edit, Skills!boot, Skills!sync, SkillsInv
<1>s. spoilt' = spoilt
  BY DEF Skills!Edit, Skills!rest
<1>3. \A j \in Skills!InTable : skillTable[j] \in Nat /\ versions[j] \in Nat
  BY <1>2 DEF SkillTypes, Versions
<1>4. /\ skillTable' \in Versions /\ skillTable'[k] = skillTable[k] + 1
      /\ \A j \in Skills!InTable : j # k => skillTable'[j] = skillTable[j]
  BY <1>1, <1>2, <1>3 DEF SkillTypes, Versions
<1>5. \A j \in Skills!InTable, v \in Nat : v <= skillTable[j] => v <= skillTable'[j] /\ (v = skillTable'[j] => v = skillTable[j])
  <2> TAKE j \in Skills!InTable, v \in Nat
  <2>1. CASE j = k
    BY <2>1, <1>3, <1>4
  <2>2. CASE j # k
    BY <2>2, <1>3, <1>4
  <2> QED
    BY <2>1, <2>2
<1>6. SkillTypes'
  BY <1>2, <1>4 DEF SkillTypes
<1>7. \A v : \A j \in Fetched : Holds(j, v)' <=> Holds(j, v)
  BY <1>2, <1>s DEF Holds
<1>8. ASSUME NEW t \in SkillSyncs, skillPc[t] # "idle" PROVE Call(t)'
  <2>1. Call(t) /\ Row(t)' = Row(t)
    BY <1>2, <1>8 DEF SkillsInv, Row
  <2>2. \A j \in Skills!InTable : skillSeen[t][j] \in Nat /\ map[t][j] \in Nat
    BY <1>2 DEF SkillTypes, Versions
  <2>3. \A j \in Skills!InTable : skillSeen[t][j] <= skillTable'[j] /\ map[t][j] <= skillTable'[j]
    BY <1>5, <2>1, <2>2 DEF Call
  <2>4. ~full => \A j \in Fetched : map[t][j] # 0 /\ map[t][j] = skillTable'[j] => Holds(j, map[t][j])
    BY <1>5, <2>1, <2>2, SkillNames DEF Call
  <2> QED
    BY <1>2, <1>s, <2>1, <2>3, <2>4 DEF Call, Holds
<1>9. \A j \in Skills!InTable : versions[j] <= skillTable'[j]
  BY <1>3, <1>5 DEF SkillsInv
<1>10. ~full => \A j \in Fetched : versions[j] # 0 /\ versions[j] = skillTable'[j] => Holds(j, versions[j])
  BY <1>3, <1>5, SkillNames DEF SkillsInv
<1> QED
  BY <1>2, <1>s, <1>6, <1>8, <1>9, <1>10 DEF SkillsInv, OneBusy, Holds

\* Every step of the skills keeps their invariant.
LEMMA SkillsKept ==
  ASSUME SkillsInv, ~skillsCrossed', [Skills!Next]_(Skills!vars)
  PROVE  SkillsInv'
<1>1. CASE UNCHANGED Skills!vars
  <2>1. UNCHANGED <<full, skillTable, files, versions, booting, todo, skillOpen, page, map, skillSeen, skillBad, skillPc, spoilt>>
    BY <1>1 DEF Skills!vars, Skills!boot, Skills!sync, Skills!rest
  <2> QED
    BY <2>1 DEF SkillsInv, SkillTypes, OneBusy, Call, Row, Holds
<1>2. CASE Skills!Next
  <2>1. ASSUME NEW t \in SkillSyncs,
               Skills!Start(t) \/ Skills!NoPage(t) \/ Skills!Page(t) \/ Skills!Write(t) \/ Skills!Orphan(t)
               \/ Skills!Truncate(t) \/ Skills!Save(t)
        PROVE  SkillsInv'
    BY <2>1, SkillsStart, SkillsEnd, SkillsPage, SkillsWrite, SkillsAround
  <2> QED
    BY <1>2, <2>1, SkillsAround, SkillsEdit DEF Skills!Next
<1> QED
  BY <1>1, <1>2

\* Only the end of a call that is not cut off leaves it, and it changes no file.
LEMMA CallEnds ==
  ASSUME SkillsInv, Skills!Next, NEW t \in SkillSyncs, skillPc[t] # "idle", skillPc'[t] = "idle", ~booting'
  PROVE  skillPc[t] \in {"clean", "save"} /\ UNCHANGED <<files, skillSeen, skillBad, spoilt>>
<1>0. skillPc \in [SkillSyncs -> {"idle", "fetch", "write", "clean", "save"}]
  BY DEF SkillsInv, SkillTypes
<1>1. ~Skills!Cut /\ ~(UNCHANGED skillPc)
  BY DEF Skills!Cut
<1>2. PICK u \in SkillSyncs : Skills!Start(u) \/ Skills!NoPage(u) \/ Skills!Page(u) \/ Skills!Write(u) \/ Skills!Orphan(u)
               \/ Skills!Truncate(u) \/ Skills!Save(u)
  BY <1>1 DEF Skills!Next, Skills!Install, Skills!Keep, Skills!Installed, Skills!Up, Skills!Push, Skills!Delete, Skills!Edit, Skills!sync
<1>3. u = t \/ skillPc'[t] = skillPc[t]
  BY <1>0, <1>2 DEF Skills!Start, Skills!NoPage, Skills!Page, Skills!Write, Skills!Orphan, Skills!Truncate, Skills!Save, Skills!sync
<1>4. Skills!Truncate(t) \/ Skills!Save(t)
  BY <1>0, <1>2, <1>3 DEF Skills!Start, Skills!NoPage, Skills!Page, Skills!Write, Skills!Orphan, Skills!sync
<1> QED
  BY <1>4 DEF Skills!Truncate, Skills!Save, Skills!rest

\* Calls that have crossed have crossed.
LEMMA StayCrossed == ASSUME [Skills!Next]_(Skills!vars), skillsCrossed PROVE skillsCrossed'
<1>1. UNCHANGED Skills!vars => UNCHANGED skillsCrossed
  BY DEF Skills!vars, Skills!rest
<1>2. ASSUME NEW t \in SkillSyncs,
             Skills!Start(t) \/ Skills!NoPage(t) \/ Skills!Page(t) \/ Skills!Write(t) \/ Skills!Orphan(t)
             \/ Skills!Truncate(t) \/ Skills!Save(t)
      PROVE  skillsCrossed'
  BY <1>2 DEF Skills!Start, Skills!NoPage, Skills!Page, Skills!Write, Skills!Orphan, Skills!Truncate, Skills!Save, Skills!rest
<1>3. Skills!Install \/ Skills!Keep \/ Skills!Installed \/ Skills!Up \/ Skills!Push \/ Skills!Delete
      \/ Skills!Edit \/ Skills!Cut => UNCHANGED skillsCrossed
  BY DEF Skills!Install, Skills!Keep, Skills!Installed, Skills!Up, Skills!Push, Skills!Delete, Skills!Edit, Skills!Cut, Skills!rest
<1> QED
  BY <1>1, <1>2, <1>3 DEF Skills!Next

\* The invariant of the skills holds at first.
LEMMA SkillsBegin == ASSUME Skills!Init PROVE SkillsInv
<1>1. /\ skillTable = [k \in Skills!InTable |-> 1] /\ files = [n \in Skills!Names |-> Skills!Gone]
      /\ versions = Skills!NoMap /\ todo = BuiltIns /\ skillOpen = "none"
      /\ skillPc = [t \in SkillSyncs |-> "idle"] /\ page = [t \in SkillSyncs |-> 1]
      /\ map = [t \in SkillSyncs |-> Skills!NoMap] /\ skillSeen = [t \in SkillSyncs |-> Skills!NoMap]
      /\ skillBad = [t \in SkillSyncs |-> FALSE]
  BY Zenon DEF Skills!Init, BuiltIns
<1>2. skillTable \in Versions /\ \A k \in Skills!InTable : skillTable[k] = 1
  BY <1>1 DEF Versions
<1>3. files \in [Skills!Names -> Int]
  BY <1>1 DEF Skills!Gone
<1>4. SkillTypes /\ \A t \in SkillSyncs : skillPc[t] = "idle"
  BY <1>1, <1>2, <1>3, SkillNames DEF SkillTypes
<1>5. \A k \in Skills!InTable : versions[k] = 0
  BY <1>1, SkillNames
<1>6. \A k \in Skills!InTable : versions[k] <= skillTable[k]
  BY <1>2, <1>5
<1> QED
  BY <1>4, <1>5, <1>6, SkillNames DEF SkillsInv, OneBusy

\* A call that reports success leaves no skill of the table half-written or of another
\* version than it met, whatever was cut off or refused before, but one that a write
\* spoilt that was taken for done; as long as no two calls have crossed, however many
\* threads may synchronise (skill_sync.c:203-217 and :307-501).
THEOREM SkillsAreWhole == PartsSpec => SyncedUnlessSpoilt
<1> DEFINE Safe == ~skillsCrossed => SkillsInv
           Whole == \A t \in SkillSyncs :
             Skills!Ends(t) /\ ~skillsCrossed' =>
               \A k \in Skills!Met(t) \ spoilt' : files'[k] \in {skillSeen[t][k], Skills!Gone, Skills!Own}
<1>1. PartsInit => Safe
  BY SkillsBegin DEF PartsInit
<1>2. ASSUME ~skillsCrossed => SkillsInv, ~skillsCrossed', Skills!Next, [Skills!Next]_(Skills!vars) PROVE Whole
  <2> SUFFICES ASSUME NEW t \in SkillSyncs, skillPc[t] # "idle", skillPc'[t] = "idle", ~booting', ~skillBad[t],
                      NEW k \in Fetched, skillSeen[t][k] # 0, k \notin spoilt'
               PROVE  files'[k] \in {skillSeen[t][k], Skills!Gone, Skills!Own}
    BY DEF Fetched, BuiltIns, Skills!Ends, Skills!Met
  <2>0. SkillsInv
    BY <1>2, StayCrossed
  <2>1. skillPc[t] \in {"clean", "save"} /\ files' = files /\ spoilt' = spoilt
    BY <1>2, <2>0, CallEnds
  <2>2. Call(t)
    BY <2>0 DEF SkillsInv
  <2> QED
    BY <2>1, <2>2 DEF Call, Holds
<1>3. Safe /\ [PartsNext]_<<part, moving>> => Safe' /\ [Whole]_(Skills!vars)
  <2> SUFFICES ASSUME Safe, [PartsNext]_<<part, moving>> PROVE Safe' /\ [Whole]_(Skills!vars)
    OBVIOUS
  <2>1. [Skills!Next]_(Skills!vars)
    BY SkillsMove
  <2>2. Safe'
    BY <2>1, StayCrossed, SkillsKept
  <2>3. ~skillsCrossed' /\ Skills!Next => Whole
    BY <2>1, <1>2
  <2>4. skillsCrossed' => Whole
    OBVIOUS
  <2> QED
    BY <2>1, <2>2, <2>3, <2>4
<1>4. SyncedUnlessSpoilt <=> [][Whole]_(Skills!vars)
  BY DEF SyncedUnlessSpoilt, Skills!SyncedUnlessSpoilt
<1> QED
  BY <1>1, <1>3, <1>4, PTL DEF PartsSpec
-----------------------------------------------------------------------------
(* What the parts promise together, by the kind of the promise.            *)

\* What somebody was told is kept is on disk (AgentFiles, LanPanel, KwsCapture,
\* AgentMain): the lines of a chat and the settings that two threads change, the
\* configuration the panel answered with 202, the recorded sample and the network the
\* assistant joined.
THEOREM SavedStays == PartsSpec => []SavedIsKept
<1>1. PartsSpec => [](part = "sessions" => Sessions!HistoryIsLatest)
  BY HistoriesAreLatest
<1>2. PartsSpec => [](part = "settings" => Settings!SettingsAreKept)
  BY SettingsAreSaved
<1>3. PartsSpec => /\ [](part = "panel" => PanelInv)
                   /\ [](part = "capture" => CaptureInv)
                   /\ [](part = "main" => LifeInv)
  BY PanelHolds, CaptureHolds, LifeHolds
<1>4. /\ part = "sessions" => Sessions!HistoryIsLatest
      /\ part = "settings" => Settings!SettingsAreKept
      /\ part = "panel" => PanelInv
      /\ part = "capture" => CaptureInv
      /\ part = "main" => LifeInv
      => SavedIsKept
  BY PanelSaves, CaptureKeeps, LifeTells DEF SavedIsKept
<1> QED
  BY <1>1, <1>2, <1>3, <1>4, PTL

\* What comes in pieces is passed on as a whole or not at all (LanPanel, KwsCapture,
\* VoiceWakeup, VolcAsr, VolcTts): the files the panel sends, the takes of the corpus,
\* the recording that is recognised, the text that is returned and the speech that
\* is played, as long as one thread recognises.
THEOREM PiecesAreWhole == OneAsrUser => (PartsSpec => []WholeOnly)
<1> SUFFICES ASSUME OneAsrUser PROVE PartsSpec => []WholeOnly
  OBVIOUS
<1>1. PartsSpec => /\ [](part = "panel" => PanelInv)
                   /\ [](part = "capture" => CaptureInv)
                   /\ [](part = "wakeup" => WakeupInv)
                   /\ [](part = "tts" => TtsInv)
  BY PanelHolds, CaptureHolds, WakeupHolds, TtsHolds
<1>2. PartsSpec => [](part = "asr" => AsrInv)
  BY AsrHolds
<1>3. /\ part = "panel" => PanelInv
      /\ part = "capture" => CaptureInv
      /\ part = "wakeup" => WakeupInv
      /\ part = "tts" => TtsInv
      /\ part = "asr" => AsrInv
      => WholeOnly
  BY PanelReplies, CaptureKeeps, WakeupWhole, TtsForgives, AsrReturns DEF WholeOnly
<1> QED
  BY <1>1, <1>2, <1>3, PTL
=============================================================================
