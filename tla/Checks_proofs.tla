---------------------------- MODULE Checks_proofs ----------------------------
(***************************************************************************)
(* Theorems about the checks of /verify-cart that read the clock and the   *)
(* price band, for any band, calendar, hold and expiry, any number of      *)
(* carts and of floors the merchant sets meanwhile.                        *)
(*                                                                         *)
(* First the calendar: the forbidden hours as the user counts them against *)
(* the window the code computes.  Then what a verdict given now owes the   *)
(* covenant, and what a sale written now owes the band; a cart that is     *)
(* done is never touched again, so both last.                              *)
(***************************************************************************)
EXTENDS Checks, SequenceTheorems, WellFoundedInduction, TLAPS

-----------------------------------------------------------------------------
(* The calendar.                                                            *)

\* A minute of the day is what is left of an instant after its whole days.
LEMMA MinuteOfDay ==
    ASSUME NEW q \in Int, NEW r \in 0 .. Day - 1
    PROVE  (q * Day + r) % Day = r
BY CalendarIsReal

\* Every instant is its days and its minute.
LEMMA DaysAndMinute ==
    ASSUME NEW t \in Nat
    PROVE  \E q \in Int : /\ t + Offset = q * Day + Minute(t)
                          /\ Minute(t) \in 0 .. Day - 1
<1>1. t + Offset \in Int /\ Day \in Nat \ {0}
  BY CalendarIsReal
<1>2. ASSUME NEW a \in Int
      PROVE  a = (a \div Day) * Day + (a % Day) /\ a % Day \in 0 .. Day - 1 /\ a \div Day \in Int
  BY <1>1
<1> QED  BY <1>1, <1>2 DEF Minute

\* The minute some time later, within two days of the midnight before.
LEMMA MinuteLater ==
    ASSUME NEW t \in Nat, NEW j \in Nat, Minute(t) + j < 2 * Day
    PROVE  /\ Minute(t) \in 0 .. Day - 1
           /\ Minute(t + j) = IF Minute(t) + j < Day THEN Minute(t) + j
                              ELSE Minute(t) + j - Day
<1>1. PICK q \in Int : t + Offset = q * Day + Minute(t) /\ Minute(t) \in 0 .. Day - 1
  BY DaysAndMinute
<1>2. (t + j) + Offset = q * Day + (Minute(t) + j)
  BY <1>1, CalendarIsReal
<1>3. CASE Minute(t) + j < Day
  <2>1. Minute(t) + j \in 0 .. Day - 1
    BY <1>1, <1>3, CalendarIsReal
  <2>2. (q * Day + (Minute(t) + j)) % Day = Minute(t) + j
    BY <2>1, MinuteOfDay
  <2>3. Minute(t + j) = Minute(t) + j
    BY <1>2, <2>2 DEF Minute
  <2> QED  BY <1>1, <1>3, <2>3
<1>4. CASE ~(Minute(t) + j < Day)
  <2>1. Minute(t) + j - Day \in 0 .. Day - 1
    BY <1>1, <1>4, CalendarIsReal
  <2>2. ((q + 1) * Day + (Minute(t) + j - Day)) % Day = Minute(t) + j - Day
    BY <1>1, <2>1, MinuteOfDay
  <2>3. q * Day + (Minute(t) + j) = (q + 1) * Day + (Minute(t) + j - Day)
    BY <1>1, CalendarIsReal
  <2>4. Minute(t + j) = Minute(t) + j - Day
    BY <1>2, <2>2, <2>3 DEF Minute
  <2> QED  BY <1>1, <1>4, <2>4
<1> QED  BY <1>3, <1>4

\* Hours the covenant declares.
Declares(h) == h.from \in 0 .. Day - 1 /\ h.to \in 0 .. Day - 1

\* Counted minute by minute from their start, the forbidden hours are those the
\* code's comparison puts the clock in.
LEMMA CountedIsCompared ==
    ASSUME NEW h, Declares(h), NEW m \in 0 .. Day - 1
    PROVE  (\E k \in 0 .. (h.to - h.from - 1) % Day : m = (h.from + k) % Day)
             <=> Inside(m, h)
<1> DEFINE f == h.from
           o == h.to
           n == (o - f - 1) % Day
<1>0. Day \in Nat \ {0} /\ f \in 0 .. Day - 1 /\ o \in 0 .. Day - 1
  BY CalendarIsReal DEF Declares
<1>1. \A a \in 0 .. Day - 1 : a % Day = a /\ (a + Day) % Day = a
  <2> SUFFICES ASSUME NEW a \in 0 .. Day - 1 PROVE a % Day = a /\ (a + Day) % Day = a
    OBVIOUS
  <2>1. (0 * Day + a) % Day = a /\ (1 * Day + a) % Day = a
    BY <1>0, MinuteOfDay
  <2>2. 0 * Day + a = a /\ 1 * Day + a = a + Day
    BY <1>0
  <2> QED  BY <2>1, <2>2
<1> HIDE DEF f, o, n
<1>2. CASE f < o
  <2>1. o - f - 1 \in 0 .. Day - 1
    BY <1>0, <1>2
  <2>2. n = o - f - 1
    BY <1>1, <2>1 DEF n
  <2>3. \A k \in 0 .. n : (f + k) % Day = f + k
    <3>1. \A k \in 0 .. n : f + k \in 0 .. Day - 1
      BY <1>0, <1>2, <2>2
    <3> QED  BY <1>1, <3>1
  <2>4. (\E k \in 0 .. n : m = f + k) <=> (m >= f /\ m < o)
    <3>1. m >= f /\ m < o => m - f \in 0 .. n /\ m = f + (m - f)
      BY <1>0, <1>2, <2>2
    <3>2. \A k \in 0 .. n : f + k >= f /\ f + k < o
      BY <1>0, <1>2, <2>2
    <3> QED  BY <3>1, <3>2
  <2>5. (\E k \in 0 .. n : m = (f + k) % Day) <=> (m >= f /\ m < o)
    BY <2>3, <2>4
  <2> QED  BY <1>2, <2>5 DEF Inside, f, o, n
<1>3. CASE ~(f < o)
  <2>1. o - f - 1 + Day \in 0 .. Day - 1
    BY <1>0, <1>3
  <2>2. n = o - f - 1 + Day
    <3>1. ((-1) * Day + (o - f - 1 + Day)) % Day = o - f - 1 + Day
      BY <2>1, MinuteOfDay
    <3>2. (-1) * Day + (o - f - 1 + Day) = o - f - 1
      BY <1>0
    <3> QED  BY <3>1, <3>2 DEF n
  <2>3. ASSUME NEW k \in 0 .. n, m = (f + k) % Day
        PROVE  m >= f \/ m < o
    <3>1. CASE f + k < Day
      <4>1. f + k \in 0 .. Day - 1
        BY <1>0, <2>2, <3>1
      <4>2. m = f + k
        BY <1>1, <2>3, <4>1
      <4> QED  BY <1>0, <2>2, <4>2
    <3>2. CASE ~(f + k < Day)
      <4>1. f + k - Day \in 0 .. Day - 1 /\ f + k - Day < o
        BY <1>0, <1>3, <2>2, <3>2
      <4>2. f + k = (f + k - Day) + Day
        BY <1>0, <2>2
      <4>3. m = f + k - Day
        BY <1>1, <2>3, <4>1, <4>2
      <4> QED  BY <4>1, <4>3
    <3> QED  BY <3>1, <3>2
  <2>4. ASSUME m >= f
        PROVE  \E k \in 0 .. n : m = (f + k) % Day
    <3>1. m - f \in 0 .. n /\ f + (m - f) = m
      BY <1>0, <2>2, <2>4
    <3> QED  BY <1>1, <3>1
  <2>5. ASSUME m < o
        PROVE  \E k \in 0 .. n : m = (f + k) % Day
    <3>1. m + Day - f \in 0 .. n /\ f + (m + Day - f) = m + Day
      BY <1>0, <1>3, <2>2, <2>5
    <3> QED  BY <1>1, <3>1
  <2> QED  BY <1>3, <2>3, <2>4, <2>5 DEF Inside, f, o, n
<1> QED  BY <1>2, <1>3

\* A window the clock is in ends later, all of it until then is inside, and its
\* end is outside - unless the two ends are one, when nothing is.
LEMMA WindowEnds ==
    ASSUME NEW h, Declares(h), NEW t \in Nat, Inside(Minute(t), h)
    PROVE  LET e == WindowEnd(t, h)
           IN  /\ e \in Nat /\ e > t
               /\ \A w \in t .. e - 1 : Inside(Minute(w), h)
               /\ h.from # h.to => ~Inside(Minute(e), h)
<1> DEFINE f == h.from
           o == h.to
           m == Minute(t)
           e == WindowEnd(t, h)
<1>0. /\ Day \in Nat \ {0} /\ f \in 0 .. Day - 1 /\ o \in 0 .. Day - 1 /\ m \in 0 .. Day - 1
      /\ Offset \in Nat
  <2>1. m \in 0 .. Day - 1
    BY DaysAndMinute
  <2> QED  BY <2>1, CalendarIsReal DEF Declares
<1>1. e = t - m - (IF ~(f < o) /\ m < o THEN Day ELSE 0) + (IF ~(f < o) THEN Day ELSE 0) + o
  <2>1. (f >= o) <=> ~(f < o)
    BY <1>0
  <2> QED  BY <1>0, <2>1 DEF WindowEnd, DayStart
<1>2. \A x : Inside(x, h) <=> IF f < o THEN x >= f /\ x < o ELSE x >= f \/ x < o
  BY DEF Inside
<1>3. \A j \in Nat : m + j < 2 * Day =>
        Minute(t + j) = IF m + j < Day THEN m + j ELSE m + j - Day
  BY MinuteLater
<1> HIDE DEF f, o, m, e
<1>4. Inside(m, h)
  BY DEF m
<1>5. CASE f < o \/ m < o
  <2>1. e = t + (o - m) /\ m < o
    BY <1>0, <1>1, <1>2, <1>4, <1>5
  <2>2. o - m \in Nat /\ o - m > 0 /\ e \in Nat /\ e > t
    BY <1>0, <2>1
  <2>3. ASSUME NEW w \in t .. e - 1
        PROVE  Inside(Minute(w), h)
    <3>1. w - t \in Nat /\ m + (w - t) < Day /\ m + (w - t) < 2 * Day /\ t + (w - t) = w
      BY <1>0, <2>1
    <3>2. Minute(w) = m + (w - t)
      BY <1>3, <3>1
    <3>3. m + (w - t) < o /\ (m >= f => m + (w - t) >= f)
      BY <1>0, <2>1
    <3> QED  BY <1>2, <1>4, <3>2, <3>3
  <2>4. Minute(e) = o
    <3>1. m + (o - m) = o /\ o < Day /\ o < 2 * Day
      BY <1>0
    <3> QED  BY <1>3, <2>1, <2>2, <3>1
  <2>5. f # o => ~Inside(o, h)
    BY <1>0, <1>2
  <2> QED  BY <2>2, <2>3, <2>4, <2>5 DEF e, f, o
<1>6. CASE ~(f < o) /\ ~(m < o)
  <2>1. e = t + (Day + o - m) /\ m >= f
    BY <1>0, <1>1, <1>2, <1>4, <1>6
  <2>2. Day + o - m \in Nat /\ Day + o - m > 0 /\ e \in Nat /\ e > t
    BY <1>0, <2>1
  <2>3. ASSUME NEW w \in t .. e - 1
        PROVE  Inside(Minute(w), h)
    <3>1. w - t \in Nat /\ m + (w - t) < Day + o /\ m + (w - t) < 2 * Day /\ t + (w - t) = w
      BY <1>0, <2>1
    <3>2. Minute(w) = IF m + (w - t) < Day THEN m + (w - t) ELSE m + (w - t) - Day
      BY <1>3, <3>1
    <3>3. Minute(w) >= f \/ Minute(w) < o
      BY <1>0, <2>1, <3>1, <3>2
    <3> QED  BY <1>2, <1>6, <3>3
  <2>4. Minute(e) = o
    <3> DEFINE j == Day + o - m
    <3>1. m + j = Day + o /\ m + j < 2 * Day /\ ~(m + j < Day) /\ m + j - Day = o
      BY <1>0
    <3>2. j \in Nat /\ e = t + j
      BY <2>1, <2>2
    <3> HIDE DEF j
    <3> QED  BY <1>3, <3>1, <3>2
  <2>5. f # o => ~Inside(o, h)
    BY <1>0, <1>2, <1>6
  <2> QED  BY <2>2, <2>3, <2>4, <2>5 DEF e, f, o
<1> QED  BY <1>5, <1>6

-----------------------------------------------------------------------------
(* What a verdict owes the covenant.                                        *)

\* The greater of two numbers.
LEMMA MaxOfTwo ==
    ASSUME NEW a \in Int, NEW b \in Int
    PROVE  Max({a, b}) = IF a >= b THEN a ELSE b
BY DEF Max

\* The lesser of two numbers.
LEMMA MinOfTwo ==
    ASSUME NEW a \in Int, NEW b \in Int
    PROVE  Min({a, b}) = IF a <= b THEN a ELSE b
BY DEF Min

\* The first of an interval.
LEMMA MinOfInterval ==
    ASSUME NEW a \in Int, NEW b \in Int, a <= b
    PROVE  Min(a .. b) = a
BY DEF Min

\* A covenant as it is signed: what it declares has the type it declares.
Signed(cov) ==
    /\ cov.exp \in Nat
    /\ cov.hold = None \/ cov.hold \in Nat
    /\ cov.hours = None \/ Declares(cov.hours)

\* The covenants of the model are signed ones.
LEMMA CovenantIsSigned ==
    ASSUME covenant \in Covenants
    PROVE  Signed(covenant)
BY HoursAreLocal, AmountsAreWhole DEF Covenants, Signed, Declares

\* The window the code finds is the stretch the user forbade.
LEMMA BlackoutIsForbidden ==
    ASSUME Signed(covenant), NEW t \in Nat
    PROVE  LET e == BlackoutEnd(t, covenant.hours)
           IN  /\ Forbidden(t) <=> e # 0
               /\ Forbidden(t) => /\ e \in Nat /\ e > t
                                  /\ \A w \in t .. e - 1 : Forbidden(w)
                                  /\ covenant.hours.from # covenant.hours.to => ~Forbidden(e)
<1> DEFINE h == covenant.hours
           e == BlackoutEnd(t, h)
<1>1. CASE h = None
  BY <1>1 DEF Forbidden, BlackoutEnd
<1>2. CASE h # None
  <2>1. Declares(h)
    BY <1>2 DEF Signed
  <2>2. \A w \in Nat : Forbidden(w) <=> Inside(Minute(w), h)
    <3> SUFFICES ASSUME NEW w \in Nat PROVE Forbidden(w) <=> Inside(Minute(w), h)
      OBVIOUS
    <3>1. Minute(w) \in 0 .. Day - 1
      BY DaysAndMinute
    <3>2. (\E k \in 0 .. (h.to - h.from - 1) % Day : Minute(w) = (h.from + k) % Day)
             <=> Inside(Minute(w), h)
      BY <2>1, <3>1, CountedIsCompared
    <3> QED  BY <1>2, <3>2 DEF Forbidden
  <2>3. CASE Inside(Minute(t), h)
    <3>1. e = WindowEnd(t, h)
      BY <1>2, <2>3 DEF BlackoutEnd
    <3>2. /\ e \in Nat /\ e > t
          /\ \A w \in t .. e - 1 : Inside(Minute(w), h)
          /\ h.from # h.to => ~Inside(Minute(e), h)
      BY <2>1, <2>3, <3>1, WindowEnds
    <3> HIDE DEF e, h
    <3>3. \A w \in t .. e - 1 : w \in Nat
      BY <3>2
    <3>4. e # 0 /\ Forbidden(t)
      BY <2>2, <2>3, <3>2
    <3> QED  BY <2>2, <3>2, <3>3, <3>4 DEF e, h
  <2>4. CASE ~Inside(Minute(t), h)
    BY <2>2, <2>4 DEF BlackoutEnd
  <2> QED  BY <2>3, <2>4
<1> QED  BY <1>1, <1>2

\* The first instant the forbidden hours leave free.
Clear(t) == IF Forbidden(t) THEN BlackoutEnd(t, covenant.hours) ELSE t

\* What is free is what is left from there to the expiry; and nothing at all
\* when the stretch outlives the authorization.
LEMMA FreeFromClear ==
    ASSUME Signed(covenant), NEW t \in Nat
    PROVE  /\ Clear(t) \in Nat /\ Clear(t) >= t
           /\ Clear(t) > covenant.exp => Free(t) = {}
           /\ covenant.hours = None \/ covenant.hours.from # covenant.hours.to =>
                Free(t) = Clear(t) .. covenant.exp
<1> DEFINE h == covenant.hours
           e == BlackoutEnd(t, h)
           x == covenant.exp
           E == h = None \/ h.from # h.to
<1>1. /\ Forbidden(t) => /\ e \in Nat /\ e > t
                         /\ \A w \in t .. e - 1 : Forbidden(w)
                         /\ h.from # h.to => ~Forbidden(e)
      /\ x \in Nat
      /\ Forbidden(t) => h # None
  BY BlackoutIsForbidden DEF Signed, Forbidden
<1>2. /\ Clear(t) = IF Forbidden(t) THEN e ELSE t
      /\ Free(t) = {u \in t .. x : \E w \in t .. u : ~Forbidden(w)}
  BY DEF Clear, Free
<1> HIDE DEF e, x, h
<1>3. CASE Forbidden(t)
  <2>1. \A u \in t .. x : u < e => \A w \in t .. u : Forbidden(w)
    <3>1. \A u \in t .. x : u < e => \A w \in t .. u : w \in t .. e - 1
      BY <1>1, <1>3
    <3> QED  BY <1>1, <1>3, <3>1
  <2>2. e > x => Free(t) = {}
    <3>1. \A u \in t .. x : e > x => u < e
      BY <1>1, <1>3
    <3> QED  BY <1>2, <2>1, <3>1
  <2>3. ASSUME h.from # h.to
        PROVE  Free(t) = e .. x
    <3>1. \A u \in t .. x : u >= e => e \in t .. u /\ ~Forbidden(e)
      BY <1>1, <1>3, <2>3
    <3>2. \A u \in t .. x : u \in Free(t) <=> u >= e
      BY <1>1, <1>2, <1>3, <2>1, <3>1
    <3>3. \A u \in e .. x : u \in t .. x
      BY <1>1, <1>3
    <3>4. \A u \in t .. x : u >= e <=> u \in e .. x
      BY <1>1, <1>3
    <3> QED  BY <1>2, <3>2, <3>3, <3>4
  <2> QED  BY <1>1, <1>2, <1>3, <2>2, <2>3 DEF h, x
<1>4. CASE ~Forbidden(t)
  <2>1. Free(t) = t .. x
    <3>1. \A u \in t .. x : t \in t .. u
      BY <1>1
    <3> QED  BY <1>2, <1>4, <3>1
  <2>2. t > x => t .. x = {}
    BY <1>1
  <2> QED  BY <1>2, <1>4, <2>1, <2>2 DEF x
<1> QED  BY <1>3, <1>4

\* The instants at which a hold owed from t may end.
LEMMA OwedFromClear ==
    ASSUME Signed(covenant), NEW price, NEW t \in Nat, NEW hs,
           hs = HoldSeconds(price, covenant, t), hs # None,
           covenant.hours = None \/ covenant.hours.from # covenant.hours.to
    PROVE  LET u == Max({t + hs, BlackoutEnd(t, covenant.hours)})
           IN  /\ hs \in Nat /\ u \in Nat /\ u >= Clear(t)
               /\ Owed(price, t) = u .. covenant.exp
<1> DEFINE e == BlackoutEnd(t, covenant.hours)
           u == Max({t + hs, e})
           x == covenant.exp
           over == OverThreshold(price, covenant)
<1>1. /\ Forbidden(t) <=> e # 0
      /\ Forbidden(t) => e \in Nat /\ e > t
      /\ Clear(t) = IF Forbidden(t) THEN e ELSE t
      /\ Free(t) = Clear(t) .. x /\ x \in Nat
  BY BlackoutIsForbidden, FreeFromClear DEF Clear, Signed
<1>2. /\ over => hs = covenant.hold /\ hs \in Nat
      /\ ~over => hs = 0 /\ e # 0
  BY DEF HoldSeconds, OverThreshold, Signed
<1>3. hs \in Nat /\ e \in Nat
  BY <1>1, <1>2
<1>4. u = IF t + hs >= e THEN t + hs ELSE e
  BY <1>3, MaxOfTwo
<1>5. Owed(price, t) = {v \in Free(t) : over => v >= t + covenant.hold}
  BY DEF Owed
<1> HIDE DEF e, u, x, over
<1>6. u \in Nat /\ u >= Clear(t)
  BY <1>1, <1>3, <1>4
<1>7. \A v \in Clear(t) .. x : (over => v >= t + covenant.hold) <=> v >= u
  <2>1. CASE over
    BY <1>1, <1>2, <1>3, <1>4, <2>1
  <2>2. CASE ~over
    BY <1>1, <1>2, <1>3, <1>4, <2>2
  <2> QED  BY <2>1, <2>2
<1>8. Owed(price, t) = u .. x
  <2>1. \A v \in Clear(t) .. x : v >= u <=> v \in u .. x
    BY <1>1, <1>6
  <2>2. \A v \in u .. x : v \in Clear(t) .. x
    BY <1>1, <1>3, <1>6
  <2> QED  BY <1>1, <1>5, <1>7, <2>1, <2>2
<1> QED  BY <1>3, <1>6, <1>8 DEF e, u, x

\* A hold the check orders at t ends as the covenant asks.
LEMMA HoldIsOwed ==
    ASSUME Signed(covenant), NEW price, NEW t \in Nat,
           covenant.hours = None \/ covenant.hours.from # covenant.hours.to,
           CooloffSeal(price, covenant, t) = "hold"
    PROVE  LET v == Schedulable(HoldUntil(price, covenant, t), covenant, t)
               owed == Owed(price, t)
           IN  /\ v \in Free(t)
               /\ v = IF owed = {} THEN covenant.exp ELSE Min(owed)
<1> DEFINE hs == HoldSeconds(price, covenant, t)
           e == BlackoutEnd(t, covenant.hours)
           u == HoldUntil(price, covenant, t)
           v == Schedulable(u, covenant, t)
           x == covenant.exp
           owed == Owed(price, t)
<1>1. hs # None /\ v # None
  BY DEF CooloffSeal
<1>2. u = Max({t + hs, e})
  BY DEF HoldUntil
<1>3. hs \in Nat /\ u \in Nat /\ u >= Clear(t) /\ owed = u .. x
  BY <1>1, <1>2, OwedFromClear
<1>4. x > t /\ e <= x /\ v = Min({u, x}) /\ x \in Nat
  <2>1. x \in Nat
    BY DEF Signed
  <2>2. ~(x <= t \/ e > x) /\ v = Min({u, x})
    BY <1>1 DEF Schedulable
  <2>3. e \in Nat
    BY BlackoutIsForbidden
  <2> QED  BY <2>1, <2>2, <2>3
<1>5. v = IF u <= x THEN u ELSE x
  BY <1>3, <1>4, MinOfTwo
<1>6. Free(t) = Clear(t) .. x /\ Clear(t) <= x /\ Clear(t) \in Nat
  <2>1. Clear(t) = e \/ Clear(t) = t
    BY DEF Clear
  <2> QED  BY <1>4, <2>1, FreeFromClear
<1> HIDE DEF hs, e, u, v, x, owed
<1>7. v \in Free(t)
  BY <1>3, <1>4, <1>5, <1>6
<1>8. CASE u <= x
  <2>1. owed # {} /\ Min(u .. x) = u
    BY <1>3, <1>4, <1>8, MinOfInterval
  <2> QED  BY <1>3, <1>5, <1>7, <1>8, <2>1 DEF u, v, x, owed
<1>9. CASE ~(u <= x)
  <2>1. owed = {}
    BY <1>3, <1>4, <1>9
  <2> QED  BY <1>5, <1>7, <1>9, <2>1 DEF u, v, x, owed
<1> QED  BY <1>8, <1>9

\* The check refuses only when the covenant leaves no instant, given that the
\* intent is not spent.
LEMMA RefusalLeavesNothing ==
    ASSUME Signed(covenant), NEW price, NEW t \in Nat, t < covenant.exp,
           CooloffSeal(price, covenant, t) = "fail"
    PROVE  Free(t) = {}
<1> DEFINE e == BlackoutEnd(t, covenant.hours)
           u == HoldUntil(price, covenant, t)
           hs == HoldSeconds(price, covenant, t)
<1>1. hs # None /\ Schedulable(u, covenant, t) = None
  BY DEF CooloffSeal
<1>2. covenant.exp \in Nat /\ e \in Nat
  BY BlackoutIsForbidden DEF Signed
<1>3. hs \in Nat
  BY <1>1 DEF HoldSeconds, OverThreshold, Signed
<1>4. u \in Int
  <2>1. t + hs \in Int
    BY <1>3
  <2>2. Max({t + hs, e}) \in Int
    BY <1>2, <2>1, MaxOfTwo
  <2> QED  BY <2>2 DEF HoldUntil
<1>5. Min({u, covenant.exp}) # None
  <2>1. Min({u, covenant.exp}) \in Int
    BY <1>2, <1>4, MinOfTwo
  <2> QED  BY <2>1, AmountsAreWhole
<1>6. e > covenant.exp
  BY <1>1, <1>2, <1>5 DEF Schedulable
<1>7. Forbidden(t) /\ Clear(t) = e
  BY <1>2, <1>6, BlackoutIsForbidden DEF Clear
<1> QED  BY <1>6, <1>7, FreeFromClear

-----------------------------------------------------------------------------
(* The invariant.                                                           *)

Entry == [kind: {"floor", "verdict", "negotiation"}, cart: Carts \cup {None},
          floor: FloorCommands \cup {None}]

\* Everything kept per cart is kept for every cart.
PerCart(f) == f = [c \in Carts |-> f[c]]
Books ==
    /\ now \in Nat
    /\ covenant \in Covenants
    /\ floor \in FloorCommands \cup {None}
    /\ log \in Seq(Entry)
    /\ pc \in [Carts -> Stages]
    /\ PerCart(quote) /\ PerCart(cart) /\ PerCart(signed) /\ PerCart(verdict)

\* The row the gateway reads is what the ledger says was declared last.
RowIsDeclared == floor = FloorAt(Len(log) + 1)

\* A cart has a verdict when it is done, and seals while it is being signed.
Closed ==
    \A c \in Carts : /\ verdict[c] # None => pc[c] = "done"
                     /\ pc[c] = "signing" => signed[c] \in [1 .. 4 -> Seals]

\* What the ledger says of one sale.
SoldAt(i) ==
    LET c == log[i].cart
        declared == FloorAt(i)
        lowered == declared # None /\ cart[c].price < List
        row == [kind |-> "negotiation", cart |-> c, floor |-> declared]
    IN /\ c \in Carts /\ pc[c] = "done"
       /\ declared # None => cart[c].price >= declared
       /\ quote[c].tier >= 2 /\ cart[c].price = quote[c].unit
       /\ verdict[c].at < quote[c].expiry
       /\ lowered <=> (i < Len(log) /\ log[i + 1] = row)
Sold == \A i \in DOMAIN log : log[i].kind = "verdict" => SoldAt(i)

\* Of one verdict. Hours whose two ends are one are the whole day to the
\* comparison, and over within a day to the window.
HoursHaveTwoEnds == covenant.hours = None \/ covenant.hours.from # covenant.hours.to
HeldOne(c) ==
    LET v == verdict[c]
        owed == Owed(cart[c].price, v.at)
    IN v # None /\ v.committed /\ v.seals[4] = "hold" /\ v.seals[2] = "pass" =>
         /\ v.until \in Free(v.at)
         /\ v.until = IF owed = {} THEN covenant.exp ELSE Min(owed)
RefusedOne(c) ==
    LET v == verdict[c]
    IN v # None /\ ~v.committed
       /\ v.seals[1] = "pass" /\ v.seals[3] = "pass"
       /\ (signed[c] = None \/ signed[c] = v.seals) => Free(v.at) = {}
Judged == \A c \in Carts : (HoursHaveTwoEnds => HeldOne(c)) /\ RefusedOne(c)

ChecksInv == Books /\ RowIsDeclared /\ Closed /\ Sold /\ Judged

\* The seals of a cart are four, each of its check's kinds.
LEMMA SealsAreFour ==
    ASSUME NEW c
    PROVE  /\ SealsNow(c) \in [1 .. 4 -> Seals]
           /\ SealsNow(c)[1] = BoundsSeal(cart[c], covenant, now)
           /\ SealsNow(c)[2] = RiskSeal(cart[c])
           /\ SealsNow(c)[3] = QuoteSeal(cart[c], quote[c], now)
           /\ SealsNow(c)[4] = CooloffSeal(cart[c].price, covenant, now)
<1> DEFINE a == BoundsSeal(cart[c], covenant, now)
           b == RiskSeal(cart[c])
           d == QuoteSeal(cart[c], quote[c], now)
           e == CooloffSeal(cart[c].price, covenant, now)
<1>1. a \in {"pass", "fail"} /\ b \in {"pass", "hold"} /\ d \in {"pass", "fail"} /\ e \in Seals
  BY DEF BoundsSeal, RiskSeal, QuoteSeal, CooloffSeal, Seals
<1>2. SealsNow(c) = <<a, b, d, e>>
  BY DEF SealsNow
<1> HIDE DEF a, b, d, e
<1>3. <<a, b, d, e>> \in [1 .. 4 -> Seals]
  BY <1>1 DEF Seals
<1> QED  BY <1>2, <1>3 DEF a, b, d, e

\* What the verdict of four seals turns on.
LEMMA DecisionTurns ==
    ASSUME NEW s \in [1 .. 4 -> Seals]
    PROVE  /\ Decision(s) = "reject" <=> \E i \in 1 .. 4 : s[i] = "fail"
           /\ Decision(s) # "reject" /\ s[4] = "hold" => Decision(s) = "hold"
<1>1. DOMAIN s = 1 .. 4 /\ \A i \in 1 .. 4 : s[i] \in Seals
  OBVIOUS
<1>2. s \in Seq(Seals) /\ Len(s) = 4
  <2>1. s = [i \in 1 .. 4 |-> s[i]]
    OBVIOUS
  <2> QED  BY <2>1, <1>1
<1>3. \A x : Contains(s, x) <=> \E i \in 1 .. 4 : s[i] = x
  BY <1>2 DEF Contains
<1>4. 4 \in 1 .. 4
  OBVIOUS
<1> QED  BY <1>3, <1>4 DEF Decision

-----------------------------------------------------------------------------
(* Done is done.                                                            *)

\* What one step leaves of the cart that is done.
Keeps(c) ==
    /\ pc'[c] = pc[c] /\ quote'[c] = quote[c] /\ cart'[c] = cart[c]
    /\ signed'[c] = signed[c] /\ verdict'[c] = verdict[c]

\* The calendar and the covenant it is read with stay.
LEMMA CovenantStays ==
    ASSUME covenant' = covenant
    PROVE  /\ \A t : Free(t)' = Free(t)
           /\ \A price, t : Owed(price, t)' = Owed(price, t)
<1>1. \A t : Free(t)' = Free(t)
  BY DEF Free, Forbidden
<1>2. \A price, t : Owed(price, t)' = Owed(price, t)
  BY <1>1 DEF Owed, OverThreshold
<1> QED  BY <1>1, <1>2

\* A cart that keeps its verdict is still judged by it.
LEMMA KeepsItsJudgement ==
    ASSUME covenant' = covenant, NEW c \in Carts, Keeps(c),
           (HoursHaveTwoEnds => HeldOne(c)) /\ RefusedOne(c)
    PROVE  ((HoursHaveTwoEnds => HeldOne(c)) /\ RefusedOne(c))'
<1>1. HoursHaveTwoEnds' <=> HoursHaveTwoEnds
  BY DEF HoursHaveTwoEnds
<1>2. Free(verdict[c].at)' = Free(verdict[c].at)
  BY DEF Free, Forbidden, Keeps
<1>3. Owed(cart[c].price, verdict[c].at)' = Owed(cart[c].price, verdict[c].at)
  BY <1>2 DEF Owed, OverThreshold, Keeps
<1>4. HeldOne(c)' <=> HeldOne(c)
  BY <1>2, <1>3 DEF HeldOne, Keeps
<1>5. RefusedOne(c)' <=> RefusedOne(c)
  BY <1>2 DEF RefusedOne, Keeps
<1> QED  BY <1>1, <1>4, <1>5

-----------------------------------------------------------------------------
(* The ledger grows.                                                        *)

\* The last of some places in a list is one of them.
LEMMA MaxIsMember ==
    ASSUME NEW n \in Nat, NEW S \in SUBSET (1 .. n), S # {}
    PROVE  Max(S) \in S
<1> DEFINE T == {n - x : x \in S}
<1>1. T \in SUBSET Nat /\ T # {}
  <2>1. PICK x \in S : TRUE
    OBVIOUS
  <2>2. n - x \in T
    BY <2>1
  <2>3. \A y \in S : n - y \in Nat
    OBVIOUS
  <2> QED  BY <2>2, <2>3
<1>2. PICK a \in T : \A b \in T : ~(<<b, a>> \in OpToRel(<, Nat))
  BY <1>1, NatLessThanWellFounded, WFMin
<1>3. PICK x \in S : a = n - x
  BY <1>2
<1>4. ASSUME NEW y \in S  PROVE x >= y
  <2>1. n - y \in T /\ n - y \in Nat /\ n - x \in Nat
    BY <1>1
  <2>2. n - y < n - x => <<n - y, n - x>> \in OpToRel(<, Nat)
    BY <2>1 DEF OpToRel
  <2>3. ~(n - y < n - x)
    BY <1>2, <1>3, <2>1, <2>2
  <2> QED  BY <2>3
<1> QED  BY <1>4 DEF Max

\* What was declared before an event stays declared when events follow it.
LEMMA DeclaredStays ==
    ASSUME log \in Seq(Entry), log' \in Seq(Entry), Len(log') >= Len(log),
           \A i \in 1 .. Len(log) : log'[i] = log[i],
           NEW i \in 1 .. Len(log) + 1
    PROVE  FloorAt(i)' = FloorAt(i)
<1>1. DOMAIN log = 1 .. Len(log) /\ DOMAIN log' = 1 .. Len(log') /\ Len(log) \in Nat
      /\ Len(log') \in Nat
  OBVIOUS
<1>2. {j \in FloorEvents' : j < i} = {j \in FloorEvents : j < i}
  <2>1. \A j \in 1 .. Len(log') : j < i => j \in 1 .. Len(log)
    BY <1>1
  <2>2. \A j \in 1 .. Len(log) : j \in 1 .. Len(log')
    BY <1>1
  <2> QED  BY <1>1, <2>1, <2>2 DEF FloorEvents
<1> DEFINE earlier == {j \in FloorEvents : j < i}
<1>3. earlier # {} => Max(earlier) \in earlier
  <2>1. earlier \in SUBSET (1 .. Len(log))
    BY <1>1 DEF FloorEvents
  <2> HIDE DEF earlier
  <2> QED  BY <1>1, <2>1, MaxIsMember
<1>4. earlier # {} => Max(earlier) \in 1 .. Len(log)
  BY <1>1, <1>3 DEF FloorEvents
<1>5. FloorAt(i) = IF earlier = {} THEN None ELSE log[Max(earlier)].floor
  BY DEF FloorAt
<1>6. FloorAt(i)' = IF earlier = {} THEN None ELSE log'[Max(earlier)].floor
  BY <1>2 DEF FloorAt
<1> QED  BY <1>4, <1>5, <1>6

\* Entries that declare no floor leave the last one in force.
LEMMA OthersDeclareNothing ==
    ASSUME log \in Seq(Entry), log' \in Seq(Entry), Len(log') >= Len(log),
           \A i \in 1 .. Len(log) : log'[i] = log[i],
           \A i \in Len(log) + 1 .. Len(log') : log'[i].kind # "floor"
    PROVE  FloorAt(Len(log) + 1) = FloorAt(Len(log) + 1)'
<1>1. DOMAIN log = 1 .. Len(log) /\ DOMAIN log' = 1 .. Len(log') /\ Len(log) \in Nat
      /\ Len(log') \in Nat
  OBVIOUS
<1> DEFINE earlier == {j \in FloorEvents : j < Len(log) + 1}
           later == {j \in FloorEvents' : j < Len(log') + 1}
<1>2. later = earlier
  <2>1. \A j \in 1 .. Len(log') : j \in 1 .. Len(log) \/ j \in Len(log) + 1 .. Len(log')
    BY <1>1
  <2>2. \A j \in 1 .. Len(log) : j \in 1 .. Len(log') /\ j < Len(log) + 1 /\ j < Len(log') + 1
    BY <1>1
  <2> QED  BY <1>1, <2>1, <2>2 DEF FloorEvents
<1>3. earlier # {} => Max(earlier) \in 1 .. Len(log)
  <2>1. earlier \in SUBSET (1 .. Len(log))
    BY <1>1 DEF FloorEvents
  <2> HIDE DEF earlier
  <2> QED  BY <1>1, <2>1, MaxIsMember
<1>4. FloorAt(Len(log) + 1) = IF earlier = {} THEN None ELSE log[Max(earlier)].floor
  BY DEF FloorAt
<1>5. FloorAt(Len(log) + 1)' = IF later = {} THEN None ELSE log'[Max(later)].floor
  BY DEF FloorAt
<1> HIDE DEF earlier, later
<1> QED  BY <1>2, <1>3, <1>4, <1>5

\* A sale that is in the ledger stays what it was, when what follows it next is
\* no negotiation row of its own.
LEMMA SaleStays ==
    ASSUME log \in Seq(Entry), log' \in Seq(Entry), Len(log') >= Len(log),
           \A i \in 1 .. Len(log) : log'[i] = log[i],
           Len(log') > Len(log) => log'[Len(log) + 1].kind # "negotiation",
           \A c \in Carts : pc[c] = "done" => Keeps(c),
           NEW i \in DOMAIN log, SoldAt(i)
    PROVE  SoldAt(i)'
<1> DEFINE c == log[i].cart
           declared == FloorAt(i)
           row == [kind |-> "negotiation", cart |-> c, floor |-> declared]
<1>1. DOMAIN log = 1 .. Len(log) /\ i \in 1 .. Len(log) /\ i \in 1 .. Len(log) + 1
      /\ Len(log) \in Nat /\ Len(log') \in Nat
  OBVIOUS
<1>2. log'[i].cart = c /\ FloorAt(i)' = declared
  <2>1. FloorAt(i)' = FloorAt(i)
    BY <1>1, DeclaredStays
  <2> QED  BY <1>1, <2>1
<1>3. Keeps(c) /\ c \in Carts /\ pc[c] = "done"
  BY DEF SoldAt
<1>4. (i < Len(log') /\ log'[i + 1] = row) <=> (i < Len(log) /\ log[i + 1] = row)
  <2>1. row.kind = "negotiation"
    OBVIOUS
  <2> HIDE DEF row
  <2>2. CASE i < Len(log)
    <3>1. i + 1 \in 1 .. Len(log)
      BY <1>1, <2>2
    <3> QED  BY <1>1, <2>2, <3>1
  <2>3. CASE ~(i < Len(log))
    <3>1. i + 1 = Len(log) + 1
      BY <1>1, <2>3
    <3>2. i < Len(log') => log'[i + 1] # row
      BY <1>1, <2>1, <2>3, <3>1
    <3> QED  BY <2>3, <3>2
  <2> QED  BY <2>2, <2>3
<1>5. SoldAt(i) <=>
        /\ c \in Carts /\ pc[c] = "done"
        /\ declared # None => cart[c].price >= declared
        /\ quote[c].tier >= 2 /\ cart[c].price = quote[c].unit
        /\ verdict[c].at < quote[c].expiry
        /\ (declared # None /\ cart[c].price < List) <=> (i < Len(log) /\ log[i + 1] = row)
  BY DEF SoldAt
<1>6. SoldAt(i)' <=>
        /\ c \in Carts /\ pc'[c] = "done"
        /\ declared # None => cart'[c].price >= declared
        /\ quote'[c].tier >= 2 /\ cart'[c].price = quote'[c].unit
        /\ verdict'[c].at < quote'[c].expiry
        /\ (declared # None /\ cart'[c].price < List) <=> (i < Len(log') /\ log'[i + 1] = row)
  BY <1>2 DEF SoldAt
<1> HIDE DEF c, declared, row
<1> QED  BY <1>3, <1>4, <1>5, <1>6 DEF Keeps

-----------------------------------------------------------------------------
(* The steps.                                                               *)

\* A step that answers nobody and sells nothing.
LEMMA NobodyAnswered ==
    ASSUME ChecksInv, Books', RowIsDeclared', covenant' = covenant,
           Len(log') >= Len(log), \A i \in 1 .. Len(log) : log'[i] = log[i],
           \A i \in DOMAIN log' \ DOMAIN log : log'[i].kind = "floor",
           verdict' = verdict, \A c \in Carts : pc[c] = "done" => Keeps(c),
           \A c \in Carts : pc'[c] = "signing" => signed'[c] \in [1 .. 4 -> Seals]
    PROVE  ChecksInv'
<1>1. DOMAIN log = 1 .. Len(log) /\ DOMAIN log' = 1 .. Len(log') /\ Len(log) \in Nat
      /\ Len(log') \in Nat /\ log \in Seq(Entry) /\ log' \in Seq(Entry)
  BY DEF ChecksInv, Books
<1>2. Closed'
  BY DEF ChecksInv, Closed, Keeps
<1>3. Sold'
  <2> SUFFICES ASSUME NEW i \in DOMAIN log', log'[i].kind = "verdict" PROVE SoldAt(i)'
    BY DEF Sold
  <2>1. i \in DOMAIN log /\ log[i].kind = "verdict"
    BY <1>1
  <2>2. Len(log') > Len(log) => log'[Len(log) + 1].kind # "negotiation"
    <3>1. Len(log') > Len(log) => Len(log) + 1 \in DOMAIN log' \ DOMAIN log
      BY <1>1
    <3> QED  BY <3>1
  <2>3. SoldAt(i)
    BY <2>1 DEF ChecksInv, Sold
  <2> QED  BY <1>1, <2>1, <2>2, <2>3, SaleStays
<1>4. Judged'
  <2> SUFFICES ASSUME NEW c \in Carts
               PROVE  ((HoursHaveTwoEnds => HeldOne(c)) /\ RefusedOne(c))'
    BY DEF Judged
  <2>1. CASE pc[c] = "done"
    BY <2>1, KeepsItsJudgement DEF ChecksInv, Judged
  <2>2. CASE pc[c] # "done"
    <3>1. verdict'[c] = None
      BY <2>2 DEF ChecksInv, Closed
    <3> QED  BY <3>1 DEF HeldOne, RefusedOne
  <2> QED  BY <2>1, <2>2
<1> QED  BY <1>2, <1>3, <1>4 DEF ChecksInv

\* The merchant moves the floor: the row and the event.
LEMMA FloorsStand ==
    ASSUME ChecksInv, SetFloor
    PROVE  ChecksInv'
<1>1. PICK f \in FloorCommands :
        /\ floor' = f
        /\ log' = Append(log, [kind |-> "floor", cart |-> None, floor |-> f])
  BY DEF SetFloor
<1> DEFINE e == [kind |-> "floor", cart |-> None, floor |-> f]
           n == Len(log)
<1>2. UNCHANGED <<now, covenant, pc, shelf, quote, cart, signed, verdict>>
  BY DEF SetFloor, shopping
<1>3. e \in Entry /\ e.kind = "floor" /\ e.floor = f
  BY DEF Entry
<1> HIDE DEF e
<1>4. /\ log \in Seq(Entry) /\ n \in Nat /\ log' = Append(log, e)
      /\ DOMAIN log = 1 .. n
  BY <1>1 DEF ChecksInv, Books, e
<1>5. /\ log' \in Seq(Entry) /\ Len(log') = n + 1 /\ log'[n + 1] = e
      /\ \A i \in 1 .. n : log'[i] = log[i]
      /\ DOMAIN log' = 1 .. n + 1
  BY <1>3, <1>4
<1>6. Books'
  BY <1>1, <1>2, <1>5 DEF ChecksInv, Books, PerCart
<1>7. RowIsDeclared'
  <2> DEFINE earlier == {j \in FloorEvents : j < Len(log) + 1}
  <2>1. earlier' = {j \in 1 .. n + 1 : log'[j].kind = "floor" /\ j < (n + 1) + 1}
    BY <1>5 DEF FloorEvents
  <2>2. n + 1 \in earlier' /\ \A j \in earlier' : j <= n + 1
    BY <1>3, <1>4, <1>5, <2>1
  <2>3. earlier' \in SUBSET (1 .. n + 1) /\ n + 1 \in Nat
    BY <1>4, <2>1
  <2>4. Max(earlier') = n + 1
    <3>1. Max(earlier') \in earlier' /\ Max(earlier') >= n + 1
      <4> DEFINE S == earlier'
      <4>1. S \in SUBSET (1 .. n + 1) /\ n + 1 \in S
        BY <2>2, <2>3
      <4> HIDE DEF S
      <4>2. Max(S) \in S
        BY <2>3, <4>1, MaxIsMember
      <4>3. \E m \in S : \A y \in S : m >= y
        BY <2>2, <2>3, <4>1 DEF S
      <4>4. \A y \in S : Max(S) >= y
        BY <4>3 DEF Max
      <4> QED  BY <4>1, <4>2, <4>4 DEF S
    <3> QED  BY <2>2, <2>3, <3>1
  <2>5. FloorAt(Len(log) + 1)' = IF earlier' = {} THEN None ELSE log'[Max(earlier')].floor
    BY DEF FloorAt
  <2> HIDE DEF earlier
  <2> QED  BY <1>1, <1>3, <1>5, <2>2, <2>4, <2>5 DEF RowIsDeclared
<1>8. \A i \in DOMAIN log' \ DOMAIN log : log'[i].kind = "floor"
  <2>1. \A i \in 1 .. n + 1 : i \in 1 .. n \/ i = n + 1
    BY <1>4
  <2> QED  BY <1>3, <1>4, <1>5, <2>1
<1>9. \A c \in Carts : Keeps(c) /\ (pc'[c] = "signing" => signed'[c] \in [1 .. 4 -> Seals])
  BY <1>2 DEF Keeps, ChecksInv, Closed
<1>10. Len(log') >= Len(log)
  BY <1>4, <1>5
<1> QED  BY <1>2, <1>5, <1>6, <1>7, <1>8, <1>9, <1>10, NobodyAnswered

\* The clock ticks.
LEMMA TicksStand ==
    ASSUME ChecksInv, UNCHANGED <<covenant, floor, log, shopping>>, now' \in Nat
    PROVE  ChecksInv'
<1>1. UNCHANGED <<covenant, floor, log, pc, shelf, quote, cart, signed, verdict>>
  BY DEF shopping
<1>2. Books'
  BY <1>1 DEF ChecksInv, Books, PerCart
<1>3. RowIsDeclared'
  BY <1>1 DEF ChecksInv, RowIsDeclared, FloorAt, FloorEvents
<1>4. \A c \in Carts : Keeps(c) /\ (pc'[c] = "signing" => signed'[c] \in [1 .. 4 -> Seals])
  BY <1>1 DEF Keeps, ChecksInv, Closed
<1>5. Len(log') >= Len(log) /\ DOMAIN log' = DOMAIN log
  BY <1>1 DEF ChecksInv, Books
<1> QED  BY <1>1, <1>2, <1>3, <1>4, <1>5, NobodyAnswered

\* A cart on its way to the gateway: no verdict yet, and nothing sold.
LEMMA OnItsWayStands ==
    ASSUME ChecksInv, NEW c \in Carts, ReadShelf(c) \/ Quote(c) \/ Present(c)
    PROVE  ChecksInv'
<1>1. /\ UNCHANGED <<now, covenant, floor, log, signed, verdict>>
      /\ pc[c] \in {"idle", "shopping", "quoted"}
      /\ \E s \in {"shopping", "quoted", "presented"} : pc' = [pc EXCEPT ![c] = s]
      /\ quote' = quote \/ \E x : quote' = [quote EXCEPT ![c] = x]
      /\ cart' = cart \/ \E x : cart' = [cart EXCEPT ![c] = x]
  BY DEF ReadShelf, Quote, Present
<1>2. pc' \in [Carts -> Stages] /\ pc'[c] \in {"shopping", "quoted", "presented"}
      /\ \A d \in Carts : d # c => pc'[d] = pc[d]
  BY <1>1 DEF ChecksInv, Books, Stages
<1>3. PerCart(quote') /\ \A d \in Carts : d # c => quote'[d] = quote[d]
  BY <1>1 DEF ChecksInv, Books, PerCart
<1>4. PerCart(cart') /\ \A d \in Carts : d # c => cart'[d] = cart[d]
  BY <1>1 DEF ChecksInv, Books, PerCart
<1>5. Books'
  BY <1>1, <1>2, <1>3, <1>4 DEF ChecksInv, Books, PerCart
<1>6. RowIsDeclared'
  BY <1>1 DEF ChecksInv, RowIsDeclared, FloorAt, FloorEvents
<1>7. \A d \in Carts : pc[d] = "done" => Keeps(d)
  BY <1>1, <1>2, <1>3, <1>4 DEF Keeps
<1>8. \A d \in Carts : pc'[d] = "signing" => signed'[d] \in [1 .. 4 -> Seals]
  BY <1>1, <1>2 DEF ChecksInv, Closed
<1>9. Len(log') >= Len(log) /\ DOMAIN log' = DOMAIN log
  BY <1>1 DEF ChecksInv, Books
<1> QED  BY <1>1, <1>5, <1>6, <1>7, <1>8, <1>9, NobodyAnswered

\* The evaluation that is not a reject: the seals go to be signed.
LEMMA SigningStands ==
    ASSUME ChecksInv, NEW c \in Carts, pc[c] = "presented",
           pc' = [pc EXCEPT ![c] = "signing"],
           signed' = [signed EXCEPT ![c] = SealsNow(c)],
           UNCHANGED <<now, covenant, floor, log, shelf, quote, cart, verdict>>
    PROVE  ChecksInv'
<1>1. SealsNow(c) \in [1 .. 4 -> Seals]
  BY SealsAreFour
<1>2. pc' \in [Carts -> Stages] /\ \A d \in Carts : d # c => pc'[d] = pc[d]
  BY DEF ChecksInv, Books, Stages
<1>3. PerCart(signed') /\ signed'[c] = SealsNow(c)
      /\ \A d \in Carts : d # c => signed'[d] = signed[d]
  BY DEF ChecksInv, Books, PerCart
<1>5. Books'
  BY <1>2, <1>3 DEF ChecksInv, Books, PerCart
<1>6. RowIsDeclared'
  BY DEF ChecksInv, RowIsDeclared, FloorAt, FloorEvents
<1>7. \A d \in Carts : pc[d] = "done" => Keeps(d)
  BY <1>2, <1>3 DEF Keeps
<1>8. \A d \in Carts : pc'[d] = "signing" => signed'[d] \in [1 .. 4 -> Seals]
  BY <1>1, <1>2, <1>3 DEF ChecksInv, Closed
<1>9. Len(log') >= Len(log) /\ DOMAIN log' = DOMAIN log
  BY DEF ChecksInv, Books
<1> QED  BY <1>5, <1>6, <1>7, <1>8, <1>9, NobodyAnswered

\* A verdict given now is one the covenant would give.
LEMMA AnswerIsJudged ==
    ASSUME ChecksInv, NEW c \in Carts, NEW b \in BOOLEAN, Answer(c, SealsNow(c), b),
           UNCHANGED <<covenant, cart, signed>>,
           b => Decision(SealsNow(c)) # "reject",
           ~b => \/ Decision(SealsNow(c)) = "reject"
                 \/ signed[c] \in [1 .. 4 -> Seals] /\ SealsNow(c) # signed[c]
    PROVE  ((HoursHaveTwoEnds => HeldOne(c)) /\ RefusedOne(c))'
<1> DEFINE s == SealsNow(c)
           price == cart[c].price
           v == [committed |-> b, seals |-> s, at |-> now, until |-> ExecutesAt(c, s)]
<1>1. verdict'[c] = v
  BY DEF Answer, ChecksInv, Books, PerCart
<1>2. v.committed = b /\ v.seals = s /\ v.at = now /\ v.until = ExecutesAt(c, s)
  OBVIOUS
<1>3. now \in Nat /\ Signed(covenant)
  BY CovenantIsSigned DEF ChecksInv, Books
<1>4. /\ s \in [1 .. 4 -> Seals]
      /\ s[1] = BoundsSeal(cart[c], covenant, now)
      /\ s[2] = RiskSeal(cart[c])
      /\ s[3] = QuoteSeal(cart[c], quote[c], now)
      /\ s[4] = CooloffSeal(price, covenant, now)
  BY SealsAreFour
<1>5. /\ \A t : Free(t)' = Free(t)
      /\ \A p, t : Owed(p, t)' = Owed(p, t)
  BY CovenantStays
<1>6. ExecutesAt(c, s) = IF Decision(s) # "hold" THEN None
                         ELSE IF s[2] = "hold" THEN now
                         ELSE Schedulable(HoldUntil(price, covenant, now), covenant, now)
  BY DEF ExecutesAt
<1> HIDE DEF s, v
<1>7. ASSUME HoursHaveTwoEnds, b = TRUE, s[4] = "hold", s[2] = "pass"
      PROVE  /\ v.until \in Free(now)
             /\ v.until = IF Owed(price, now) = {} THEN covenant.exp
                          ELSE Min(Owed(price, now))
  <2>1. Decision(s) = "hold"
    BY <1>4, <1>7, DecisionTurns DEF s
  <2>2. v.until = Schedulable(HoldUntil(price, covenant, now), covenant, now)
    BY <1>2, <1>6, <1>7, <2>1
  <2> QED  BY <1>3, <1>4, <1>7, <2>2, HoldIsOwed DEF HoursHaveTwoEnds
<1>8. ASSUME b = FALSE, s[1] = "pass", s[3] = "pass", signed[c] = None \/ signed[c] = s
      PROVE  Free(now) = {}
  <2>1. Decision(s) = "reject"
    BY <1>8, AmountsAreWhole DEF s
  <2>2. PICK i \in 1 .. 4 : s[i] = "fail"
    BY <1>4, <2>1, DecisionTurns
  <2>3. s[2] # "fail"
    BY <1>4 DEF RiskSeal
  <2>4. s[4] = "fail"
    BY <1>8, <2>2, <2>3
  <2>5. now < covenant.exp
    BY <1>4, <1>8 DEF BoundsSeal
  <2> QED  BY <1>3, <1>4, <2>4, <2>5, RefusalLeavesNothing
<1>9. HoursHaveTwoEnds' <=> HoursHaveTwoEnds
  BY DEF HoursHaveTwoEnds
<1>10. verdict'[c].at = now /\ verdict'[c].committed = b /\ verdict'[c].seals = s
       /\ verdict'[c].until = v.until
  BY <1>1, <1>2
<1>11. Free(verdict[c].at)' = Free(now)
  BY <1>10 DEF Free, Forbidden
<1>12. Owed(cart[c].price, verdict[c].at)' = Owed(price, now)
  BY <1>10, <1>11 DEF Owed, OverThreshold
<1>13. HoursHaveTwoEnds => HeldOne(c)'
  <2> SUFFICES ASSUME HoursHaveTwoEnds, b = TRUE, s[4] = "hold", s[2] = "pass"
               PROVE  /\ verdict'[c].until \in Free(verdict[c].at)'
                      /\ verdict'[c].until = IF Owed(cart[c].price, verdict[c].at)' = {}
                                             THEN covenant'.exp
                                             ELSE Min(Owed(cart[c].price, verdict[c].at)')
    BY <1>10 DEF HeldOne
  <2>1. /\ v.until \in Free(now)
        /\ v.until = IF Owed(price, now) = {} THEN covenant.exp ELSE Min(Owed(price, now))
    BY <1>7
  <2> QED  BY <1>10, <1>11, <1>12, <2>1
<1>14. RefusedOne(c)'
  <2> SUFFICES ASSUME b = FALSE, s[1] = "pass", s[3] = "pass",
                      signed[c] = None \/ signed[c] = s
               PROVE  Free(verdict[c].at)' = {}
    BY <1>10 DEF RefusedOne
  <2> QED  BY <1>8, <1>11
<1> QED  BY <1>9, <1>13, <1>14

\* A verdict that sells nothing.
LEMMA AnswerWithoutSale ==
    ASSUME ChecksInv, NEW c \in Carts, Answer(c, SealsNow(c), FALSE),
           pc[c] # "done", UNCHANGED <<now, covenant, floor, log, shelf, quote, cart, signed>>,
           \/ Decision(SealsNow(c)) = "reject"
           \/ signed[c] \in [1 .. 4 -> Seals] /\ SealsNow(c) # signed[c]
    PROVE  ChecksInv'
<1>1. pc' \in [Carts -> Stages] /\ pc'[c] = "done" /\ \A d \in Carts : d # c => pc'[d] = pc[d]
  BY DEF ChecksInv, Books, Stages, Answer
<1>2. PerCart(verdict') /\ \A d \in Carts : d # c => verdict'[d] = verdict[d]
  <2> DEFINE x == [committed |-> FALSE, seals |-> SealsNow(c), at |-> now,
                   until |-> ExecutesAt(c, SealsNow(c))]
  <2>1. verdict' = [verdict EXCEPT ![c] = x]
    BY DEF Answer
  <2> HIDE DEF x
  <2> QED  BY <2>1 DEF ChecksInv, Books, PerCart
<1>3. Books'
  BY <1>1, <1>2 DEF ChecksInv, Books, PerCart
<1>4. RowIsDeclared'
  BY DEF ChecksInv, RowIsDeclared, FloorAt, FloorEvents
<1>5. Closed'
  BY <1>1, <1>2 DEF ChecksInv, Closed
<1>6. \A d \in Carts : d # c => Keeps(d)
  BY <1>1, <1>2 DEF Keeps
<1>7. Sold'
  <2> SUFFICES ASSUME NEW i \in DOMAIN log', log'[i].kind = "verdict" PROVE SoldAt(i)'
    BY DEF Sold
  <2>1. i \in DOMAIN log /\ SoldAt(i)
    BY DEF ChecksInv, Sold
  <2>2. log \in Seq(Entry) /\ log' \in Seq(Entry) /\ Len(log') >= Len(log)
        /\ ~(Len(log') > Len(log)) /\ \A j \in 1 .. Len(log) : log'[j] = log[j]
    BY DEF ChecksInv, Books
  <2>3. \A d \in Carts : pc[d] = "done" => Keeps(d)
    BY <1>6
  <2> QED  BY <2>1, <2>2, <2>3, SaleStays
<1>8. Judged'
  <2> SUFFICES ASSUME NEW d \in Carts
               PROVE  ((HoursHaveTwoEnds => HeldOne(d)) /\ RefusedOne(d))'
    BY DEF Judged
  <2>1. CASE d = c
    BY <2>1, AnswerIsJudged
  <2>2. CASE d # c
    BY <1>6, <2>2, KeepsItsJudgement DEF ChecksInv, Judged
  <2> QED  BY <2>1, <2>2
<1> QED  BY <1>3, <1>4, <1>5, <1>7, <1>8 DEF ChecksInv

\* One more row at the end of a list.
LEMMA RowAdded ==
    ASSUME NEW Rows, NEW l \in Seq(Rows), NEW row \in Rows, NEW m \in Nat, m = Len(l)
    PROVE  /\ l \o <<row>> = Append(l, row)
           /\ Append(l, row) \in Seq(Rows)
           /\ Len(Append(l, row)) = m + 1
           /\ Append(l, row)[m + 1] = row
           /\ \A i \in 1 .. m : Append(l, row)[i] = l[i]
OBVIOUS

\* The sale: the verdict's row, and the negotiation's where the band lowered
\* the price.
LEMMA SaleStands ==
    ASSUME ChecksInv, NEW c \in Carts, Answer(c, SealsNow(c), TRUE), pc[c] = "signing",
           UNCHANGED <<now, covenant, floor, shelf, quote, cart, signed>>,
           Decision(SealsNow(c)) # "reject",
           log' = log \o <<[kind |-> "verdict", cart |-> c, floor |-> None]>>
                      \o Negotiation(c)
    PROVE  ChecksInv'
<1> DEFINE n == Len(log)
           a == [kind |-> "verdict", cart |-> c, floor |-> None]
           b == [kind |-> "negotiation", cart |-> c, floor |-> floor]
           lowered == floor # None /\ cart[c].price < List
           x == [committed |-> TRUE, seals |-> SealsNow(c), at |-> now,
                 until |-> ExecutesAt(c, SealsNow(c))]
<1>0. log \in Seq(Entry) /\ n \in Nat /\ DOMAIN log = 1 .. n
  BY DEF ChecksInv, Books
<1>1. pc' \in [Carts -> Stages] /\ pc'[c] = "done" /\ \A d \in Carts : d # c => pc'[d] = pc[d]
  BY DEF ChecksInv, Books, Stages, Answer
<1>2. a \in Entry /\ a.kind = "verdict" /\ a.cart = c
      /\ b \in Entry /\ b.kind = "negotiation" /\ b.cart = c
      /\ a # b
  BY DEF ChecksInv, Books, Entry
<1>00. x.at = now
  OBVIOUS
<1>3. log' = log \o <<a>> \o (IF lowered THEN <<b>> ELSE <<>>)
  BY DEF Negotiation
<1>30. PerCart(verdict') /\ (\A d \in Carts : d # c => verdict'[d] = verdict[d]) /\ verdict'[c].at = now
  <2>1. verdict' = [verdict EXCEPT ![c] = x]
    BY DEF Answer
  <2> HIDE DEF x
  <2> QED  BY <1>00, <2>1 DEF ChecksInv, Books, PerCart
<1> HIDE DEF a, b, lowered, x
<1>4. /\ log' \in Seq(Entry)
      /\ Len(log') = IF lowered THEN n + 2 ELSE n + 1
      /\ log'[n + 1] = a /\ (lowered => log'[n + 2] = b)
      /\ \A i \in 1 .. n : log'[i] = log[i]
      /\ DOMAIN log' = 1 .. Len(log')
  <2> DEFINE l == Append(log, a)
  <2>1. /\ log \o <<a>> = l
        /\ l \in Seq(Entry) /\ Len(l) = n + 1
        /\ l[n + 1] = a /\ \A i \in 1 .. n : l[i] = log[i]
    BY <1>0, <1>2, RowAdded
  <2> HIDE DEF l
  <2>2. CASE lowered
    <3> DEFINE k == Append(l, b)
    <3>1. /\ l \o <<b>> = k
          /\ k \in Seq(Entry) /\ Len(k) = n + 1 + 1
          /\ k[n + 1 + 1] = b /\ \A i \in 1 .. n + 1 : k[i] = l[i]
      BY <1>0, <1>2, <2>1, RowAdded
    <3>2. log' = k
      BY <1>3, <2>1, <2>2, <3>1
    <3> HIDE DEF k
    <3>3. n + 1 + 1 = n + 2
      BY <1>0
    <3>4. k[n + 1] = a /\ \A i \in 1 .. n : k[i] = log[i]
      BY <1>0, <2>1, <3>1
    <3>5. DOMAIN k = 1 .. Len(k)
      BY <3>1
    <3> QED  BY <2>2, <3>1, <3>2, <3>3, <3>4, <3>5
  <2>3. CASE ~lowered
    <3>1. log' = l
      BY <1>3, <2>1, <2>3
    <3>2. DOMAIN l = 1 .. Len(l)
      BY <2>1
    <3> QED  BY <2>1, <2>3, <3>1, <3>2
  <2> QED  BY <2>2, <2>3
<1>5. Books'
  BY <1>1, <1>4, <1>30 DEF ChecksInv, Books, PerCart
<1>6. \A i \in n + 1 .. Len(log') : log'[i].kind # "floor"
  <2>1. \A i \in n + 1 .. Len(log') : i = n + 1 \/ (lowered /\ i = n + 2)
    BY <1>0, <1>4
  <2> QED  BY <1>2, <1>4, <2>1
<1>7. Len(log') >= Len(log)
  BY <1>0, <1>4
<1>8. RowIsDeclared'
  <2>1. FloorAt(Len(log) + 1) = FloorAt(Len(log) + 1)'
    BY <1>0, <1>4, <1>6, <1>7, OthersDeclareNothing
  <2> QED  BY <2>1 DEF ChecksInv, RowIsDeclared
<1>9. Closed'
  BY <1>1, <1>30 DEF ChecksInv, Closed
<1>10. \A d \in Carts : d # c => Keeps(d)
  BY <1>1, <1>30 DEF Keeps
<1>11. ASSUME NEW i, i = n + 1
       PROVE  SoldAt(i)'
  <2>1. FloorAt(n + 1) = floor
    BY DEF ChecksInv, RowIsDeclared
  <2>2. \A j \in 1 .. n + 1 : FloorAt(j)' = FloorAt(j)
    BY <1>0, <1>4, <1>7, DeclaredStays
  <2>3. FloorAt(i)' = floor
    BY <1>0, <2>1, <2>2, <1>11
  <2>4. QuoteSeal(cart[c], quote[c], now) = "pass"
    <3>1. SealsNow(c)[3] # "fail"
      BY SealsAreFour, DecisionTurns
    <3> QED  BY <3>1, SealsAreFour DEF QuoteSeal
  <2>5. /\ quote[c].tier >= 2 /\ cart[c].price = quote[c].unit
        /\ floor = None \/ cart[c].price >= floor
        /\ now < quote[c].expiry
    BY <2>4 DEF QuoteSeal, AboveFloor
  <2>6. lowered <=> (i < Len(log') /\ log'[i + 1] = b)
    <3>1. i + 1 = n + 2
      BY <1>0, <1>11
    <3> QED  BY <1>0, <1>4, <1>11, <3>1
  <2>7. log'[i].cart = c
    BY <1>2, <1>4, <1>11
  <2> QED  BY <1>1, <1>30, <2>3, <2>5, <2>6, <2>7 DEF SoldAt, lowered, b
<1>12. Sold'
  <2> SUFFICES ASSUME NEW i \in DOMAIN log', log'[i].kind = "verdict" PROVE SoldAt(i)'
    BY DEF Sold
  <2>1. i \in 1 .. n \/ i = n + 1
    <3>1. \A j \in 1 .. Len(log') : j \in 1 .. n \/ j = n + 1 \/ (lowered /\ j = n + 2)
      BY <1>0, <1>4
    <3> QED  BY <1>2, <1>4, <3>1
  <2>2. CASE i \in 1 .. n
    <3>1. i \in DOMAIN log /\ SoldAt(i)
      BY <1>0, <1>4, <2>2 DEF ChecksInv, Sold
    <3>2. log'[Len(log) + 1].kind # "negotiation"
      BY <1>2, <1>4
    <3>3. \A d \in Carts : pc[d] = "done" => Keeps(d)
      BY <1>10
    <3> QED  BY <1>0, <1>4, <1>7, <3>1, <3>2, <3>3, SaleStays
  <2>3. CASE i = n + 1
    BY <1>11, <2>3
  <2> QED  BY <2>1, <2>2, <2>3
<1>13. Judged'
  <2> SUFFICES ASSUME NEW d \in Carts
               PROVE  ((HoursHaveTwoEnds => HeldOne(d)) /\ RefusedOne(d))'
    BY DEF Judged
  <2>1. CASE d = c
    BY <2>1, AnswerIsJudged
  <2>2. CASE d # c
    BY <1>10, <2>2, KeepsItsJudgement DEF ChecksInv, Judged
  <2> QED  BY <2>1, <2>2
<1> QED  BY <1>5, <1>8, <1>9, <1>12, <1>13 DEF ChecksInv

-----------------------------------------------------------------------------
\* No step undoes the invariant.
LEMMA ChecksSteps ==
    ASSUME ChecksInv, [Next]_vars
    PROVE  ChecksInv'
<1>1. CASE SetFloor
  BY <1>1, FloorsStand
<1>2. CASE Tick
  <2>1. now' \in Nat
    BY <1>2 DEF Tick, ChecksInv, Books
  <2> QED  BY <1>2, <2>1, TicksStand DEF Tick
<1>3. CASE UNCHANGED vars
  <2>1. now' \in Nat /\ UNCHANGED <<covenant, floor, log, shopping>>
    BY <1>3 DEF vars, shopping, ChecksInv, Books
  <2> QED  BY <2>1, TicksStand
<1>4. ASSUME NEW c \in Carts, Shop(c)
      PROVE  ChecksInv'
  <2>1. CASE ReadShelf(c) \/ Quote(c) \/ Present(c)
    BY <2>1, OnItsWayStands
  <2>2. CASE Evaluate(c)
    <3>1. CASE Decision(SealsNow(c)) = "reject" /\ Answer(c, SealsNow(c), FALSE) /\ signed' = signed
      BY <2>2, <3>1, AnswerWithoutSale DEF Evaluate
    <3>2. CASE pc' = [pc EXCEPT ![c] = "signing"] /\ verdict' = verdict
               /\ signed' = [signed EXCEPT ![c] = SealsNow(c)]
      BY <2>2, <3>2, SigningStands DEF Evaluate
    <3> QED  BY <2>2, <3>1, <3>2 DEF Evaluate
  <2>3. CASE Commit(c)
    <3>1. CASE /\ Decision(SealsNow(c)) = "reject" \/ SealsNow(c) # signed[c]
               /\ Answer(c, SealsNow(c), FALSE) /\ log' = log
      <4>1. signed[c] \in [1 .. 4 -> Seals]
        BY <2>3 DEF Commit, ChecksInv, Closed
      <4> QED  BY <2>3, <3>1, <4>1, AnswerWithoutSale DEF Commit
    <3>2. CASE /\ Decision(SealsNow(c)) # "reject" /\ Answer(c, SealsNow(c), TRUE)
               /\ log' = log \o <<[kind |-> "verdict", cart |-> c, floor |-> None]>>
                              \o Negotiation(c)
      BY <2>3, <3>2, SaleStands DEF Commit
    <3> QED  BY <2>3, <3>1, <3>2 DEF Commit
  <2> QED  BY <1>4, <2>1, <2>2, <2>3 DEF Shop
<1> QED  BY <1>1, <1>2, <1>3, <1>4 DEF Next

\* It holds at the start and for ever.
LEMMA ChecksStand == Spec => []ChecksInv
<1>1. ASSUME Init  PROVE ChecksInv
  <2>1. Books
    BY <1>1 DEF Init, Books, PerCart, Stages
  <2>2. RowIsDeclared
    <3>1. FloorEvents = {}
      BY <1>1 DEF Init, FloorEvents
    <3> QED  BY <1>1, <3>1 DEF Init, RowIsDeclared, FloorAt
  <2>3. Closed /\ Judged
    BY <1>1 DEF Init, Closed, Judged, HeldOne, RefusedOne
  <2>4. Sold
    BY <1>1 DEF Init, Sold
  <2> QED  BY <2>1, <2>2, <2>3, <2>4 DEF ChecksInv
<1>2. ChecksInv /\ [Next]_vars => ChecksInv'
  BY ChecksSteps
<1> QED  BY <1>1, <1>2, PTL DEF Spec

\* Read from the ledger alone, every sale is inside the band declared by then,
\* at the attested price, in the quote's time and followed by its negotiation
\* row exactly when the band lowered it, for any band and any number of carts
\* and of floors set between the shelf's read and the commit
\* (verify-cart-service.ts commit, quote-match-check.ts, price-floor-service.ts).
THEOREM SalesAreInTheBand == Spec => []SoldWithinTheBand
<1>1. ChecksInv => SoldWithinTheBand
  BY DEF ChecksInv, Sold, SoldAt, SoldWithinTheBand
<1> QED  BY <1>1, ChecksStand, PTL

\* A cart attested, in its band, in time and within the cap is turned away only
\* when the covenant leaves no instant, or when its verdict changed while the
\* mandate was being signed, for any calendar (cooloff-check.ts).
THEOREM RefusalsHaveReasons == Spec => []RefusedForAReason
<1>1. ChecksInv => RefusedForAReason
  BY DEF ChecksInv, Judged, RefusedOne, RefusedForAReason
<1> QED  BY <1>1, ChecksStand, PTL

\* A purchase parked for the covenant's sake is parked until the first instant
\* that serves the rule and the forbidden hours, or the expiry: for any day, zone,
\* hold and expiry, as long as the hours a covenant may declare begin and end
\* at different minutes (cooloff-check.ts, blackout-window.ts). With one minute
\* for both the code holds the whole day forbidden and lets it end within a day.
THEOREM HoldsServeTheCovenant ==
    ASSUME \A h \in Hours \ {None} : h.from # h.to
    PROVE  Spec => []HeldForTheCovenant
<1>1. ChecksInv => HeldForTheCovenant
  <2> SUFFICES ASSUME ChecksInv PROVE HeldForTheCovenant
    OBVIOUS
  <2>1. HoursHaveTwoEnds
    BY DEF ChecksInv, Books, Covenants, HoursHaveTwoEnds
  <2> QED  BY <2>1 DEF ChecksInv, Judged, HeldOne, HeldForTheCovenant
<1> QED  BY <1>1, ChecksStand, PTL
=============================================================================
