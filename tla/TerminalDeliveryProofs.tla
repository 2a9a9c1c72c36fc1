----------------------- MODULE TerminalDeliveryProofs -----------------------
(***************************************************************************)
(* TerminalDelivery for every length of output, ring, page, queue and      *)
(* number of attachments.                                                  *)
(***************************************************************************)
EXTENDS TerminalDelivery, FiniteSetTheorems, WellFoundedInduction, TLAPS

-----------------------------------------------------------------------------
(* The inductive invariant.                                                *)

Draining(g) == drains[g].at # "off"

(* Who serves the current attachment: a session, then a drain, then the    *)
(* terminal itself; an exited terminal's attachment is served in full.     *)
Servers ==
    /\ session.gen # 0 =>
          sub.gen = session.gen /\ sub.deferred /\ ~Draining(session.gen)
    /\ sub.gen = 0 => ~sub.deferred /\ ~sub.staged
    /\ sub.gen # 0 =>
          /\ seen.gen = sub.gen /\ seen.open /\ ~seen.ended
          /\ sub.deferred <=> session.gen # 0 \/ Draining(sub.gen)
          /\ sub.staged <=> ~alive
    /\ seen.open => seen.gen # 0 /\ (sub.gen = 0 => seen.ended)
    /\ ~seen.open => seen = NoView
    /\ seen.ended => ~alive

(* The generation of an attachment on its way is new to the server, and    *)
(* nothing was received or credited for it.                                *)
Contents(q) == Range(q.lane) \cup Range(q.spill) \cup Range(q.wire)
InUse ==
    {sub.gen, seen.gen} \cup {g \in Gens : Draining(g)} \cup {e.gen : e \in Contents(out)}

Newest(used, gen) == \A g \in used : g <= gen

Sent(u, used, gen, inbox) ==
    \A i \in DOMAIN u :
        /\ u[i].gen <= gen
        /\ u[i].kind = "attach" =>
              /\ \A g \in used : g < u[i].gen
              /\ u[i].gen = gen => inbox = {}
              /\ \A j \in DOMAIN u : j > i /\ u[j].kind = "attach" => u[i].gen < u[j].gen
              /\ \A j \in DOMAIN u : u[j].kind = "credit" => u[j].gen # u[i].gen

Fresh == Newest(InUse, pane.gen) /\ Sent(up, InUse, pane.gen, pane.inbox)

(* How far the current attachment is covered.                              *)
Through ==
    IF session.gen # 0
      THEN IF pc = "start" THEN session.credited ELSE session.pageEnd
      ELSE IF sub.deferred THEN drains[sub.gen].cursor ELSE head

Stretched ==
    /\ session.gen # 0 => session.credited <= session.pageEnd
    /\ \A g \in Gens : drains[g].at = "gap" => drains[g].cursor <= drains[g].lostTo
    /\ seen.open => seen.base <= Through /\ Covered = (seen.base + 1) .. Through
    /\ seen.open /\ Draining(seen.gen) => sub.gen = seen.gen

(* The session's frames: on their way in the queue, in the pane's inbox,   *)
(* and the credits for them.                                               *)
FrameOf(e, g) == e.gen = g /\ e.kind = "frame"
Numbers(s, g) == {e.to : e \in {d \in Range(s) : FrameOf(d, g)}}
OnTheWay(q, g) == Numbers(q.lane, g) \cup Numbers(q.wire, g)
Inbox(g) == IF pane.gen = g THEN pane.inbox ELSE {}
Credits(u, g) == {m.seq : m \in {c \in Range(u) : c.gen = g /\ c.kind = "credit"}}

Rising(s, g) ==
    \A i, j \in DOMAIN s :
        i < j /\ FrameOf(s[i], g) /\ FrameOf(s[j], g) => s[i].to < s[j].to
InOrder(q, g) ==
    /\ Rising(q.lane, g)
    /\ \A m \in Numbers(q.wire, g), n \in Numbers(q.lane, g) : m < n

(* The page out is the session's last one; no credit of its end is out     *)
(* while a frame of it is still unread.                                    *)
PageOut(s, p, way, inbox, credits) ==
    /\ \A n \in way \cup inbox : s.credited < n /\ n <= s.pageEnd /\ s.pageEnd - PageFrames < n
    /\ \A n \in inbox : \A k \in way : n < k
    /\ \A c \in credits : c <= s.pageEnd /\ \A n \in way \cup inbox : c < n
    /\ p \in {"start", "guard"} => way \cup inbox = {}
    /\ p = "start" => s.pageEnd <= s.credited + PageFrames /\ credits = {}
    /\ p = "drive" => way \cup inbox = {} \/ s.pageEnd >= PhaseTarget(s)

Paged ==
    session.gen # 0 =>
        /\ PageOut(session, pc, OnTheWay(out, session.gen), Inbox(session.gen),
                   Credits(up, session.gen))
        /\ InOrder(out, session.gen)

(* A drain that may read has room for its page.                            *)
RoomForPage ==
    \A g \in Gens : drains[g].at = "read" /\ sub.gen = g =>
        Cardinality(FramesAt(out.lane)) + PageFrames <= Watermark

(* What the types leave out.                                               *)
Typed ==
    /\ TypeOK
    /\ \A i \in DOMAIN out.spill : out.spill[i].kind = "overflow"
    /\ pc # "idle" => session.gen # 0
    /\ pane.open => pane.gen # 0

DeliveryInv == Typed /\ Servers /\ Fresh /\ Stretched /\ Paged /\ RoomForPage

-----------------------------------------------------------------------------
(* Numbers and sequences.                                                  *)

LEMMA MaxOfTwo ==
    ASSUME NEW a \in Int, NEW b \in Int
    PROVE  /\ Max({a, b}) \in {a, b}
           /\ Max({a, b}) >= a /\ Max({a, b}) >= b
  <1>1. \E x \in {a, b} : \A y \in {a, b} : x >= y
    <2>1. CASE a >= b  BY <2>1
    <2>2. CASE b >= a  BY <2>2
    <2> QED  BY <2>1, <2>2
  <1>2. PICK x \in {a, b} : x = Max({a, b}) /\ \A y \in {a, b} : x >= y
    BY <1>1 DEF Max
  <1> QED  BY <1>2

LEMMA MinOfTwo ==
    ASSUME NEW a \in Int, NEW b \in Int
    PROVE  /\ Min({a, b}) \in {a, b}
           /\ Min({a, b}) <= a /\ Min({a, b}) <= b
  <1>1. \E x \in {a, b} : \A y \in {a, b} : x <= y
    <2>1. CASE a >= b  BY <2>1
    <2>2. CASE b >= a  BY <2>2
    <2> QED  BY <2>1, <2>2
  <1>2. PICK x \in {a, b} : x = Min({a, b}) /\ \A y \in {a, b} : x <= y
    BY <1>1 DEF Min
  <1> QED  BY <1>2

LEMMA MinOfThree ==
    ASSUME NEW a \in Int, NEW b \in Int, NEW c \in Int
    PROVE  /\ Min({a, b, c}) \in {a, b, c}
           /\ Min({a, b, c}) <= a /\ Min({a, b, c}) <= b /\ Min({a, b, c}) <= c
  <1>1. \E x \in {a, b, c} : \A y \in {a, b, c} : x <= y
    <2>1. CASE a <= b /\ a <= c  BY <2>1
    <2>2. CASE b <= a /\ b <= c  BY <2>2
    <2>3. CASE c <= a /\ c <= b  BY <2>3
    <2> QED  BY <2>1, <2>2, <2>3
  <1>2. PICK x \in {a, b, c} : x = Min({a, b, c}) /\ \A y \in {a, b, c} : x <= y
    BY <1>1 DEF Min
  <1> QED  BY <1>2

LEMMA LeastNumber ==
    ASSUME NEW S \in SUBSET Nat, S # {}
    PROVE  Min(S) \in S /\ \A y \in S : Min(S) <= y
  <1> DEFINE R == {pair \in Nat \X Nat : pair[1] < pair[2]}
  <1>1. IsWellFoundedOn(R, Nat)
    BY NatLessThanWellFounded DEF OpToRel
  <1>2. PICK m \in S : \A y \in S : <<y, m>> \notin R
    <2> HIDE DEF R
    <2> QED  BY <1>1, WFMin
  <1>3. ASSUME NEW y \in S PROVE m <= y
    <2>1. <<y, m>> \in Nat \X Nat /\ ~(y < m)  BY <1>2
    <2> QED  BY <2>1
  <1> QED  BY <1>3 DEF Min

LEMMA OldestBounds ==
    ASSUME head \in Nat
    PROVE  Oldest \in 1 .. (head + 1)
  <1>1. RingFrames \in Nat \ {0}  BY DeliveryAssumption
  <1>2. head - RingFrames + 1 \in Int  BY <1>1
  <1>3. Oldest \in {1, head - RingFrames + 1} /\ Oldest >= 1
    BY <1>2, MaxOfTwo DEF Oldest
  <1> QED  BY <1>1, <1>3

LEMMA PageEndBounds ==
    ASSUME head \in Nat, NEW from \in Positions, NEW to \in Positions
    PROVE  /\ PageEnd(from, to) \in Positions
           /\ from <= PageEnd(from, to) /\ PageEnd(from, to) <= from + PageFrames
           /\ from < to => from < PageEnd(from, to) /\ PageEnd(from, to) <= to
  <1>1. PageFrames \in Nat \ {0}  BY DeliveryAssumption
  <1> DEFINE m == Min({to, head, from + PageFrames})
  <1>2. /\ m \in {to, head, from + PageFrames}
        /\ m <= to /\ m <= head /\ m <= from + PageFrames
    BY <1>1, MinOfThree DEF Positions
  <1>3. m \in Int  BY <1>1, <1>2 DEF Positions
  <1> HIDE DEF m
  <1>4. Max({from, m}) \in {from, m} /\ Max({from, m}) >= from /\ Max({from, m}) >= m
    BY <1>3, MaxOfTwo DEF Positions
  <1>5. PageEnd(from, to) = Max({from, m})  BY DEF PageEnd, m
  <1> QED  BY <1>1, <1>2, <1>3, <1>4, <1>5 DEF Positions

LEMMA Joined ==
    ASSUME NEW S, NEW s \in Seq(S), NEW t \in Seq(S)
    PROVE  /\ s \o t \in Seq(S) /\ Len(s \o t) = Len(s) + Len(t)
           /\ \A j \in 1 .. (Len(s) + Len(t)) :
                 (s \o t)[j] = IF j <= Len(s) THEN s[j] ELSE t[j - Len(s)]
  OBVIOUS

LEMMA Removed ==
    ASSUME NEW S, NEW s \in Seq(S), NEW i \in 1 .. Len(s)
    PROVE  /\ RemoveAt(s, i) \in Seq(S)
           /\ Len(RemoveAt(s, i)) = Len(s) - 1
           /\ \A j \in 1 .. (Len(s) - 1) :
                 RemoveAt(s, i)[j] = IF j < i THEN s[j] ELSE s[j + 1]
  <1> DEFINE a == SubSeq(s, 1, i - 1)
             b == SubSeq(s, i + 1, Len(s))
  <1>1. /\ a \in Seq(S) /\ Len(a) = i - 1
        /\ \A j \in 1 .. (i - 1) : a[j] = s[j]
    OBVIOUS
  <1>2. /\ b \in Seq(S) /\ Len(b) = Len(s) - i
        /\ \A j \in 1 .. (Len(s) - i) : b[j] = s[i + j]
    OBVIOUS
  <1> HIDE DEF a, b
  <1>3. /\ a \o b \in Seq(S) /\ Len(a \o b) = Len(s) - 1
        /\ \A j \in 1 .. (Len(s) - 1) :
              (a \o b)[j] = IF j <= i - 1 THEN a[j] ELSE b[j - (i - 1)]
    <2>1. Len(a) + Len(b) = Len(s) - 1  BY <1>1, <1>2
    <2>2. /\ a \o b \in Seq(S) /\ Len(a \o b) = Len(a) + Len(b)
          /\ \A j \in 1 .. (Len(a) + Len(b)) :
                (a \o b)[j] = IF j <= Len(a) THEN a[j] ELSE b[j - Len(a)]
      BY <1>1, <1>2, Joined
    <2>3. Len(a) = i - 1  BY <1>1
    <2> QED  BY <2>1, <2>2, <2>3
  <1>4. RemoveAt(s, i) = a \o b  BY DEF RemoveAt, a, b
  <1>5. ASSUME NEW j \in 1 .. (Len(s) - 1)
        PROVE  RemoveAt(s, i)[j] = IF j < i THEN s[j] ELSE s[j + 1]
    <2>1. CASE j < i
      <3>1. j \in 1 .. (i - 1)  BY <2>1
      <3> QED  BY <1>1, <1>3, <1>4, <2>1, <3>1
    <2>2. CASE ~(j < i)
      <3>1. j - (i - 1) \in 1 .. (Len(s) - i) /\ i + (j - (i - 1)) = j + 1
        BY <2>2
      <3> QED  BY <1>2, <1>3, <1>4, <2>2, <3>1
    <2> QED  BY <2>1, <2>2
  <1> QED  BY <1>3, <1>4, <1>5

LEMMA RangeOfJoined ==
    ASSUME NEW S, NEW s \in Seq(S), NEW t \in Seq(S)
    PROVE  Range(s \o t) = Range(s) \cup Range(t)
  <1>1. /\ s \o t \in Seq(S) /\ Len(s \o t) = Len(s) + Len(t)
        /\ \A j \in 1 .. (Len(s) + Len(t)) :
              (s \o t)[j] = IF j <= Len(s) THEN s[j] ELSE t[j - Len(s)]
    BY Joined
  <1>2. ASSUME NEW x \in Range(s) PROVE x \in Range(s \o t)
    <2>1. PICK j \in 1 .. Len(s) : x = s[j]  BY <1>2 DEF Range
    <2>2. (s \o t)[j] = x /\ j \in DOMAIN (s \o t)  BY <1>1, <2>1
    <2> QED  BY <2>2 DEF Range
  <1>3. ASSUME NEW x \in Range(t) PROVE x \in Range(s \o t)
    <2>1. PICK j \in 1 .. Len(t) : x = t[j]  BY <1>3 DEF Range
    <2>2. (s \o t)[Len(s) + j] = x /\ Len(s) + j \in DOMAIN (s \o t)
      BY <1>1, <2>1
    <2> QED  BY <2>2 DEF Range
  <1>4. ASSUME NEW x \in Range(s \o t) PROVE x \in Range(s) \cup Range(t)
    <2>1. PICK j \in 1 .. (Len(s) + Len(t)) : x = (s \o t)[j]
      BY <1>1, <1>4 DEF Range
    <2>2. CASE j <= Len(s)  BY <1>1, <2>1, <2>2 DEF Range
    <2>3. CASE ~(j <= Len(s))
      <3>1. x = t[j - Len(s)] /\ j - Len(s) \in DOMAIN t  BY <1>1, <2>1, <2>3
      <3> QED  BY <3>1 DEF Range
    <2> QED  BY <2>2, <2>3
  <1> QED  BY <1>2, <1>3, <1>4

LEMMA RangeOfAppended ==
    ASSUME NEW S, NEW s \in Seq(S), NEW x \in S
    PROVE  Append(s, x) \in Seq(S) /\ Range(Append(s, x)) = Range(s) \cup {x}
  <1>1. /\ Append(s, x) \in Seq(S) /\ Len(Append(s, x)) = Len(s) + 1
        /\ Append(s, x)[Len(s) + 1] = x
        /\ \A j \in 1 .. Len(s) : Append(s, x)[j] = s[j]
    OBVIOUS
  <1>2. DOMAIN Append(s, x) = 1 .. (Len(s) + 1) /\ DOMAIN s = 1 .. Len(s)
    BY <1>1
  <1> QED  BY <1>1, <1>2 DEF Range

LEMMA RangeOfTail ==
    ASSUME NEW S, NEW s \in Seq(S), s # <<>>
    PROVE  /\ Head(s) \in S /\ Tail(s) \in Seq(S)
           /\ Range(s) = {Head(s)} \cup Range(Tail(s))
           /\ Len(Tail(s)) = Len(s) - 1
           /\ \A j \in 1 .. (Len(s) - 1) : Tail(s)[j] = s[j + 1]
  <1>1. /\ Tail(s) \in Seq(S) /\ Len(Tail(s)) = Len(s) - 1 /\ Len(s) >= 1
        /\ \A j \in 1 .. (Len(s) - 1) : Tail(s)[j] = s[j + 1]
        /\ Head(s) = s[1] /\ s[1] \in S
    OBVIOUS
  <1>2. ASSUME NEW x \in Range(s) PROVE x = Head(s) \/ x \in Range(Tail(s))
    <2>1. PICK j \in 1 .. Len(s) : x = s[j]  BY <1>2 DEF Range
    <2>2. CASE j # 1
      <3>1. j - 1 \in 1 .. (Len(s) - 1)  BY <1>1, <2>2
      <3>2. Tail(s)[j - 1] = s[(j - 1) + 1]  BY <1>1, <3>1
      <3>3. Tail(s)[j - 1] = x /\ j - 1 \in DOMAIN Tail(s)
        BY <1>1, <2>1, <3>1, <3>2
      <3> QED  BY <3>3 DEF Range
    <2> QED  BY <1>1, <2>1, <2>2
  <1>3. \A x \in Range(Tail(s)) : x \in Range(s)
    BY <1>1 DEF Range
  <1>4. Head(s) \in Range(s)  BY <1>1 DEF Range
  <1> QED  BY <1>1, <1>2, <1>3, <1>4

LEMMA SeqMonotone ==
    ASSUME NEW S, NEW T, S \subseteq T, NEW s \in Seq(S)
    PROVE  s \in Seq(T)
  OBVIOUS

-----------------------------------------------------------------------------
(* The output queue.  What it carries survives every admission: an evicted *)
(* frame is declared, and an overflow gap declares nothing that does not   *)
(* lie between two positions the queue carried.                            *)

ItemsTo(h) ==
    {e \in [kind : Kinds, gen : Gens, from : 0 .. h, to : 0 .. h] :
        /\ e.from <= e.to
        /\ e.kind # "exit" => e.from > 0
        /\ e.kind = "frame" => e.from = e.to}

IsOverflow(s) == \A i \in DOMAIN s : s[i].kind = "overflow"

Queues(h) ==
    {q \in [lane : Seq(ItemsTo(h)), spill : Seq(ItemsTo(h)), wire : Seq(ItemsTo(h))] :
        IsOverflow(q.spill)}

Holds(e, g, n) == e.gen = g /\ e.kind # "exit" /\ e.from <= n /\ n <= e.to
Carries(q, g, n) == \E e \in Contents(q) : Holds(e, g, n)

\* s is t with some of its elements left out.
Within(s, t) ==
    \E f \in [1 .. Len(s) -> 1 .. Len(t)] :
        /\ \A i \in 1 .. Len(s) : s[i] = t[f[i]]
        /\ \A i, j \in 1 .. Len(s) : i < j => f[i] < f[j]

Thinned(q, r) ==
    /\ r.wire = q.wire
    /\ Within(r.lane, q.lane)
    /\ \A e \in Contents(r) : \E d \in Contents(q) : d.gen = e.gen
    /\ \A g \in Gens, n \in Nat : Carries(q, g, n) => Carries(r, g, n)
    /\ \A g \in Gens, n \in Nat : Carries(r, g, n) =>
          \E a, b \in Nat : Carries(q, g, a) /\ Carries(q, g, b) /\ a <= n /\ n <= b

LEMMA RangeOfFront ==
    ASSUME NEW S, NEW s \in Seq(S), s # <<>>
    PROVE  /\ Front(s) \in Seq(S) /\ Last(s) \in S
           /\ Range(s) = Range(Front(s)) \cup {Last(s)}
  <1>a. Len(s) \in Nat /\ Len(s) >= 1 /\ s[Len(s)] \in S
    OBVIOUS
  <1>b. /\ Front(s) \in Seq(S) /\ Len(Front(s)) = Len(s) - 1
        /\ \A j \in 1 .. (Len(s) - 1) : Front(s)[j] = s[j]
    <2>1. ASSUME NEW k \in Nat, k <= Len(s)
          PROVE  /\ SubSeq(s, 1, k) \in Seq(S) /\ Len(SubSeq(s, 1, k)) = k
                 /\ \A j \in 1 .. k : SubSeq(s, 1, k)[j] = s[j]
      BY <2>1
    <2>2. Len(s) - 1 \in Nat /\ Len(s) - 1 <= Len(s)  BY <1>a
    <2> QED  BY <2>1, <2>2 DEF Front
  <1>1. /\ Front(s) \in Seq(S) /\ Len(Front(s)) = Len(s) - 1 /\ Len(s) >= 1
        /\ \A j \in 1 .. (Len(s) - 1) : Front(s)[j] = s[j]
        /\ Last(s) = s[Len(s)] /\ s[Len(s)] \in S
    BY <1>a, <1>b DEF Last
  <1>2. ASSUME NEW x \in Range(s) PROVE x = Last(s) \/ x \in Range(Front(s))
    <2>1. PICK j \in 1 .. Len(s) : x = s[j]  BY <1>2 DEF Range
    <2>2. CASE j # Len(s)
      <3>1. j \in 1 .. (Len(s) - 1)  BY <1>1, <2>2
      <3>2. Front(s)[j] = x /\ j \in DOMAIN Front(s)  BY <1>1, <2>1, <3>1
      <3> QED  BY <3>2 DEF Range
    <2> QED  BY <1>1, <2>1, <2>2
  <1>3. \A x \in Range(Front(s)) : x \in Range(s)
    BY <1>1 DEF Range
  <1>4. Last(s) \in Range(s)  BY <1>1 DEF Range
  <1> QED  BY <1>1, <1>2, <1>3, <1>4

LEMMA RangeOfRemoved ==
    ASSUME NEW S, NEW s \in Seq(S), NEW i \in 1 .. Len(s)
    PROVE  /\ Range(s) = Range(RemoveAt(s, i)) \cup {s[i]}
           /\ Within(RemoveAt(s, i), s)
  <1> DEFINE t == RemoveAt(s, i)
  <1>1. /\ t \in Seq(S) /\ Len(t) = Len(s) - 1
        /\ \A j \in 1 .. (Len(s) - 1) : t[j] = IF j < i THEN s[j] ELSE s[j + 1]
    BY Removed
  <1> HIDE DEF t
  <1>2. ASSUME NEW x \in Range(s) PROVE x = s[i] \/ x \in Range(t)
    <2>1. PICK j \in 1 .. Len(s) : x = s[j]  BY <1>2 DEF Range
    <2>2. CASE j < i
      <3>1. j \in 1 .. (Len(s) - 1)  BY <2>2
      <3>2. t[j] = x /\ j \in DOMAIN t  BY <1>1, <2>1, <2>2, <3>1
      <3> QED  BY <3>2 DEF Range
    <2>3. CASE j > i
      <3>1. j - 1 \in 1 .. (Len(s) - 1) /\ ~(j - 1 < i) /\ (j - 1) + 1 = j  BY <2>3
      <3>2. t[j - 1] = x /\ j - 1 \in DOMAIN t  BY <1>1, <2>1, <3>1
      <3> QED  BY <3>2 DEF Range
    <2> QED  BY <2>1, <2>2, <2>3
  <1>3. ASSUME NEW x \in Range(t) PROVE x \in Range(s)
    <2>1. PICK j \in 1 .. (Len(s) - 1) : x = t[j]  BY <1>1, <1>3 DEF Range
    <2>2. j \in 1 .. Len(s) /\ j + 1 \in 1 .. Len(s)  BY <2>1
    <2> QED  BY <1>1, <2>1, <2>2 DEF Range
  <1>4. s[i] \in Range(s)  BY DEF Range
  <1>5. Within(t, s)
    <2> DEFINE f == [j \in 1 .. Len(t) |-> IF j < i THEN j ELSE j + 1]
    <2>1. f \in [1 .. Len(t) -> 1 .. Len(s)]  BY <1>1
    <2>2. \A j \in 1 .. Len(t) : t[j] = s[f[j]]  BY <1>1
    <2>3. \A j, k \in 1 .. Len(t) : j < k => f[j] < f[k]  BY <1>1
    <2> HIDE DEF f
    <2> QED  BY <2>1, <2>2, <2>3 DEF Within
  <1> QED  BY <1>2, <1>3, <1>4, <1>5 DEF t

LEMMA WithinItself ==
    ASSUME NEW S, NEW s \in Seq(S)
    PROVE  Within(s, s)
  <1> DEFINE f == [j \in 1 .. Len(s) |-> j]
  <1>1. f \in [1 .. Len(s) -> 1 .. Len(s)]  OBVIOUS
  <1>2. \A j \in 1 .. Len(s) : f[j] = j  OBVIOUS
  <1> HIDE DEF f
  <1> QED  BY <1>1, <1>2 DEF Within

LEMMA WithinWithin ==
    ASSUME NEW S, NEW s \in Seq(S), NEW t \in Seq(S), NEW u \in Seq(S),
           Within(s, t), Within(t, u)
    PROVE  Within(s, u)
  <1>1. PICK f \in [1 .. Len(s) -> 1 .. Len(t)] :
           /\ \A i \in 1 .. Len(s) : s[i] = t[f[i]]
           /\ \A i, j \in 1 .. Len(s) : i < j => f[i] < f[j]
    BY DEF Within
  <1>2. PICK g \in [1 .. Len(t) -> 1 .. Len(u)] :
           /\ \A i \in 1 .. Len(t) : t[i] = u[g[i]]
           /\ \A i, j \in 1 .. Len(t) : i < j => g[i] < g[j]
    BY DEF Within
  <1> DEFINE k == [j \in 1 .. Len(s) |-> g[f[j]]]
  <1>3. k \in [1 .. Len(s) -> 1 .. Len(u)]  BY <1>1, <1>2
  <1>4. \A i \in 1 .. Len(s) : s[i] = u[k[i]]  BY <1>1, <1>2
  <1>5. \A i, j \in 1 .. Len(s) : i < j => k[i] < k[j]  BY <1>1, <1>2
  <1> HIDE DEF k
  <1> QED  BY <1>3, <1>4, <1>5 DEF Within

LEMMA SpilledJoins ==
    ASSUME NEW h \in Nat, NEW s \in Seq(ItemsTo(h)), IsOverflow(s),
           NEW e \in ItemsTo(h), e.kind = "frame"
    PROVE  /\ Spilled(s, e) \in Seq(ItemsTo(h)) /\ IsOverflow(Spilled(s, e))
           /\ \E m \in ItemsTo(h) :
                /\ m.kind = "overflow" /\ m.gen = e.gen
                /\ m.from <= e.from /\ e.to <= m.to
                /\ \/ /\ Range(Spilled(s, e)) = Range(s) \cup {m}
                      /\ m.from = e.from /\ m.to = e.to
                   \/ \E l \in Range(s), F \in SUBSET Range(s) :
                        /\ Range(s) = F \cup {l}
                        /\ Range(Spilled(s, e)) = F \cup {m}
                        /\ l.gen = e.gen
                        /\ m.from <= l.from /\ l.to <= m.to
                        /\ m.from \in {l.from, e.from} /\ m.to \in {l.to, e.to}
  <1>1. /\ e \in [kind : Kinds, gen : Gens, from : 0 .. h, to : 0 .. h]
        /\ e.from <= e.to /\ e.from > 0
    BY DEF ItemsTo
  <1>2. ASSUME NEW u \in Seq(ItemsTo(h)), NEW m \in ItemsTo(h),
               \A x \in Range(u) : x.kind = "overflow", m.kind = "overflow"
        PROVE  Append(u, m) \in Seq(ItemsTo(h)) /\ IsOverflow(Append(u, m))
    <2>1. Append(u, m) \in Seq(ItemsTo(h)) /\ Range(Append(u, m)) = Range(u) \cup {m}
      BY RangeOfAppended
    <2> QED  BY <1>2, <2>1 DEF IsOverflow, Range
  <1>3. \A x \in Range(s) : x.kind = "overflow"  BY DEF IsOverflow, Range
  <1> DEFINE merges == s # <<>> /\ Last(s).gen = e.gen /\ e.from <= Last(s).to + 1
  <1>4. CASE ~merges
    <2> DEFINE m == Item("overflow", e.gen, e.from, e.to)
    <2>1. m \in ItemsTo(h) /\ m.kind = "overflow" /\ m.gen = e.gen
          /\ m.from = e.from /\ m.to = e.to
      BY <1>1 DEF Item, ItemsTo, Kinds
    <2>2. Spilled(s, e) = Append(s, m)  BY <1>4 DEF Spilled
    <2> HIDE DEF m
    <2>3. Range(Append(s, m)) = Range(s) \cup {m}  BY <2>1, RangeOfAppended
    <2>4. m.from <= e.from /\ e.to <= m.to  BY <1>1, <2>1
    <2> QED  BY <1>2, <1>3, <2>1, <2>2, <2>3, <2>4
  <1>5. CASE merges
    <2> DEFINE l == Last(s)
               a == Min({l.from, e.from})
               b == Max({l.to, e.to})
               m == Item("overflow", e.gen, a, b)
    <2>1. /\ Front(s) \in Seq(ItemsTo(h)) /\ l \in ItemsTo(h)
          /\ Range(s) = Range(Front(s)) \cup {l}
      BY <1>5, RangeOfFront
    <2>2. /\ l.from \in 0 .. h /\ l.to \in 0 .. h /\ l.from <= l.to
          /\ l.kind = "overflow" /\ l.from > 0
      BY <1>3, <2>1 DEF ItemsTo
    <2>i. l.from \in Int /\ l.to \in Int /\ e.from \in Int /\ e.to \in Int
      BY <1>1, <2>2
    <2> HIDE DEF l
    <2>3. a \in {l.from, e.from} /\ a <= l.from /\ a <= e.from
      BY <2>i, MinOfTwo
    <2>4. b \in {l.to, e.to} /\ b >= l.to /\ b >= e.to
      BY <2>i, MaxOfTwo
    <2> USE DEF l
    <2> HIDE DEF a, b
    <2>5. /\ m \in ItemsTo(h) /\ m.kind = "overflow" /\ m.gen = e.gen
          /\ m.from = a /\ m.to = b
      BY <1>1, <2>2, <2>3, <2>4 DEF Item, ItemsTo, Kinds
    <2>6. Spilled(s, e) = Append(Front(s), m)  BY <1>5 DEF Spilled, a, b
    <2> HIDE DEF m
    <2>7. Range(Append(Front(s), m)) = Range(Front(s)) \cup {m}
      BY <2>1, <2>5, RangeOfAppended
    <2>8. l.gen = e.gen  BY <1>5
    <2> HIDE DEF l
    <2>9. \A x \in Range(Front(s)) : x.kind = "overflow"  BY <1>3, <2>1
    <2>10. Spilled(s, e) \in Seq(ItemsTo(h)) /\ IsOverflow(Spilled(s, e))
      BY <1>2, <2>1, <2>5, <2>6, <2>9
    <2>11. m.from <= e.from /\ e.to <= m.to  BY <2>2, <2>3, <2>4, <2>5, <1>1
    <2>12. l \in Range(s) /\ Range(Front(s)) \in SUBSET Range(s)  BY <2>1
    <2> QED
      BY <2>1, <2>3, <2>4, <2>5, <2>6, <2>7, <2>8, <2>10, <2>11, <2>12
  <1> QED  BY <1>4, <1>5

LEMMA QueueTyped ==
    ASSUME NEW h \in Nat, NEW q \in Queues(h)
    PROVE  /\ q.lane \in Seq(ItemsTo(h)) /\ q.spill \in Seq(ItemsTo(h))
           /\ q.wire \in Seq(ItemsTo(h)) /\ IsOverflow(q.spill)
           /\ \A e \in Contents(q) : e \in ItemsTo(h)
  <1>1. /\ q.lane \in Seq(ItemsTo(h)) /\ q.spill \in Seq(ItemsTo(h))
        /\ q.wire \in Seq(ItemsTo(h)) /\ IsOverflow(q.spill)
    BY DEF Queues
  <1>2. \A s \in Seq(ItemsTo(h)) : \A e \in Range(s) : e \in ItemsTo(h)
    BY DEF Range
  <1> QED  BY <1>1, <1>2 DEF Contents

LEMMA ThinnedItself ==
    ASSUME NEW h \in Nat, NEW q \in Queues(h)
    PROVE  Thinned(q, q)
  <1>1. Within(q.lane, q.lane)  BY QueueTyped, WithinItself
  <1>2. \A g \in Gens, n \in Nat : Carries(q, g, n) =>
          \E a, b \in Nat : Carries(q, g, a) /\ Carries(q, g, b) /\ a <= n /\ n <= b
    OBVIOUS
  <1> QED  BY <1>1, <1>2 DEF Thinned

LEMMA ThinnedTwice ==
    ASSUME NEW h \in Nat, NEW p \in Queues(h), NEW q \in Queues(h), NEW r \in Queues(h),
           Thinned(p, q), Thinned(q, r)
    PROVE  Thinned(p, r)
  <1>1. Within(r.lane, p.lane)
    BY QueueTyped, WithinWithin DEF Thinned
  <1>2. r.wire = p.wire  BY DEF Thinned
  <1>3. \A e \in Contents(r) : \E d \in Contents(p) : d.gen = e.gen
    <2>1. \A e \in Contents(r) : \E d \in Contents(q) : d.gen = e.gen  BY DEF Thinned
    <2>2. \A e \in Contents(q) : \E d \in Contents(p) : d.gen = e.gen  BY DEF Thinned
    <2> QED  BY <2>1, <2>2
  <1>4. \A g \in Gens, n \in Nat : Carries(p, g, n) => Carries(r, g, n)
    BY DEF Thinned
  <1>5. ASSUME NEW g \in Gens, NEW n \in Nat, Carries(r, g, n)
        PROVE  \E a, b \in Nat : Carries(p, g, a) /\ Carries(p, g, b) /\ a <= n /\ n <= b
    <2>1. PICK a, b \in Nat : Carries(q, g, a) /\ Carries(q, g, b) /\ a <= n /\ n <= b
      BY <1>5 DEF Thinned
    <2>2. PICK c, d \in Nat : Carries(p, g, c) /\ Carries(p, g, d) /\ c <= a /\ a <= d
      BY <2>1 DEF Thinned
    <2>3. PICK i, j \in Nat : Carries(p, g, i) /\ Carries(p, g, j) /\ i <= b /\ b <= j
      BY <2>1 DEF Thinned
    <2>4. c <= n /\ n <= j  BY <2>1, <2>2, <2>3
    <2> QED  BY <2>2, <2>3, <2>4
  <1> QED  BY <1>1, <1>2, <1>3, <1>4, <1>5 DEF Thinned

LEMMA FramesFinite ==
    ASSUME NEW S, NEW s \in Seq(S)
    PROVE  /\ FramesAt(s) \subseteq 1 .. Len(s)
           /\ FramesAt(s) \subseteq Nat \ {0}
           /\ IsFiniteSet(FramesAt(s))
           /\ Cardinality(FramesAt(s)) \in Nat
  <1>1. FramesAt(s) \subseteq 1 .. Len(s) /\ Len(s) \in Nat
    BY DEF FramesAt
  <1>2. IsFiniteSet(1 .. Len(s))  BY <1>1, FS_Interval
  <1>3. IsFiniteSet(FramesAt(s))  BY <1>1, <1>2, FS_Subset
  <1> QED  BY <1>1, <1>3, FS_CardinalityType

LEMMA Evicted ==
    ASSUME NEW h \in Nat, NEW q \in Queues(h)
    PROVE  EvictOldest(q) \in Queues(h) /\ Thinned(q, EvictOldest(q))
  <1>1. CASE FramesAt(q.lane) = {}
    BY <1>1, ThinnedItself DEF EvictOldest
  <1>2. CASE FramesAt(q.lane) # {}
    <2> DEFINE i == Min(FramesAt(q.lane))
               e == q.lane[i]
               r == [q EXCEPT !.lane = RemoveAt(@, i), !.spill = Spilled(@, q.lane[i])]
    <2>1. /\ q.lane \in Seq(ItemsTo(h)) /\ q.spill \in Seq(ItemsTo(h))
          /\ q.wire \in Seq(ItemsTo(h)) /\ IsOverflow(q.spill)
      BY QueueTyped
    <2>2. i \in FramesAt(q.lane)
      <3>1. FramesAt(q.lane) \in SUBSET Nat  BY <2>1, FramesFinite
      <3> QED  BY <1>2, <3>1, LeastNumber
    <2>3. i \in 1 .. Len(q.lane) /\ e.kind = "frame"
      BY <2>1, <2>2, FramesFinite DEF FramesAt
    <2>4. EvictOldest(q) = r  BY <1>2 DEF EvictOldest
    <2> HIDE DEF i
    <2>5. e \in ItemsTo(h)  BY <2>1, <2>3
    <2>6. r.lane = RemoveAt(q.lane, i) /\ r.spill = Spilled(q.spill, e) /\ r.wire = q.wire
      BY DEF Queues
    <2>7. /\ r.lane \in Seq(ItemsTo(h))
          /\ Range(q.lane) = Range(r.lane) \cup {e} /\ Within(r.lane, q.lane)
      BY <2>1, <2>3, <2>6, Removed, RangeOfRemoved
    <2> DEFINE Joins(m) ==
          \/ /\ Range(Spilled(q.spill, e)) = Range(q.spill) \cup {m}
             /\ m.from = e.from /\ m.to = e.to
          \/ \E l \in Range(q.spill), F \in SUBSET Range(q.spill) :
               /\ Range(q.spill) = F \cup {l}
               /\ Range(Spilled(q.spill, e)) = F \cup {m}
               /\ l.gen = e.gen
               /\ m.from <= l.from /\ l.to <= m.to
               /\ m.from \in {l.from, e.from} /\ m.to \in {l.to, e.to}
    <2>8. PICK m \in ItemsTo(h) :
             /\ m.kind = "overflow" /\ m.gen = e.gen
             /\ m.from <= e.from /\ e.to <= m.to
             /\ Joins(m)
      <3> HIDE DEF e
      <3> QED  BY <2>1, <2>3, <2>5, SpilledJoins
    <2>9. r.spill \in Seq(ItemsTo(h)) /\ IsOverflow(r.spill)
      <3> HIDE DEF e, r
      <3> QED  BY <2>1, <2>3, <2>5, <2>6, SpilledJoins
    <2>10. r \in Queues(h)
      BY <2>1, <2>6, <2>7, <2>9 DEF Queues
    <2> HIDE DEF e, r
    <2>11. /\ e \in Contents(q) /\ m \in Contents(r)
           /\ Contents(q) \subseteq Range(r.lane) \cup Range(q.spill) \cup Range(q.wire) \cup {e}
           /\ Range(r.lane) \cup Range(q.wire) \subseteq Contents(q) \cap Contents(r)
      <3>1. m \in Range(r.spill)  BY <2>6, <2>8
      <3> QED  BY <2>6, <2>7, <3>1 DEF Contents
    <2>12. \A x \in Range(r.spill) : x = m \/ x \in Range(q.spill)
      BY <2>6, <2>8
    <2>13. \A x \in Contents(r) : x = m \/ x \in Contents(q)
      BY <2>6, <2>7, <2>12 DEF Contents
    <2>14. \A x \in Contents(r) : \E d \in Contents(q) : d.gen = x.gen
      BY <2>8, <2>11, <2>13
    <2>15. /\ e.from \in Nat /\ e.to \in Nat /\ m.from \in Nat /\ m.to \in Nat
           /\ e.from <= e.to
      BY <2>5 DEF ItemsTo
    <2>16. ASSUME NEW g \in Gens, NEW n \in Nat, Carries(q, g, n)
           PROVE  Carries(r, g, n)
      <3>1. PICK x \in Contents(q) : Holds(x, g, n)  BY <2>16 DEF Carries
      <3>2. x \in ItemsTo(h)  BY <3>1, QueueTyped
      <3>3. x.from \in Nat /\ x.to \in Nat  BY <3>2 DEF ItemsTo
      <3>4. CASE x \in Contents(r)  BY <3>1, <3>4 DEF Carries
      <3>5. CASE x \notin Contents(r)
        <4>1. x = e \/ x \in Range(q.spill)
          BY <2>11, <3>1, <3>5
        <4>2. x.gen = e.gen /\ m.from <= x.from /\ x.to <= m.to
          <5>1. CASE x = e  BY <2>8, <5>1
          <5>2. CASE x # e
            <6>1. x \notin Range(r.spill)  BY <3>5 DEF Contents
            <6> QED  BY <2>6, <2>8, <4>1, <5>2, <6>1
          <5> QED  BY <5>1, <5>2
        <4>3. Holds(m, g, n)
          BY <2>8, <2>15, <3>1, <3>3, <4>2 DEF Holds
        <4> QED  BY <2>11, <4>3 DEF Carries
      <3> QED  BY <3>4, <3>5
    <2>17. ASSUME NEW g \in Gens, NEW n \in Nat, Carries(r, g, n)
           PROVE  \E a, b \in Nat :
                     Carries(q, g, a) /\ Carries(q, g, b) /\ a <= n /\ n <= b
      <3>1. PICK x \in Contents(r) : Holds(x, g, n)  BY <2>17 DEF Carries
      <3>2. CASE x \in Contents(q)  BY <3>1, <3>2 DEF Carries
      <3>3. CASE x = m
        <4>1. g = e.gen /\ m.from <= n /\ n <= m.to
          BY <2>8, <3>1, <3>3 DEF Holds
        <4>2. e.kind # "exit"  BY <2>3
        <4>3. Carries(q, g, e.from) /\ Carries(q, g, e.to)
          BY <2>11, <2>15, <4>1, <4>2 DEF Carries, Holds
        <4>4. CASE m.from = e.from /\ m.to = e.to
          BY <2>15, <4>1, <4>3, <4>4
        <4>5. ASSUME NEW l \in Range(q.spill), l.gen = e.gen,
                     m.from <= l.from, l.to <= m.to,
                     m.from \in {l.from, e.from}, m.to \in {l.to, e.to}
              PROVE  \E a, b \in Nat :
                       Carries(q, g, a) /\ Carries(q, g, b) /\ a <= n /\ n <= b
          <5>1. l \in Contents(q)  BY DEF Contents
          <5>2. l \in ItemsTo(h)  BY <5>1, QueueTyped
          <5>3. l.kind = "overflow"  BY <2>1 DEF IsOverflow, Range
          <5>4. l.from \in Nat /\ l.to \in Nat /\ l.from <= l.to
            BY <5>2 DEF ItemsTo
          <5>5. Carries(q, g, l.from) /\ Carries(q, g, l.to)
            BY <4>1, <4>5, <5>1, <5>3, <5>4 DEF Carries, Holds
          <5>6. Carries(q, g, m.from) /\ Carries(q, g, m.to)
            BY <4>3, <4>5, <5>5
          <5> QED  BY <2>15, <4>1, <5>6
        <4> QED  BY <2>8, <4>4, <4>5
      <3> QED  BY <2>13, <3>2, <3>3
    <2>18. Thinned(q, r)
      BY <2>6, <2>7, <2>14, <2>16, <2>17 DEF Thinned
    <2> QED  BY <2>4, <2>10, <2>18
  <1> QED  BY <1>1, <1>2

\* w[i] is the queue q after i evictions, up to n of them.
Evicting(w, q, n) == w = [i \in 0 .. n |-> IF i = 0 THEN q ELSE EvictOldest(w[i - 1])]

LEMMA EvictingExists ==
    ASSUME NEW q, NEW n \in Nat
    PROVE  \E w : Evicting(w, q, n)
  <1> DEFINE S == {m \in Nat : ~\E w : Evicting(w, q, m)}
  <1> SUFFICES ASSUME S # {} PROVE FALSE
    OBVIOUS
  <1>1. PICK m \in S : \A y \in S : m <= y
    <2> HIDE DEF S
    <2>1. S \in SUBSET Nat  BY DEF S
    <2> QED  BY <2>1, LeastNumber
  <1>2. m # 0
    <2>1. Evicting([i \in 0 .. 0 |-> q], q, 0)  BY DEF Evicting
    <2> QED  BY <1>1, <2>1
  <1>3. m - 1 \in Nat /\ m - 1 \notin S  BY <1>1, <1>2
  <1>4. PICK v : Evicting(v, q, m - 1)  BY <1>3
  <1>5. PICK w : w = [i \in 0 .. m |-> IF i = 0 THEN q ELSE EvictOldest(v[i - 1])]
    OBVIOUS
  <1>6. \A i \in 0 .. m - 1 : w[i] = v[i]
    BY <1>3, <1>4, <1>5 DEF Evicting
  <1>7. \A i \in 0 .. m : w[i] = IF i = 0 THEN q ELSE EvictOldest(w[i - 1])
    <2> SUFFICES ASSUME NEW i \in 0 .. m
                 PROVE  w[i] = IF i = 0 THEN q ELSE EvictOldest(w[i - 1])
      OBVIOUS
    <2>1. CASE i = 0  BY <1>5, <2>1
    <2>2. CASE i # 0
      <3>1. i - 1 \in 0 .. m - 1  BY <1>3, <2>2
      <3>2. w[i] = EvictOldest(v[i - 1])  BY <1>5, <2>2
      <3> QED  BY <1>6, <2>2, <3>1, <3>2
    <2> QED  BY <2>1, <2>2
  <1>8. Evicting(w, q, m)  BY <1>5, <1>7 DEF Evicting
  <1> QED  BY <1>1, <1>8

LEMMA EvictingThins ==
    ASSUME NEW h \in Nat, NEW q \in Queues(h), NEW n \in Nat, NEW w, Evicting(w, q, n)
    PROVE  w[n] \in Queues(h) /\ Thinned(q, w[n])
  <1> DEFINE S == {i \in 0 .. n : ~(w[i] \in Queues(h) /\ Thinned(q, w[i]))}
  <1>1. S = {}
    <2> SUFFICES ASSUME S # {} PROVE FALSE
      OBVIOUS
    <2>1. PICK m \in S : \A y \in S : m <= y
      <3> HIDE DEF S
      <3>1. S \in SUBSET Nat  BY DEF S
      <3> QED  BY <3>1, LeastNumber
    <2>2. m # 0
      <3>1. w[0] = q  BY DEF Evicting
      <3> QED  BY <2>1, <3>1, ThinnedItself
    <2>3. m \in 1 .. n /\ m - 1 \in 0 .. n /\ m - 1 \notin S  BY <2>1, <2>2
    <2>4. w[m] = EvictOldest(w[m - 1])  BY <2>3 DEF Evicting
    <2>5. w[m - 1] \in Queues(h) /\ Thinned(q, w[m - 1])  BY <2>3
    <2>6. w[m] \in Queues(h) /\ Thinned(w[m - 1], w[m])  BY <2>4, <2>5, Evicted
    <2>7. Thinned(q, w[m])  BY <2>5, <2>6, ThinnedTwice
    <2> QED  BY <2>1, <2>6, <2>7
  <1> QED  BY <1>1

Full(q, items) == [q EXCEPT !.lane = @ \o items]

LEMMA BacklogTyped ==
    ASSUME NEW h \in Nat, NEW q \in Queues(h)
    PROVE  /\ Backlog(q) \in Nat
           /\ Backlog(q) <= Cardinality(FramesAt(q.lane)) + 1
  <1>1. Cardinality(FramesAt(q.lane)) \in Nat  BY QueueTyped, FramesFinite
  <1> QED  BY <1>1 DEF Backlog, InFlight

LEMMA FullTyped ==
    ASSUME NEW h \in Nat, NEW q \in Queues(h), NEW items \in Seq(ItemsTo(h))
    PROVE  /\ Full(q, items) \in Queues(h)
           /\ Full(q, items).lane = q.lane \o items
           /\ Full(q, items).spill = q.spill /\ Full(q, items).wire = q.wire
           /\ Contents(Full(q, items)) = Contents(q) \cup Range(items)
  <1>1. /\ q.lane \in Seq(ItemsTo(h)) /\ q.spill \in Seq(ItemsTo(h))
        /\ q.wire \in Seq(ItemsTo(h)) /\ IsOverflow(q.spill)
    BY QueueTyped
  <1>2. /\ Full(q, items).lane = q.lane \o items
        /\ Full(q, items).spill = q.spill /\ Full(q, items).wire = q.wire
    BY DEF Full, Queues
  <1>3. q.lane \o items \in Seq(ItemsTo(h))  BY <1>1
  <1>4. Full(q, items) \in Queues(h)  BY <1>1, <1>3 DEF Full, Queues
  <1>5. Range(q.lane \o items) = Range(q.lane) \cup Range(items)
    BY <1>1, RangeOfJoined
  <1> HIDE DEF Full
  <1> QED  BY <1>2, <1>4, <1>5 DEF Contents

(* Whatever is admitted, only the oldest frames leave, each declared; and  *)
(* an admission within the limit loses nothing.                            *)
LEMMA SinkThins ==
    ASSUME NEW h \in Nat, NEW q \in Queues(h), NEW items \in Seq(ItemsTo(h))
    PROVE  /\ Sink(q, items) \in Queues(h)
           /\ Thinned(Full(q, items), Sink(q, items))
           /\ Backlog(Full(q, items)) <= QueueLimit => Sink(q, items) = Full(q, items)
  <1> DEFINE full == Full(q, items)
             over == Max({0, Backlog(full) - QueueLimit})
             W == CHOOSE w : Evicting(w, full, over)
  <1>1. full \in Queues(h)  BY FullTyped
  <1>2. Backlog(full) \in Nat  BY <1>1, BacklogTyped
  <1>3. QueueLimit \in Nat  BY DeliveryAssumption
  <1>4. Sink(q, items) = W[over]
    BY DEF Sink, Evicting, Full
  <1> HIDE DEF full
  <1>5. /\ over \in Nat
        /\ Backlog(full) <= QueueLimit => over = 0
    <2>1. Backlog(full) - QueueLimit \in Int  BY <1>2, <1>3
    <2>2. /\ over \in {0, Backlog(full) - QueueLimit}
          /\ over >= 0 /\ over >= Backlog(full) - QueueLimit
      <3> DEFINE x == Backlog(full) - QueueLimit
      <3>1. x \in Int /\ 0 \in Int  BY <2>1
      <3> HIDE DEF x
      <3>2. Max({0, x}) \in {0, x} /\ Max({0, x}) >= 0 /\ Max({0, x}) >= x
        BY <3>1, MaxOfTwo
      <3> QED  BY <3>2 DEF x
    <2> HIDE DEF over
    <2> QED  BY <1>2, <1>3, <2>2
  <1> HIDE DEF over
  <1>6. Evicting(W, full, over)  BY <1>5, EvictingExists
  <1> HIDE DEF W
  <1>7. W[over] \in Queues(h) /\ Thinned(full, W[over])
    BY <1>1, <1>5, <1>6, EvictingThins
  <1>8. over = 0 => W[over] = full  BY <1>6 DEF Evicting
  <1> QED  BY <1>4, <1>5, <1>7, <1>8 DEF full

-----------------------------------------------------------------------------
(* What the handlers admit.                                                *)

LEMMA FramesTyped ==
    ASSUME NEW h \in Nat, NEW gen \in Gens, NEW from \in 0 .. h, NEW to \in 0 .. h
    PROVE  /\ Frames(gen, from, to) \in Seq(ItemsTo(h))
           /\ Len(Frames(gen, from, to)) = IF from <= to THEN to - from ELSE 0
           /\ \A i \in 1 .. (to - from) :
                 Frames(gen, from, to)[i] = Item("frame", gen, from + i, from + i)
           /\ \A e : e \in Range(Frames(gen, from, to))
                <=> \E n \in (from + 1) .. to : e = Item("frame", gen, n, n)
  <1> DEFINE s == Frames(gen, from, to)
  <1> DEFINE k == IF from <= to THEN to - from ELSE 0
  <1>1. k \in Nat /\ 1 .. (to - from) = 1 .. k  OBVIOUS
  <1>2. s = [i \in 1 .. k |-> Item("frame", gen, from + i, from + i)]
    BY <1>1 DEF Frames
  <1>3. \A n \in (from + 1) .. to : Item("frame", gen, n, n) \in ItemsTo(h)
    BY DEF Item, ItemsTo, Kinds
  <1> HIDE DEF s
  <1>4. \A i \in 1 .. k : from + i \in (from + 1) .. to  OBVIOUS
  <1>5. s \in Seq(ItemsTo(h)) /\ Len(s) = k
    <2>1. \A i \in 1 .. k : Item("frame", gen, from + i, from + i) \in ItemsTo(h)
      BY <1>3, <1>4
    <2> HIDE DEF k
    <2> QED  BY <1>1, <1>2, <2>1
  <1>6. \A i \in 1 .. k : s[i] = Item("frame", gen, from + i, from + i)
    BY <1>2
  <1>7. ASSUME NEW e \in Range(s)
        PROVE  \E n \in (from + 1) .. to : e = Item("frame", gen, n, n)
    <2>1. PICK i \in 1 .. k : e = s[i]  BY <1>2 DEF Range
    <2> QED  BY <1>4, <1>6, <2>1
  <1>8. ASSUME NEW n \in (from + 1) .. to
        PROVE  Item("frame", gen, n, n) \in Range(s)
    <2>1. n - from \in 1 .. k /\ from + (n - from) = n  OBVIOUS
    <2>2. s[n - from] = Item("frame", gen, n, n)
      <3>1. s[n - from] = Item("frame", gen, from + (n - from), from + (n - from))
        BY <1>6, <2>1
      <3> QED  BY <2>1, <3>1
    <2>3. n - from \in DOMAIN s  BY <1>2, <2>1
    <2> QED  BY <2>2, <2>3 DEF Range
  <1> QED  BY <1>1, <1>5, <1>6, <1>7, <1>8 DEF s

LEMMA GapTyped ==
    ASSUME NEW h \in Nat, NEW kind \in {"retention", "residual"}, NEW gen \in Gens,
           NEW from \in Nat \ {0}, NEW to \in Int, from <= to => to <= h
    PROVE  /\ Gap(kind, gen, from, to) \in Seq(ItemsTo(h))
           /\ Range(Gap(kind, gen, from, to)) =
                IF from <= to THEN {Item(kind, gen, from, to)} ELSE {}
           /\ Len(Gap(kind, gen, from, to)) <= 1
  <1>1. CASE from <= to
    <2>1. Item(kind, gen, from, to) \in ItemsTo(h)
      BY <1>1 DEF Item, ItemsTo, Kinds
    <2>2. Gap(kind, gen, from, to) = <<Item(kind, gen, from, to)>>  BY <1>1 DEF Gap
    <2> HIDE DEF Item
    <2> QED  BY <1>1, <2>1, <2>2 DEF Range
  <1>2. CASE ~(from <= to)
    <2>1. Gap(kind, gen, from, to) = <<>>  BY <1>2 DEF Gap
    <2> QED  BY <1>2, <2>1 DEF Range
  <1> QED  BY <1>1, <1>2

LEMMA ExitItemTyped ==
    ASSUME NEW h \in Nat, NEW gen \in Gens
    PROVE  ExitItem(gen) \in ItemsTo(h) /\ ExitItem(gen).kind = "exit"
           /\ ExitItem(gen).gen = gen
  BY DEF ExitItem, Item, ItemsTo, Kinds

LEMMA OneItem ==
    ASSUME NEW S, NEW e \in S
    PROVE  <<e>> \in Seq(S) /\ Range(<<e>>) = {e} /\ Len(<<e>>) = 1
  BY DEF Range

LEMMA ItemsAreItemsTo == Items = ItemsTo(head)
  BY DEF Items, ItemsTo, Positions

LEMMA WiderItems ==
    ASSUME NEW h \in Nat, NEW k \in Nat, h <= k
    PROVE  ItemsTo(h) \subseteq ItemsTo(k) /\ Queues(h) \subseteq Queues(k)
  <1>1. ItemsTo(h) \subseteq ItemsTo(k)
    BY DEF ItemsTo
  <1>2. \A s \in Seq(ItemsTo(h)) : s \in Seq(ItemsTo(k))  BY <1>1, SeqMonotone
  <1> QED  BY <1>1, <1>2 DEF Queues

OutputTyped(q, h) == q \in Queues(h) /\ Len(q.wire) <= 1

LEMMA OutTyped ==
    ASSUME Typed
    PROVE  head \in Nat /\ OutputTyped(out, head)
  <1>1. Items = ItemsTo(head)  BY ItemsAreItemsTo
  <1>2. head \in Nat  BY DEF Typed, TypeOK, DeliveryAssumption
  <1>3. out \in Outputs /\ Len(out.wire) <= 1 /\ IsOverflow(out.spill)
    BY DEF Typed, TypeOK, IsOverflow
  <1> QED  BY <1>1, <1>2, <1>3 DEF OutputTyped, Outputs, Queues

LEMMA SunkTyped ==
    ASSUME NEW h \in Nat, NEW q, OutputTyped(q, h), NEW items \in Seq(ItemsTo(h))
    PROVE  OutputTyped(Sink(q, items), h)
  <1>1. Sink(q, items) \in Queues(h) /\ Thinned(Full(q, items), Sink(q, items))
    BY SinkThins DEF OutputTyped
  <1>2. Sink(q, items).wire = q.wire
    BY <1>1, FullTyped DEF Thinned, OutputTyped
  <1> QED  BY <1>1, <1>2 DEF OutputTyped

LEMMA DiscardTyped ==
    ASSUME NEW h \in Nat, NEW q, OutputTyped(q, h)
    PROVE  /\ OutputTyped(Discard(q), h)
           /\ Discard(q).lane = <<>> /\ Discard(q).spill = <<>> /\ Discard(q).wire = q.wire
  <1>1. <<>> \in Seq(ItemsTo(h)) /\ DOMAIN <<>> = {}  OBVIOUS
  <1> QED  BY <1>1 DEF Discard, OutputTyped, Queues, IsOverflow

-----------------------------------------------------------------------------
(* Types.                                                                  *)

LEMMA ArmKeeps ==
    ASSUME Typed, NEW s \in Sessions
    PROVE  /\ Arm(s) \in Sessions
           /\ Arm(s).gen = s.gen /\ Arm(s).target = s.target
           /\ Arm(s).credited = s.credited /\ Arm(s).pageEnd = s.pageEnd
           /\ Arm(s).exitHead \in {s.exitHead, head}
  <1>1. head \in Positions  BY OutTyped DEF Positions
  <1>2. /\ s.gen \in 0 .. MaxGens /\ s.exitHead \in Positions
        /\ DOMAIN s = {"gen", "target", "exitHead", "credited", "pageEnd"}
    BY DEF Sessions
  <1> QED  BY <1>1, <1>2 DEF Arm, Sessions

LEMMA PhaseTargetTyped ==
    ASSUME Typed, NEW s \in Sessions
    PROVE  /\ PhaseTarget(s) \in Positions
           /\ s.target <= PhaseTarget(s) /\ s.exitHead <= PhaseTarget(s)
           /\ PhaseTarget(s) \in {s.target, s.exitHead}
  <1>1. s.target \in Positions /\ s.exitHead \in Positions  BY DEF Sessions
  <1>2. s.target \in Int /\ s.exitHead \in Int  BY <1>1 DEF Positions
  <1>3. /\ Max({s.target, s.exitHead}) \in {s.target, s.exitHead}
        /\ Max({s.target, s.exitHead}) >= s.target
        /\ Max({s.target, s.exitHead}) >= s.exitHead
    BY <1>2, MaxOfTwo
  <1> HIDE DEF Max
  <1> QED  BY <1>1, <1>2, <1>3 DEF PhaseTarget, Positions

LEMMA ReceivedTyped ==
    ASSUME Typed, NEW kind, Received(kind)
    PROVE  /\ Head(up) \in Messages /\ Head(up).kind = kind
           /\ Head(up).gen \in Gens /\ Head(up).seq \in Positions
           /\ up' = Tail(up) /\ Tail(up) \in Seq(Messages) /\ pc = "idle"
           /\ Len(Tail(up)) = Len(up) - 1 /\ Len(up) >= 1 /\ Head(up) = up[1]
           /\ \A j \in 1 .. (Len(up) - 1) : Tail(up)[j] = up[j + 1]
  <1>1. up \in Seq(Messages)  BY DEF Typed, TypeOK
  <1>2. up # <<>> /\ Head(up).kind = kind /\ up' = Tail(up) /\ pc = "idle"
    BY DEF Received
  <1>3. /\ Head(up) \in Messages /\ Tail(up) \in Seq(Messages)
        /\ Len(Tail(up)) = Len(up) - 1
        /\ \A j \in 1 .. (Len(up) - 1) : Tail(up)[j] = up[j + 1]
    BY <1>1, <1>2, RangeOfTail
  <1>4. Len(up) >= 1 /\ Head(up) = up[1]  BY <1>1, <1>2
  <1> QED  BY <1>2, <1>3, <1>4 DEF Messages

\* Where an attachment is served from: its cursor, or what the ring retains.
Base(m) == Max({m.seq, Oldest - 1})

LEMMA BaseTyped ==
    ASSUME Typed, NEW m \in Messages
    PROVE  /\ Base(m) \in Positions /\ Oldest - 1 \in Positions
           /\ m.seq <= Base(m) /\ Oldest - 1 <= Base(m)
           /\ Base(m) \in {m.seq, Oldest - 1}
  <1>1. Oldest - 1 \in Positions  BY OutTyped, OldestBounds DEF Positions
  <1>2. m.seq \in Positions  BY DEF Messages
  <1>3. m.seq \in Int /\ Oldest - 1 \in Int  BY <1>1, <1>2 DEF Positions
  <1> DEFINE o == Oldest - 1
  <1> HIDE DEF o
  <1>4. Max({m.seq, o}) \in {m.seq, o} /\ Max({m.seq, o}) >= m.seq /\ Max({m.seq, o}) >= o
    BY <1>3, MaxOfTwo DEF o
  <1>5. Base(m) = Max({m.seq, o})  BY DEF Base, o
  <1> QED  BY <1>1, <1>2, <1>3, <1>4, <1>5 DEF o, Positions

\* The types of the next state, one by one.
TypesNext ==
    /\ head' \in 0 .. MaxSeq /\ alive' \in BOOLEAN /\ notified' \in BOOLEAN
    /\ pc' \in {"idle", "start", "drive", "guard", "active", "covered"}
    /\ sub' \in Subs' /\ session' \in Sessions' /\ drains' \in [Gens -> DrainTasks']
    /\ OutputTyped(out', head')
    /\ controls' \in Seq([gen : Gens, target : Positions'])
    /\ up' \in Seq(Messages') /\ pane' \in Panes' /\ seen' \in Views'
    /\ pc' # "idle" => session'.gen # 0
    /\ pane'.open => pane'.gen # 0

LEMMA TypesNextTyped ==
    ASSUME TypesNext
    PROVE  Typed'
  <1>1. head' \in Nat  BY DEF TypesNext, DeliveryAssumption
  <1>2. Items' = ItemsTo(head')  BY DEF Items, ItemsTo, Positions
  <1>3. out' \in Outputs' /\ Len(out'.wire) <= 1 /\ IsOverflow(out'.spill)
    BY <1>1, <1>2 DEF TypesNext, OutputTyped, Outputs, Queues
  <1>4. TypeOK'  BY <1>3 DEF TypesNext, TypeOK
  <1> QED  BY <1>3, <1>4 DEF TypesNext, Typed, IsOverflow

LEMMA SameTypes ==
    ASSUME head' = head
    PROVE  /\ Positions' = Positions /\ Subs' = Subs /\ Sessions' = Sessions
           /\ DrainTasks' = DrainTasks /\ Messages' = Messages
           /\ Panes' = Panes /\ Views' = Views
  BY DEF Positions, Subs, Sessions, DrainTasks, Messages, Panes, Views

\* The types of the state, one by one.
TypesNow ==
    /\ head \in 0 .. MaxSeq /\ alive \in BOOLEAN /\ notified \in BOOLEAN
    /\ pc \in {"idle", "start", "drive", "guard", "active", "covered"}
    /\ sub \in Subs /\ session \in Sessions /\ drains \in [Gens -> DrainTasks]
    /\ OutputTyped(out, head) /\ head \in Nat
    /\ controls \in Seq([gen : Gens, target : Positions])
    /\ up \in Seq(Messages) /\ pane \in Panes /\ seen \in Views
    /\ pc # "idle" => session.gen # 0
    /\ pane.open => pane.gen # 0

LEMMA TypedNow ==
    ASSUME Typed
    PROVE  TypesNow
  BY OutTyped DEF Typed, TypeOK, TypesNow

LEMMA EmptyTyped ==
    ASSUME Typed
    PROVE  /\ NoSub \in Subs /\ NoSession \in Sessions /\ NoDrain \in DrainTasks
           /\ NoPane \in Panes /\ NoView \in Views /\ 0 \in Positions /\ head \in Positions
  <1>1. head \in Nat  BY OutTyped
  <1>2. 0 \in Positions /\ head \in Positions  BY <1>1 DEF Positions
  <1>3. 0 \in 0 .. MaxGens  BY DeliveryAssumption
  <1>4. NoSub \in Subs  BY <1>2, <1>3 DEF NoSub, Subs
  <1>5. NoSession \in Sessions  BY <1>2, <1>3 DEF NoSession, Sessions
  <1>6. NoDrain \in DrainTasks  BY <1>2, <1>3 DEF NoDrain, DrainTasks
  <1>7. NoPane \in Panes  BY <1>2, <1>3 DEF NoPane, Panes
  <1>8. NoView \in Views  BY <1>2, <1>3 DEF NoView, Views
  <1> QED  BY <1>2, <1>4, <1>5, <1>6, <1>7, <1>8

LEMMA TypedProduce ==
    ASSUME Typed, Produce
    PROVE  Typed'
  <1>1. TypesNow  BY TypedNow
  <1>2. head' = head + 1 /\ head' \in 0 .. MaxSeq /\ head \in Nat /\ head' \in Nat
    BY <1>1, DeliveryAssumption DEF Produce, TypesNow
  <1>3. Positions \subseteq Positions' /\ 1 .. head \subseteq 1 .. head'
    BY <1>2 DEF Positions
  <1>4. Subs \subseteq Subs'  BY <1>3 DEF Subs
  <1>5. Sessions \subseteq Sessions'  BY <1>3 DEF Sessions
  <1>6. DrainTasks \subseteq DrainTasks'  BY <1>3 DEF DrainTasks
  <1>7. Messages \subseteq Messages'  BY <1>3 DEF Messages
  <1>8. Panes \subseteq Panes'
    <2>1. SUBSET (1 .. head) \subseteq SUBSET (1 .. head')  BY <1>3
    <2> QED  BY <1>3, <2>1 DEF Panes
  <1>9. Views \subseteq Views'
    <2>1. SUBSET (1 .. head) \subseteq SUBSET (1 .. head')  BY <1>3
    <2> QED  BY <1>3, <2>1 DEF Views
  <1>10. [gen : Gens, target : Positions] \subseteq [gen : Gens, target : Positions']
    BY <1>3
  <1>11. OutputTyped(out, head')
    BY <1>1, <1>2, WiderItems DEF TypesNow, OutputTyped
  <1>12. OutputTyped(out', head')
    <2>1. CASE sub.gen # 0 /\ ~sub.deferred
      <3>1. sub.gen \in Gens  BY <1>1, <2>1 DEF TypesNow, Subs, Gens
      <3>2. head \in 0 .. head' /\ head + 1 \in 0 .. head'  BY <1>2
      <3>3. Frames(sub.gen, head, head + 1) \in Seq(ItemsTo(head'))
        BY <1>2, <3>1, <3>2, FramesTyped
      <3> QED  BY <1>2, <1>11, <2>1, <3>3, SunkTyped DEF Produce
    <2>2. CASE ~(sub.gen # 0 /\ ~sub.deferred)
      BY <1>11, <2>2 DEF Produce
    <2> QED  BY <2>1, <2>2
  <1>13. up \in Seq(Messages')  BY <1>1, <1>7, SeqMonotone DEF TypesNow
  <1>14. controls \in Seq([gen : Gens, target : Positions'])
    BY <1>1, <1>10, SeqMonotone DEF TypesNow
  <1>15. drains \in [Gens -> DrainTasks']  BY <1>1, <1>6 DEF TypesNow
  <1>16. UNCHANGED <<alive, sub, session, pc, notified, drains, controls, up, pane, seen>>
    BY DEF Produce
  <1>17. TypesNext
    BY <1>1, <1>2, <1>4, <1>5, <1>8, <1>9, <1>12, <1>13, <1>14, <1>15, <1>16
    DEF TypesNext, TypesNow
  <1> QED  BY <1>17, TypesNextTyped

LEMMA TypedExit ==
    ASSUME Typed, Exit
    PROVE  Typed'
  <1>1. TypesNow  BY TypedNow
  <1>2. head' = head /\ UNCHANGED <<session, pc, drains, controls, up, pane>>
    BY DEF Exit
  <1>3. alive' \in BOOLEAN /\ notified' \in BOOLEAN
    BY <1>1 DEF Exit, TypesNow
  <1>4. sub' \in Subs
    BY <1>1, EmptyTyped DEF Exit, TypesNow, Subs
  <1>5. seen' \in Views
    BY <1>1 DEF Exit, TypesNow, Views
  <1>6. OutputTyped(out', head)
    <2>1. CASE ~sub.deferred /\ sub.gen # 0
      <3>1. sub.gen \in Gens  BY <1>1, <2>1 DEF TypesNow, Subs, Gens
      <3>2. <<ExitItem(sub.gen)>> \in Seq(ItemsTo(head))
        BY <1>1, <3>1, ExitItemTyped, OneItem DEF TypesNow
      <3>3. OutputTyped(Sink(out, <<ExitItem(sub.gen)>>), head)
        BY <1>1, <3>2, SunkTyped DEF TypesNow
      <3> QED  BY <2>1, <3>3 DEF Exit
    <2>2. CASE ~(~sub.deferred /\ sub.gen # 0)
      BY <1>1, <2>2 DEF Exit, TypesNow
    <2> QED  BY <2>1, <2>2
  <1>7. TypesNext
    BY <1>1, <1>2, <1>3, <1>4, <1>5, <1>6, SameTypes DEF TypesNext, TypesNow
  <1> QED  BY <1>7, TypesNextTyped

LEMMA TypedAttachRunning ==
    ASSUME Typed, AttachRunning
    PROVE  Typed'
  <1>1. TypesNow  BY TypedNow
  <1>2. /\ head' = head /\ UNCHANGED <<alive, notified, drains, pane>>
        /\ Received("attach") /\ pc' = "start"
    BY DEF AttachRunning
  <1> DEFINE m == Head(up)
  <1>3. /\ m \in Messages /\ m.gen \in Gens /\ m.seq \in Positions
        /\ up' \in Seq(Messages)
    BY <1>2, ReceivedTyped
  <1>4. Base(m) \in Positions /\ Oldest - 1 \in Positions  BY <1>3, BaseTyped
  <1>5. /\ sub' = [NoSub EXCEPT !.gen = m.gen, !.deferred = TRUE]
        /\ session' = [gen |-> m.gen, target |-> head, exitHead |-> 0,
                       credited |-> Base(m), pageEnd |-> PageEnd(Base(m), head)]
        /\ out' = Sink(Discard(out), Gap("retention", m.gen, m.seq + 1, Oldest - 1))
        /\ controls' = Append(controls, Ready(m.gen))
        /\ seen' = [gen |-> m.gen, base |-> m.seq, got |-> {}, open |-> TRUE, ended |-> FALSE]
    BY DEF AttachRunning, Base
  <1> HIDE DEF m
  <1>6. m.gen \in 0 .. MaxGens /\ m.gen # 0  BY <1>3 DEF Gens
  <1>7. sub' \in Subs
    BY <1>5, <1>6, EmptyTyped DEF NoSub, Subs
  <1>8. PageEnd(Base(m), head) \in Positions
    BY <1>1, <1>4, PageEndBounds, EmptyTyped DEF TypesNow
  <1>9. session' \in Sessions /\ session'.gen # 0
    BY <1>4, <1>5, <1>6, <1>8, EmptyTyped DEF Sessions
  <1>10. seen' \in Views  BY <1>3, <1>5, <1>6 DEF Views
  <1>11. OutputTyped(out', head)
    <2>1. OutputTyped(Discard(out), head)  BY <1>1, DiscardTyped DEF TypesNow
    <2>2. Gap("retention", m.gen, m.seq + 1, Oldest - 1) \in Seq(ItemsTo(head))
      <3>1. head \in Nat  BY <1>1 DEF TypesNow
      <3>2. m.seq + 1 \in Nat \ {0} /\ Oldest - 1 \in Int /\ Oldest - 1 <= head
        BY <1>3, <1>4, <3>1 DEF Positions
      <3> QED  BY <1>3, <3>1, <3>2, GapTyped
    <2> QED  BY <1>1, <1>5, <2>1, <2>2, SunkTyped DEF TypesNow
  <1>12. controls' \in Seq([gen : Gens, target : Positions])
    <2>1. Ready(m.gen) \in [gen : Gens, target : Positions]
      BY <1>3, EmptyTyped DEF Ready
    <2> QED  BY <1>1, <1>5, <2>1 DEF TypesNow
  <1>13. TypesNext
    BY <1>1, <1>2, <1>3, <1>7, <1>9, <1>10, <1>11, <1>12, SameTypes DEF TypesNext, TypesNow
  <1> QED  BY <1>13, TypesNextTyped

LEMMA TypedAttachExited ==
    ASSUME Typed, AttachExited
    PROVE  Typed'
  <1>1. TypesNow  BY TypedNow
  <1>2. /\ head' = head /\ UNCHANGED <<alive, pc, notified, drains, pane>>
        /\ Received("attach") /\ sub' = NoSub /\ session' = NoSession
    BY DEF AttachExited
  <1> DEFINE m == Head(up)
  <1>3. /\ m \in Messages /\ m.gen \in Gens /\ m.seq \in Positions /\ pc = "idle"
        /\ up' \in Seq(Messages)
    BY <1>2, ReceivedTyped
  <1>4. Base(m) \in Positions  BY <1>3, BaseTyped
  <1>5. /\ out' = Sink(Discard(out), Frames(m.gen, Base(m), head) \o <<ExitItem(m.gen)>>)
        /\ controls' = Append(controls, Ready(m.gen))
        /\ seen' = [gen |-> m.gen, base |-> Base(m), got |-> {}, open |-> TRUE, ended |-> TRUE]
    BY DEF AttachExited, Base
  <1> HIDE DEF m
  <1>6. m.gen \in 0 .. MaxGens  BY <1>3 DEF Gens
  <1>7. seen' \in Views  BY <1>4, <1>5, <1>6 DEF Views
  <1>8. OutputTyped(out', head)
    <2>1. OutputTyped(Discard(out), head)  BY <1>1, DiscardTyped DEF TypesNow
    <2>2. Frames(m.gen, Base(m), head) \in Seq(ItemsTo(head))
      <3>1. head \in Nat /\ Base(m) \in 0 .. head /\ head \in 0 .. head
        BY <1>1, <1>4 DEF TypesNow, Positions
      <3> QED  BY <1>3, <3>1, FramesTyped
    <2>3. <<ExitItem(m.gen)>> \in Seq(ItemsTo(head))
      BY <1>1, <1>3, ExitItemTyped, OneItem DEF TypesNow
    <2>4. Frames(m.gen, Base(m), head) \o <<ExitItem(m.gen)>> \in Seq(ItemsTo(head))
      BY <2>2, <2>3, Joined
    <2> QED  BY <1>1, <1>5, <2>1, <2>4, SunkTyped DEF TypesNow
  <1>9. controls' \in Seq([gen : Gens, target : Positions])
    <2>1. Ready(m.gen) \in [gen : Gens, target : Positions]
      BY <1>3, EmptyTyped DEF Ready
    <2> QED  BY <1>1, <1>5, <2>1 DEF TypesNow
  <1>10. TypesNext
    BY <1>1, <1>2, <1>3, <1>7, <1>8, <1>9, EmptyTyped, SameTypes DEF TypesNext, TypesNow
  <1> QED  BY <1>10, TypesNextTyped

LEMMA TypedDetachPane ==
    ASSUME Typed, DetachPane
    PROVE  Typed'
  <1>1. TypesNow  BY TypedNow
  <1>2. /\ head' = head /\ UNCHANGED <<alive, pc, notified, drains, out, controls, pane>>
        /\ Received("detach")
        /\ sub' = NoSub /\ session' = NoSession /\ seen' = NoView
    BY DEF DetachPane
  <1>3. up' \in Seq(Messages) /\ pc = "idle"  BY <1>2, ReceivedTyped
  <1>4. TypesNext
    BY <1>1, <1>2, <1>3, EmptyTyped, SameTypes DEF TypesNext, TypesNow
  <1> QED  BY <1>4, TypesNextTyped

LEMMA TypedStartSession ==
    ASSUME Typed, StartSession
    PROVE  Typed'
  <1>1. TypesNow  BY TypedNow
  <1>2. /\ head' = head /\ pc = "start" /\ session' = Arm(session)
        /\ UNCHANGED <<alive, sub, notified, drains, controls, up, pane, seen>>
        /\ out' = Sink(out, Frames(session.gen, session.credited, session.pageEnd))
        /\ pc' \in {"idle", "drive"}
    BY DEF StartSession
  <1>3. session \in Sessions /\ session.gen # 0  BY <1>1, <1>2 DEF TypesNow
  <1>4. session' \in Sessions /\ session'.gen # 0  BY <1>2, <1>3, ArmKeeps
  <1>5. OutputTyped(out', head)
    <2>1. session.gen \in Gens  BY <1>3 DEF Sessions, Gens
    <2>2. session.credited \in 0 .. head /\ session.pageEnd \in 0 .. head /\ head \in Nat
      BY <1>1, <1>3 DEF Sessions, Positions, TypesNow
    <2>3. Frames(session.gen, session.credited, session.pageEnd) \in Seq(ItemsTo(head))
      BY <2>1, <2>2, FramesTyped
    <2> QED  BY <1>1, <1>2, <2>3, SunkTyped DEF TypesNow
  <1>6. TypesNext
    BY <1>1, <1>2, <1>4, <1>5, SameTypes DEF TypesNext, TypesNow
  <1> QED  BY <1>6, TypesNextTyped

LEMMA TypedCredit ==
    ASSUME Typed, Credit
    PROVE  Typed'
  <1>1. TypesNow  BY TypedNow
  <1>2. /\ head' = head /\ Received("credit")
        /\ UNCHANGED <<alive, sub, notified, drains, out, controls, pane, seen>>
    BY DEF Credit
  <1> DEFINE m == Head(up)
  <1>3. /\ m.gen \in Gens /\ m.seq \in Positions
        /\ up' \in Seq(Messages) /\ pc = "idle"
    BY <1>2, ReceivedTyped
  <1>4. CASE CreditAccepted(m)
    <2> DEFINE s == [session EXCEPT !.credited = m.seq]
    <2>1. session' = Arm(s) /\ pc' = "drive"  BY <1>4 DEF Credit
    <2>2. session.gen # 0  BY <1>3, <1>4 DEF CreditAccepted, Gens
    <2> HIDE DEF m
    <2>3. s \in Sessions /\ s.gen = session.gen  BY <1>1, <1>3 DEF TypesNow, Sessions
    <2> HIDE DEF s
    <2>4. session' \in Sessions /\ session'.gen # 0  BY <2>1, <2>2, <2>3, ArmKeeps
    <2>5. TypesNext
      BY <1>1, <1>2, <1>3, <2>1, <2>4, SameTypes DEF TypesNext, TypesNow
    <2> QED  BY <2>5, TypesNextTyped
  <1>5. CASE ~CreditAccepted(m)
    <2>1. session' = session /\ pc' = pc  BY <1>5 DEF Credit
    <2> HIDE DEF m
    <2>2. TypesNext
      BY <1>1, <1>2, <1>3, <2>1, SameTypes DEF TypesNext, TypesNow
    <2> QED  BY <2>2, TypesNextTyped
  <1> QED  BY <1>4, <1>5

LEMMA TypedNotifyArm ==
    ASSUME Typed, NotifyArm
    PROVE  Typed'
  <1>1. TypesNow  BY TypedNow
  <1>2. /\ head' = head /\ pc = "idle" /\ session' = Arm(session) /\ notified' = FALSE
        /\ UNCHANGED <<alive, sub, pc, drains, out, controls, up, pane, seen>>
    BY DEF NotifyArm
  <1>3. session' \in Sessions  BY <1>1, <1>2, ArmKeeps DEF TypesNow
  <1>4. TypesNext
    BY <1>1, <1>2, <1>3, SameTypes DEF TypesNext, TypesNow
  <1> QED  BY <1>4, TypesNextTyped

\* The next page of a session and the gap of its expired window.
LEMMA NextPage ==
    ASSUME Typed, NEW s \in Sessions, NEW from \in Positions
    PROVE  /\ PageEnd(from, PhaseTarget(s)) \in Positions
           /\ from <= PageEnd(from, PhaseTarget(s))
           /\ PageEnd(from, PhaseTarget(s)) <= from + PageFrames
           /\ from < PhaseTarget(s) =>
                /\ from < PageEnd(from, PhaseTarget(s))
                /\ PageEnd(from, PhaseTarget(s)) <= PhaseTarget(s)
  <1>1. PhaseTarget(s) \in Positions  BY PhaseTargetTyped
  <1>2. head \in Nat  BY OutTyped
  <1> QED  BY <1>1, <1>2, PageEndBounds

LEMMA PageTyped ==
    ASSUME Typed, NEW gen \in 0 .. MaxGens, gen # 0,
           NEW from \in Positions, NEW to \in Positions
    PROVE  Frames(gen, from, to) \in Seq(ItemsTo(head))
  <1>1. gen \in Gens  BY DEF Gens
  <1>2. head \in Nat /\ from \in 0 .. head /\ to \in 0 .. head  BY OutTyped DEF Positions
  <1> QED  BY <1>1, <1>2, FramesTyped

LEMMA LossTyped ==
    ASSUME Typed, NEW kind \in {"retention", "residual"}, NEW gen \in 0 .. MaxGens, gen # 0,
           NEW from \in Nat \ {0}, NEW to \in Positions
    PROVE  Gap(kind, gen, from, to) \in Seq(ItemsTo(head))
  <1>1. gen \in Gens  BY DEF Gens
  <1>2. head \in Nat /\ to \in Int /\ to <= head  BY OutTyped DEF Positions
  <1> QED  BY <1>1, <1>2, GapTyped

LEMMA AdmitsTyped ==
    ASSUME Typed, NEW items \in Seq(ItemsTo(head))
    PROVE  OutputTyped(Sink(out, items), head)
  BY OutTyped, SunkTyped

LEMMA TypedDrive ==
    ASSUME Typed, Drive
    PROVE  Typed'
  <1>1. TypesNow  BY TypedNow
  <1>2. /\ head' = head /\ pc \in {"drive", "guard"}
        /\ UNCHANGED <<alive, sub, notified, drains, controls, up, pane, seen>>
    BY DEF Drive
  <1>3. /\ session \in Sessions /\ session.gen # 0 /\ session.gen \in 0 .. MaxGens
        /\ session.pageEnd \in Positions
    BY <1>1, <1>2 DEF TypesNow, Sessions
  <1>4. Oldest - 1 \in Positions  BY <1>1, OldestBounds DEF TypesNow, Positions
  <1> DEFINE to == PhaseTarget(session)
             end == PageEnd(session.pageEnd, to)
  <1>5. end \in Positions  BY <1>3, NextPage
  <1>6. pc' \in {"idle", "active", "covered", "drive", "guard"}
    BY <1>2 DEF Drive
  <1>7. \/ session' = session /\ out' = out
        \/ /\ out' = Sink(out, Gap("retention", session.gen, session.pageEnd + 1, Oldest - 1))
           /\ session' = [session EXCEPT !.pageEnd = Oldest - 1]
        \/ /\ out' = Sink(out, Frames(session.gen, session.pageEnd, end))
           /\ session' = [session EXCEPT !.pageEnd = end]
    BY DEF Drive
  <1> HIDE DEF to, end
  <1>8. session' \in Sessions /\ session'.gen # 0
    BY <1>3, <1>4, <1>5, <1>7 DEF Sessions
  <1>9. OutputTyped(out', head)
    <2>1. session.pageEnd + 1 \in Nat \ {0}
      BY <1>1, <1>3 DEF Positions, TypesNow
    <2>2. Gap("retention", session.gen, session.pageEnd + 1, Oldest - 1) \in Seq(ItemsTo(head))
      BY <1>3, <1>4, <2>1, LossTyped
    <2>3. Frames(session.gen, session.pageEnd, end) \in Seq(ItemsTo(head))
      BY <1>3, <1>5, PageTyped
    <2> QED  BY <1>1, <1>7, <2>2, <2>3, AdmitsTyped DEF TypesNow
  <1>10. TypesNext
    BY <1>1, <1>2, <1>6, <1>8, <1>9, SameTypes DEF TypesNext, TypesNow
  <1> QED  BY <1>10, TypesNextTyped

LEMMA TypedSettle ==
    ASSUME Typed, SettleStays \/ SettleGuards \/ SettleTransfers
    PROVE  Typed'
  <1>1. TypesNow  BY TypedNow
  <1>2. /\ head' = head /\ pc \in {"active", "covered"}
        /\ UNCHANGED <<alive, sub, notified, out, controls, up, pane, seen>>
        /\ pc' \in {"idle", "guard"}
    BY DEF SettleStays, SettleGuards, SettleTransfers
  <1>3. session \in Sessions /\ session.gen # 0 /\ session.pageEnd \in Positions
    BY <1>1, <1>2 DEF TypesNow, Sessions
  <1>4. CASE SettleStays \/ SettleGuards
    <2>1. session' = Arm(session) /\ drains' = drains
      BY <1>4 DEF SettleStays, SettleGuards
    <2>2. session' \in Sessions /\ session'.gen # 0  BY <1>3, <2>1, ArmKeeps
    <2>3. TypesNext
      BY <1>1, <1>2, <2>1, <2>2, SameTypes DEF TypesNext, TypesNow
    <2> QED  BY <2>3, TypesNextTyped
  <1>5. CASE SettleTransfers
    <2> DEFINE d == [NoDrain EXCEPT !.at = "start", !.cursor = session.pageEnd]
    <2>1. /\ session' = NoSession /\ pc' = "idle"
          /\ drains' = [drains EXCEPT ![session.gen] = d]
      BY <1>5 DEF SettleTransfers
    <2>2. d \in DrainTasks  BY <1>3, EmptyTyped DEF NoDrain, DrainTasks
    <2> HIDE DEF d
    <2>3. drains' \in [Gens -> DrainTasks]  BY <1>1, <2>1, <2>2 DEF TypesNow
    <2>4. TypesNext
      BY <1>1, <1>2, <2>1, <2>3, EmptyTyped, SameTypes DEF TypesNext, TypesNow
    <2> QED  BY <2>4, TypesNextTyped
  <1> QED  BY <1>4, <1>5

\* How a drain's step changes its task.
LEMMA TaskTyped ==
    ASSUME Typed, NEW g \in Gens, NEW d, d \in DrainTasks, drains' = [drains EXCEPT ![g] = d]
    PROVE  drains' \in [Gens -> DrainTasks]
  BY TypedNow DEF TypesNow

LEMMA TypedCompletes ==
    ASSUME Typed, NEW g \in Gens, NEW items \in Seq(ItemsTo(head)), Completes(g, items)
    PROVE  /\ OutputTyped(out', head) /\ sub' \in Subs /\ seen' \in Views
           /\ drains' \in [Gens -> DrainTasks]
  <1>1. TypesNow  BY TypedNow
  <1>2. sub.staged \in BOOLEAN  BY <1>1 DEF TypesNow, Subs
  <1>3. OutputTyped(out', head)
    <2>1. Append(items, ExitItem(g)) \in Seq(ItemsTo(head))
      BY <1>1, ExitItemTyped, RangeOfAppended DEF TypesNow
    <2> QED  BY <2>1, AdmitsTyped DEF Completes
  <1>4. sub' \in Subs
    <2>1. NoSub \in Subs /\ 0 \in Positions  BY EmptyTyped
    <2>2. [sub EXCEPT !.deferred = FALSE, !.boundary = 0] \in Subs
      BY <1>1, <2>1 DEF TypesNow, Subs
    <2> QED  BY <2>1, <2>2 DEF Completes
  <1>5. seen' \in Views  BY <1>1, <1>2 DEF Completes, TypesNow, Views
  <1>6. drains' \in [Gens -> DrainTasks]
    <2>1. drains' = [drains EXCEPT ![g] = NoDrain]  BY DEF Completes
    <2> QED  BY <2>1, EmptyTyped, TaskTyped
  <1> QED  BY <1>3, <1>4, <1>5, <1>6

LEMMA TypedDrainsOn ==
    ASSUME Typed, NEW g \in Gens, NEW end \in Positions, NEW covered \in BOOLEAN,
           DrainsOn(g, end, covered)
    PROVE  /\ OutputTyped(out', head) /\ sub' \in Subs /\ seen' \in Views
           /\ drains' \in [Gens -> DrainTasks]
  <1>1. TypesNow  BY TypedNow
  <1>2. drains[g] \in DrainTasks  BY <1>1 DEF TypesNow
  <1>3. OutputTyped(out', head)
    <2>1. g \in 0 .. MaxGens /\ g # 0 /\ drains[g].cursor \in Positions
      BY <1>2 DEF Gens, DrainTasks
    <2>2. Frames(g, drains[g].cursor, end) \in Seq(ItemsTo(head))  BY <2>1, PageTyped
    <2> QED  BY <2>2, AdmitsTyped DEF DrainsOn
  <1>4. sub' \in Subs
    BY <1>1, EmptyTyped DEF DrainsOn, TypesNow, Subs
  <1>5. seen' \in Views  BY <1>1 DEF DrainsOn, TypesNow
  <1>6. drains' \in [Gens -> DrainTasks]
    <2> DEFINE d == [drains[g] EXCEPT !.at = "wait", !.cursor = end,
                                     !.handing = drains[g].handing \/ covered]
    <2>1. drains' = [drains EXCEPT ![g] = d]  BY DEF DrainsOn
    <2>2. d \in DrainTasks  BY <1>2 DEF DrainTasks
    <2> QED  BY <2>1, <2>2, TaskTyped
  <1> QED  BY <1>3, <1>4, <1>5, <1>6

\* The pages of the two paging modes of a drain.
LEMMA DrainPageTyped ==
    ASSUME Typed, NEW g \in Gens
    PROVE  /\ drains[g] \in DrainTasks
           /\ drains[g].cursor \in Positions /\ drains[g].target \in Positions
           /\ sub.boundary \in Positions
           /\ \A to \in {drains[g].target, sub.boundary} :
                /\ PageEnd(drains[g].cursor, to) \in Positions
                /\ drains[g].cursor <= PageEnd(drains[g].cursor, to)
                /\ PageEnd(drains[g].cursor, to) <= drains[g].cursor + PageFrames
                /\ Frames(g, drains[g].cursor, PageEnd(drains[g].cursor, to)) \in Seq(ItemsTo(head))
  <1>1. TypesNow  BY TypedNow
  <1>2. drains[g] \in DrainTasks  BY <1>1 DEF TypesNow
  <1>3. drains[g].cursor \in Positions /\ drains[g].target \in Positions
    BY <1>2 DEF DrainTasks
  <1>4. sub.boundary \in Positions  BY <1>1 DEF TypesNow, Subs
  <1>5. g \in 0 .. MaxGens /\ g # 0  BY DEF Gens
  <1>6. ASSUME NEW to \in Positions
        PROVE  /\ PageEnd(drains[g].cursor, to) \in Positions
               /\ drains[g].cursor <= PageEnd(drains[g].cursor, to)
               /\ PageEnd(drains[g].cursor, to) <= drains[g].cursor + PageFrames
    BY <1>1, <1>3, PageEndBounds DEF TypesNow
  <1>7. ASSUME NEW to \in Positions
        PROVE  Frames(g, drains[g].cursor, PageEnd(drains[g].cursor, to)) \in Seq(ItemsTo(head))
    BY <1>3, <1>5, <1>6, PageTyped
  <1> QED  BY <1>2, <1>3, <1>4, <1>6, <1>7

LEMMA TypedDrainPages ==
    ASSUME Typed, NEW g \in Gens, DrainPages(g)
    PROVE  Typed'
  <1>1. TypesNow  BY TypedNow
  <1>2. head' = head /\ UNCHANGED <<alive, session, pc, notified, controls, up, pane>>
    BY DEF DrainPages
  <1> DEFINE from == drains[g].cursor
             end == PageEnd(from, drains[g].target)
  <1>3. /\ from \in Positions /\ end \in Positions
        /\ drains[g] \in DrainTasks /\ drains[g].target \in Positions
        /\ Frames(g, from, end) \in Seq(ItemsTo(head))
    BY DrainPageTyped
  <1>4. Oldest - 1 \in Positions  BY <1>1, OldestBounds DEF TypesNow, Positions
  <1>5. \/ Completes(g, <<>>)
        \/ /\ drains' = [drains EXCEPT ![g] = [drains[g] EXCEPT !.at = "gap", !.lostTo = Oldest - 1]]
           /\ UNCHANGED <<sub, out, seen>>
        \/ Completes(g, Frames(g, from, end))
        \/ DrainsOn(g, end, end >= drains[g].target)
    BY <1>1 DEF DrainPages, TypesNow
  <1> HIDE DEF from, end
  <1>6. /\ OutputTyped(out', head) /\ sub' \in Subs /\ seen' \in Views
        /\ drains' \in [Gens -> DrainTasks]
    <2>1. CASE Completes(g, <<>>)
      <3>1. <<>> \in Seq(ItemsTo(head))  OBVIOUS
      <3> QED  BY <2>1, <3>1, TypedCompletes
    <2>2. CASE /\ drains' = [drains EXCEPT ![g] = [drains[g] EXCEPT !.at = "gap", !.lostTo = Oldest - 1]]
               /\ UNCHANGED <<sub, out, seen>>
      <3>1. [drains[g] EXCEPT !.at = "gap", !.lostTo = Oldest - 1] \in DrainTasks
        BY <1>3, <1>4 DEF DrainTasks
      <3>2. drains' \in [Gens -> DrainTasks]  BY <2>2, <3>1, TaskTyped
      <3> QED  BY <1>1, <2>2, <3>2 DEF TypesNow
    <2>3. CASE Completes(g, Frames(g, from, end))  BY <1>3, <2>3, TypedCompletes
    <2>4. CASE DrainsOn(g, end, end >= drains[g].target)
      <3>1. (end >= drains[g].target) \in BOOLEAN  OBVIOUS
      <3> QED  BY <1>3, <2>4, <3>1, TypedDrainsOn
    <2> QED  BY <1>5, <2>1, <2>2, <2>3, <2>4
  <1>7. TypesNext
    BY <1>1, <1>2, <1>6, SameTypes DEF TypesNext, TypesNow
  <1> QED  BY <1>7, TypesNextTyped

LEMMA HandoffTyped ==
    ASSUME Typed, NEW g \in Gens, NEW from \in Positions, NEW end \in Positions
    PROVE  /\ Gap("retention", g, from + 1, Oldest - 1) \o Gap("residual", g, Oldest, head)
                \in Seq(ItemsTo(head))
           /\ Frames(g, from, end) \o Gap("residual", g, end + 1, head) \in Seq(ItemsTo(head))
  <1>1. head \in Nat /\ head \in Positions /\ g \in 0 .. MaxGens /\ g # 0
    BY OutTyped, EmptyTyped DEF Gens
  <1>2. Oldest \in Nat \ {0} /\ Oldest - 1 \in Positions
    BY <1>1, OldestBounds DEF Positions
  <1>3. from + 1 \in Nat \ {0} /\ end + 1 \in Nat \ {0}  BY <1>1 DEF Positions
  <1>4. /\ Gap("retention", g, from + 1, Oldest - 1) \in Seq(ItemsTo(head))
        /\ Gap("residual", g, Oldest, head) \in Seq(ItemsTo(head))
        /\ Gap("residual", g, end + 1, head) \in Seq(ItemsTo(head))
    BY <1>1, <1>2, <1>3, LossTyped
  <1>5. Frames(g, from, end) \in Seq(ItemsTo(head))  BY <1>1, PageTyped
  <1> QED  BY <1>4, <1>5, Joined

LEMMA TypedDrainHandsOff ==
    ASSUME Typed, NEW g \in Gens, DrainHandsOff(g)
    PROVE  Typed'
  <1>1. TypesNow  BY TypedNow
  <1>2. head' = head /\ UNCHANGED <<alive, session, pc, notified, controls, up, pane>>
    BY DEF DrainHandsOff
  <1> DEFINE from == drains[g].cursor
             end == PageEnd(from, sub.boundary)
  <1>3. from \in Positions /\ end \in Positions
    BY DrainPageTyped
  <1>4. \/ Completes(g, Gap("retention", g, from + 1, Oldest - 1) \o Gap("residual", g, Oldest, head))
        \/ Completes(g, Frames(g, from, end) \o Gap("residual", g, end + 1, head))
        \/ DrainsOn(g, end, FALSE)
    BY DEF DrainHandsOff
  <1> HIDE DEF from, end
  <1>5. /\ OutputTyped(out', head) /\ sub' \in Subs /\ seen' \in Views
        /\ drains' \in [Gens -> DrainTasks]
    BY <1>3, <1>4, HandoffTyped, TypedCompletes, TypedDrainsOn
  <1>6. TypesNext
    BY <1>1, <1>2, <1>5, SameTypes DEF TypesNext, TypesNow
  <1> QED  BY <1>6, TypesNextTyped

LEMMA TypedDrainTurns ==
    ASSUME Typed, NEW g \in Gens, DrainStart(g) \/ Reserve(g) \/ DrainGone(g)
    PROVE  Typed'
  <1>1. TypesNow  BY TypedNow
  <1>2. /\ head' = head
        /\ UNCHANGED <<alive, sub, session, pc, notified, out, controls, up, pane, seen>>
    BY DEF DrainStart, Reserve, DrainGone
  <1>3. drains[g] \in DrainTasks  BY <1>1 DEF TypesNow
  <1>4. \E d \in DrainTasks : drains' = [drains EXCEPT ![g] = d]
    <2>1. CASE DrainStart(g)
      <3>1. [drains[g] EXCEPT !.at = "wait", !.target = head] \in DrainTasks
        BY <1>3, EmptyTyped DEF DrainTasks
      <3>2. drains' = [drains EXCEPT ![g] = [drains[g] EXCEPT !.at = "wait", !.target = head]]
        BY <1>1, <2>1 DEF DrainStart, TypesNow
      <3> QED  BY <3>1, <3>2
    <2>2. CASE Reserve(g)
      <3>1. [drains[g] EXCEPT !.at = "read"] \in DrainTasks  BY <1>3 DEF DrainTasks
      <3>2. drains' = [drains EXCEPT ![g] = [drains[g] EXCEPT !.at = "read"]]
        BY <1>1, <2>2 DEF Reserve, TypesNow
      <3> QED  BY <3>1, <3>2
    <2>3. CASE DrainGone(g)
      BY <2>3, EmptyTyped DEF DrainGone
    <2> QED  BY <2>1, <2>2, <2>3
  <1>5. drains' \in [Gens -> DrainTasks]  BY <1>4, TaskTyped
  <1>6. TypesNext
    BY <1>1, <1>2, <1>5, SameTypes DEF TypesNext, TypesNow
  <1> QED  BY <1>6, TypesNextTyped

LEMMA TypedDrainSinksGap ==
    ASSUME Typed, NEW g \in Gens, DrainSinksGap(g)
    PROVE  Typed'
  <1>1. TypesNow  BY TypedNow
  <1>2. /\ head' = head
        /\ UNCHANGED <<alive, sub, session, pc, notified, controls, up, pane, seen>>
        /\ out' = Sink(out, Gap("retention", g, drains[g].cursor + 1, drains[g].lostTo))
    BY DEF DrainSinksGap
  <1>3. drains[g] \in DrainTasks  BY <1>1 DEF TypesNow
  <1>4. drains[g].cursor \in Positions /\ drains[g].lostTo \in Positions /\ 0 \in Positions
    BY <1>3, EmptyTyped DEF DrainTasks
  <1>5. drains' \in [Gens -> DrainTasks]
    <2> DEFINE d == [drains[g] EXCEPT !.at = "wait", !.cursor = drains[g].lostTo, !.lostTo = 0]
    <2>1. d \in DrainTasks  BY <1>3, <1>4 DEF DrainTasks
    <2>2. drains' = [drains EXCEPT ![g] = d]  BY <1>1 DEF DrainSinksGap, TypesNow
    <2> QED  BY <2>1, <2>2, TaskTyped
  <1>6. OutputTyped(out', head)
    <2>1. g \in 0 .. MaxGens /\ g # 0 /\ drains[g].cursor + 1 \in Nat \ {0}
      BY <1>1, <1>4 DEF Gens, Positions, TypesNow
    <2>2. Gap("retention", g, drains[g].cursor + 1, drains[g].lostTo) \in Seq(ItemsTo(head))
      BY <1>4, <2>1, LossTyped
    <2> QED  BY <1>2, <2>2, AdmitsTyped
  <1>7. TypesNext
    BY <1>1, <1>2, <1>5, <1>6, SameTypes DEF TypesNext, TypesNow
  <1> QED  BY <1>7, TypesNextTyped

LEMMA OnlyElement ==
    ASSUME NEW S, NEW s \in Seq(S), s # <<>>, Len(s) <= 1
    PROVE  Len(s) = 1 /\ s[1] \in S /\ Range(s) = {s[1]} /\ s = <<s[1]>>
  <1>1. Len(s) \in Nat /\ Len(s) # 0  OBVIOUS
  <1>2. Len(s) = 1  BY <1>1
  <1>3. DOMAIN s = {1}  BY <1>2
  <1> QED  BY <1>2, <1>3 DEF Range

LEMMA WireTyped ==
    ASSUME Typed, out.wire # <<>>
    PROVE  /\ out.wire[1] \in ItemsTo(head) /\ Range(out.wire) = {out.wire[1]}
           /\ out.wire = <<out.wire[1]>>
           /\ out.wire[1].from \in Positions /\ out.wire[1].to \in Positions
           /\ out.wire[1].gen \in Gens /\ out.wire[1].kind \in Kinds
           /\ out.wire[1].kind # "exit" => out.wire[1].from \in 1 .. head
           /\ out.wire[1].from .. out.wire[1].to \subseteq 0 .. head
  <1>1. head \in Nat /\ out.wire \in Seq(ItemsTo(head)) /\ Len(out.wire) <= 1
    BY OutTyped DEF OutputTyped, Queues
  <1>3. out.wire[1] \in ItemsTo(head) /\ Range(out.wire) = {out.wire[1]}
        /\ out.wire = <<out.wire[1]>>
    BY <1>1, OnlyElement
  <1> DEFINE e == out.wire[1]
  <1>5. /\ e.from \in 0 .. head /\ e.to \in 0 .. head /\ e.gen \in Gens /\ e.kind \in Kinds
        /\ e.kind # "exit" => e.from > 0
    BY <1>3 DEF ItemsTo
  <1>6. e.from .. e.to \subseteq 0 .. head
    <2> HIDE DEF e
    <2> QED  BY <1>1, <1>5
  <1>7. e.kind # "exit" => e.from \in 1 .. head
    <2> HIDE DEF e
    <2> QED  BY <1>1, <1>5
  <1> QED  BY <1>3, <1>5, <1>6, <1>7 DEF Positions

LEMMA BeginTyped ==
    ASSUME Typed, pane.gen < MaxGens, NEW since \in Positions
    PROVE  /\ BeginAttach(pane, since) \in Panes /\ BeginAttach(pane, since).gen # 0
           /\ Message("attach", pane.gen + 1, since) \in Messages
  <1>1. pane.gen \in 0 .. MaxGens /\ MaxGens \in Nat  BY TypedNow, DeliveryAssumption
    DEF TypesNow, Panes
  <1>2. pane.gen + 1 \in 0 .. MaxGens /\ pane.gen + 1 \in Gens /\ pane.gen + 1 # 0
    BY <1>1 DEF Gens
  <1>3. BeginAttach(pane, since) \in Panes
    BY <1>2, EmptyTyped DEF BeginAttach, Panes
  <1>4. Message("attach", pane.gen + 1, since) \in Messages
    BY <1>2 DEF Message, Messages
  <1> QED  BY <1>2, <1>3, <1>4 DEF BeginAttach

LEMMA PinTyped ==
    ASSUME Typed, NEW e, e.from \in Positions
    PROVE  /\ Pin(pane, e) \in Panes
           /\ Pin(pane, e) = [pane EXCEPT !.pin = Pin(pane, e).pin]
           /\ Pin(pane, e).pin \in Positions
  <1>1. pane \in Panes /\ pane.pin \in Positions  BY TypedNow DEF TypesNow, Panes
  <1>2. pane.pin \in Int /\ e.from \in Int  BY <1>1 DEF Positions
  <1> DEFINE x == IF pane.pin = 0 THEN e.from ELSE Min({pane.pin, e.from})
  <1>3. x \in Positions
    <2>1. Min({pane.pin, e.from}) \in {pane.pin, e.from}  BY <1>2, MinOfTwo
    <2> QED  BY <1>1, <2>1
  <1>4. Pin(pane, e) = [pane EXCEPT !.pin = x]  BY DEF Pin
  <1> HIDE DEF x
  <1> QED  BY <1>1, <1>3, <1>4 DEF Panes

LEMMA TypedHandle ==
    ASSUME Typed, NEW e \in ItemsTo(head), Handle(e)
    PROVE  /\ pane' \in Panes /\ up' \in Seq(Messages)
           /\ pane'.open => pane'.gen # 0
  <1>1. TypesNow  BY TypedNow
  <1>2. e.from \in Positions /\ (e.kind # "exit" => e.from \in 1 .. head)
    BY <1>1 DEF ItemsTo, Positions, TypesNow
  <1>3. pane.applied \in Positions  BY <1>1 DEF TypesNow, Panes
  <1>4. CASE UNCHANGED <<pane, up>>  BY <1>1, <1>4 DEF TypesNow
  <1>5. CASE pane' = [pane EXCEPT !.exited = TRUE, !.inbox = {}] /\ UNCHANGED up
    BY <1>1, <1>5 DEF TypesNow, Panes
  <1>6. CASE e.kind = "frame" /\ pane' = [pane EXCEPT !.inbox = @ \cup {e.from}] /\ UNCHANGED up
    <2>1. pane.inbox \cup {e.from} \in SUBSET (1 .. head)
      BY <1>1, <1>2, <1>6 DEF TypesNow, Panes
    <2> QED  BY <1>1, <1>6, <2>1 DEF TypesNow, Panes
  <1>7. CASE pane' = Pin(pane, e) /\ UNCHANGED up
    <2>1. /\ pane' \in Panes /\ pane' = [pane EXCEPT !.pin = Pin(pane, e).pin]
      BY <1>2, <1>7, PinTyped
    <2> QED  BY <1>1, <1>7, <2>1 DEF TypesNow, Panes
  <1>8. CASE /\ pane.gen < MaxGens
             /\ pane' = BeginAttach(pane, pane.applied)
             /\ up' = Append(up, Message("attach", pane.gen + 1, pane.applied))
    BY <1>1, <1>3, <1>8, BeginTyped DEF TypesNow
  <1>9. CASE pane' = [Pin(pane, e) EXCEPT !.gaveUp = TRUE] /\ UNCHANGED up
    <2>1. /\ Pin(pane, e) \in Panes
          /\ Pin(pane, e) = [pane EXCEPT !.pin = Pin(pane, e).pin]
      BY <1>2, PinTyped
    <2>2. Pin(pane, e).open = pane.open /\ Pin(pane, e).gen = pane.gen
      BY <1>1, <2>1 DEF TypesNow, Panes
    <2>3. pane' \in Panes /\ pane'.open = pane.open /\ pane'.gen = pane.gen
      BY <1>9, <2>1, <2>2 DEF Panes
    <2> QED  BY <1>1, <1>9, <2>3 DEF TypesNow
  <1> QED  BY <1>4, <1>5, <1>6, <1>7, <1>8, <1>9 DEF Handle

LEMMA TypedSendControl ==
    ASSUME Typed, SendControl
    PROVE  Typed'
  <1>1. TypesNow  BY TypedNow
  <1>2. /\ head' = head /\ controls # <<>> /\ controls' = Tail(controls)
        /\ UNCHANGED <<alive, sub, session, pc, notified, drains, out, up, seen>>
        /\ pane' \in {[pane EXCEPT !.target = Head(controls).target], pane}
    BY DEF SendControl
  <1>3. /\ Head(controls) \in [gen : Gens, target : Positions]
        /\ controls' \in Seq([gen : Gens, target : Positions])
    BY <1>1, <1>2, RangeOfTail DEF TypesNow
  <1>4. pane' \in Panes /\ (pane'.open => pane'.gen # 0)
    BY <1>1, <1>2, <1>3 DEF TypesNow, Panes
  <1>5. TypesNext
    BY <1>1, <1>2, <1>3, <1>4, SameTypes DEF TypesNext, TypesNow
  <1> QED  BY <1>5, TypesNextTyped

\* What the writer takes next.
LEMMA Leased ==
    ASSUME Typed, Lease
    PROVE  /\ out.wire = <<>>
           /\ UNCHANGED <<head, alive, sub, session, pc, notified, drains, controls, up, pane, seen>>
           /\ \/ /\ out.spill # <<>>
                 /\ out'.wire = <<Head(out.spill)>> /\ Head(out.spill) \in ItemsTo(head)
                 /\ Range(out'.wire) = {Head(out.spill)}
                 /\ out'.spill = Tail(out.spill) /\ out'.lane = out.lane
              \/ /\ out.lane # <<>>
                 /\ out'.wire = <<Head(out.lane)>> /\ Head(out.lane) \in ItemsTo(head)
                 /\ Range(out'.wire) = {Head(out.lane)}
                 /\ out'.lane = Tail(out.lane) /\ out'.spill = out.spill
           /\ OutputTyped(out', head)
           /\ Contents(out') = Contents(out)
  <1>1. /\ out.lane \in Seq(ItemsTo(head)) /\ out.spill \in Seq(ItemsTo(head))
        /\ out.wire \in Seq(ItemsTo(head)) /\ IsOverflow(out.spill) /\ head \in Nat
        /\ out \in [lane : Seq(ItemsTo(head)), spill : Seq(ItemsTo(head)), wire : Seq(ItemsTo(head))]
    BY OutTyped DEF OutputTyped, Queues
  <1>2. /\ out.wire = <<>>
        /\ UNCHANGED <<head, alive, sub, session, pc, notified, drains, controls, up, pane, seen>>
    BY DEF Lease
  <1>3. Range(out.wire) = {}  BY <1>2 DEF Range
  <1>4. CASE out.spill # <<>>
    <2> DEFINE e == Head(out.spill)
               t == Tail(out.spill)
    <2>1. out' = [out EXCEPT !.wire = <<e>>, !.spill = t]
      BY <1>4 DEF Lease
    <2>2. /\ e \in ItemsTo(head) /\ t \in Seq(ItemsTo(head))
          /\ Range(out.spill) = {e} \cup Range(t)
          /\ Len(t) = Len(out.spill) - 1
          /\ \A j \in 1 .. (Len(out.spill) - 1) : t[j] = out.spill[j + 1]
      BY <1>1, <1>4, RangeOfTail
    <2>3. IsOverflow(t)
      BY <1>1, <2>2 DEF IsOverflow
    <2> HIDE DEF e, t
    <2>4. <<e>> \in Seq(ItemsTo(head)) /\ Range(<<e>>) = {e} /\ Len(<<e>>) = 1
      BY <2>2, OneItem
    <2>5. out'.wire = <<e>> /\ out'.spill = t /\ out'.lane = out.lane
          /\ out' = [lane |-> out.lane, spill |-> t, wire |-> <<e>>]
      BY <1>1, <2>1
    <2>6. OutputTyped(out', head)
      BY <1>1, <2>2, <2>3, <2>4, <2>5 DEF OutputTyped, Queues
    <2>7. Contents(out') = Contents(out)
      BY <1>3, <2>2, <2>4, <2>5 DEF Contents
    <2> QED  BY <1>2, <1>4, <2>2, <2>4, <2>5, <2>6, <2>7 DEF e, t
  <1>5. CASE out.spill = <<>>
    <2> DEFINE e == Head(out.lane)
               t == Tail(out.lane)
    <2>1. out.lane # <<>> /\ out' = [out EXCEPT !.wire = <<e>>, !.lane = t]
      BY <1>5 DEF Lease
    <2>2. /\ e \in ItemsTo(head) /\ t \in Seq(ItemsTo(head))
          /\ Range(out.lane) = {e} \cup Range(t)
      BY <1>1, <2>1, RangeOfTail
    <2> HIDE DEF e, t
    <2>4. <<e>> \in Seq(ItemsTo(head)) /\ Range(<<e>>) = {e} /\ Len(<<e>>) = 1
      BY <2>2, OneItem
    <2>5. out'.wire = <<e>> /\ out'.lane = t /\ out'.spill = out.spill
          /\ out' = [lane |-> t, spill |-> out.spill, wire |-> <<e>>]
      BY <1>1, <2>1
    <2>6. OutputTyped(out', head)
      BY <1>1, <2>2, <2>4, <2>5 DEF OutputTyped, Queues
    <2>7. Contents(out') = Contents(out)
      BY <1>3, <2>2, <2>4, <2>5 DEF Contents
    <2> QED  BY <1>2, <2>1, <2>2, <2>4, <2>5, <2>6, <2>7 DEF e, t
  <1> QED  BY <1>4, <1>5

LEMMA TypedLease ==
    ASSUME Typed, Lease
    PROVE  Typed'
  <1>1. TypesNow  BY TypedNow
  <1>2. /\ UNCHANGED <<head, alive, sub, session, pc, notified, drains, controls, up, pane, seen>>
        /\ OutputTyped(out', head)
    BY Leased
  <1>3. TypesNext
    BY <1>1, <1>2, SameTypes DEF TypesNext, TypesNow
  <1> QED  BY <1>3, TypesNextTyped

LEMMA Flushed ==
    ASSUME Typed, SendDone
    PROVE  /\ out.wire # <<>> /\ out'.wire = <<>> /\ Range(out'.wire) = {}
           /\ out'.lane = out.lane /\ out'.spill = out.spill
           /\ OutputTyped(out', head)
           /\ Contents(out) = Contents(out') \cup {out.wire[1]}
           /\ Handle(out.wire[1])
           /\ UNCHANGED <<head, alive, sub, session, pc, notified, drains, controls>>
  <1>1. /\ out.lane \in Seq(ItemsTo(head)) /\ out.spill \in Seq(ItemsTo(head))
        /\ out.wire \in Seq(ItemsTo(head)) /\ IsOverflow(out.spill)
        /\ out \in [lane : Seq(ItemsTo(head)), spill : Seq(ItemsTo(head)), wire : Seq(ItemsTo(head))]
    BY OutTyped DEF OutputTyped, Queues
  <1>2. out.wire # <<>> /\ out' = [out EXCEPT !.wire = <<>>] /\ Handle(out.wire[1])
        /\ UNCHANGED <<head, alive, sub, session, pc, notified, drains, controls>>
    BY DEF SendDone
  <1>3. <<>> \in Seq(ItemsTo(head)) /\ Len(<<>>) <= 1 /\ Range(<<>>) = {}
    BY DEF Range
  <1>4. /\ out'.wire = <<>> /\ out'.lane = out.lane /\ out'.spill = out.spill
        /\ out' = [lane |-> out.lane, spill |-> out.spill, wire |-> <<>>]
    BY <1>1, <1>2
  <1>5. OutputTyped(out', head)
    BY <1>1, <1>3, <1>4 DEF OutputTyped, Queues
  <1>6. Range(out.wire) = {out.wire[1]}  BY <1>2, WireTyped
  <1>7. Contents(out) = Contents(out') \cup {out.wire[1]}
    BY <1>3, <1>4, <1>6 DEF Contents
  <1> QED  BY <1>2, <1>3, <1>4, <1>5, <1>7

LEMMA TypedSendDone ==
    ASSUME Typed, SendDone
    PROVE  Typed'
  <1>1. TypesNow  BY TypedNow
  <1>2. /\ out.wire # <<>> /\ Handle(out.wire[1]) /\ OutputTyped(out', head)
        /\ UNCHANGED <<head, alive, sub, session, pc, notified, drains, controls>>
    BY Flushed
  <1> DEFINE e == out.wire[1]
  <1>3. /\ e \in ItemsTo(head)
        /\ e.kind # "exit" => e.from \in 1 .. head
        /\ e.from \in Positions /\ e.to \in Positions
    BY <1>2, WireTyped
  <1>4. seen' = IF e.gen = seen.gen /\ e.kind # "exit"
                  THEN [seen EXCEPT !.got = @ \cup (e.from .. e.to)] ELSE seen
    BY DEF SendDone
  <1> HIDE DEF e
  <1>5. pane' \in Panes /\ up' \in Seq(Messages) /\ (pane'.open => pane'.gen # 0)
    BY <1>2, <1>3, TypedHandle DEF e
  <1>6. seen' \in Views
    <2>1. CASE e.gen = seen.gen /\ e.kind # "exit"
      <3>1. e.from .. e.to \subseteq 1 .. head
        BY <1>1, <1>3, <2>1 DEF TypesNow, Positions
      <3>2. seen.got \cup (e.from .. e.to) \in SUBSET (1 .. head)
        BY <1>1, <3>1 DEF TypesNow, Views
      <3> QED  BY <1>1, <1>4, <2>1, <3>2 DEF TypesNow, Views
    <2>2. CASE ~(e.gen = seen.gen /\ e.kind # "exit")
      BY <1>1, <1>4, <2>2 DEF TypesNow
    <2> QED  BY <2>1, <2>2
  <1>7. TypesNext
    BY <1>1, <1>2, <1>5, <1>6, SameTypes DEF TypesNext, TypesNow
  <1> QED  BY <1>7, TypesNextTyped

\* Applying a received frame, and what it credits.
ConsumesAt(n) ==
    LET credit == Min({n, pane.target})
        due == credit > pane.sent
    IN /\ pane' = [pane EXCEPT
                     !.frontier = n,
                     !.inbox = {m \in @ : m > n},
                     !.sent = IF due THEN credit ELSE @,
                     !.applied = IF pane.pin # 0 /\ n >= pane.pin
                                   THEN Max({@, pane.pin - 1}) ELSE n]
       /\ up' = IF due THEN Append(up, Message("credit", pane.gen, credit)) ELSE up

LEMMA Consumed ==
    ASSUME Typed, NEW n \in pane.inbox, ConsumesAt(n), pane.open
    PROVE  /\ pane' \in Panes /\ pane'.gen = pane.gen /\ pane'.open = pane.open
           /\ pane'.inbox = {m \in pane.inbox : m > n}
           /\ \/ up' = up
              \/ \E credit \in Positions :
                   /\ up' = Append(up, Message("credit", pane.gen, credit))
                   /\ Message("credit", pane.gen, credit) \in Messages
                   /\ credit <= n
  <1>1. /\ head \in Nat /\ pane \in Panes /\ pane.gen \in Gens
        /\ pane.target \in Positions \cup {-1} /\ pane.sent \in Positions
        /\ pane.applied \in Positions /\ pane.pin \in Positions
        /\ pane.inbox \in SUBSET (1 .. head) /\ n \in 1 .. head
    BY TypedNow DEF TypesNow, Panes, Gens
  <1> DEFINE credit == Min({n, pane.target})
             due == credit > pane.sent
             later == {m \in pane.inbox : m > n}
             applied == IF pane.pin # 0 /\ n >= pane.pin
                          THEN Max({pane.applied, pane.pin - 1}) ELSE n
             sent == IF due THEN credit ELSE pane.sent
  <1>2. /\ pane' = [pane EXCEPT !.frontier = n, !.inbox = later, !.sent = sent,
                                !.applied = applied]
        /\ up' = IF due THEN Append(up, Message("credit", pane.gen, credit)) ELSE up
    BY DEF ConsumesAt
  <1>3. n \in Int /\ pane.target \in Int /\ pane.applied \in Int /\ pane.pin - 1 \in Int
    BY <1>1 DEF Positions
  <1>4. credit \in {n, pane.target} /\ credit <= n
    BY <1>3, MinOfTwo
  <1> DEFINE x == pane.pin - 1
  <1>5. Max({pane.applied, x}) \in {pane.applied, x} /\ Max({pane.applied, x}) >= pane.applied
    <2>1. x \in Int  BY <1>3
    <2> HIDE DEF x
    <2> QED  BY <1>3, <2>1, MaxOfTwo
  <1>6. applied \in Positions
    BY <1>1, <1>5 DEF Positions
  <1> HIDE DEF credit, applied
  <1>7. due => credit \in Positions
    BY <1>1, <1>4 DEF Positions
  <1>8. sent \in Positions  BY <1>1, <1>7
  <1>9. later \in SUBSET (1 .. head)  BY <1>1
  <1>10. n \in Positions  BY <1>1 DEF Positions
  <1> HIDE DEF later, sent
  <1>11. pane' \in Panes /\ pane'.gen = pane.gen /\ pane'.open = pane.open /\ pane'.inbox = later
    BY <1>1, <1>2, <1>6, <1>8, <1>9, <1>10 DEF Panes
  <1>12. due => Message("credit", pane.gen, credit) \in Messages
    BY <1>1, <1>7 DEF Message, Messages
  <1>13. \/ up' = up
         \/ \E c \in Positions :
               /\ up' = Append(up, Message("credit", pane.gen, c))
               /\ Message("credit", pane.gen, c) \in Messages
               /\ c <= n
    BY <1>2, <1>4, <1>7, <1>12
  <1> QED  BY <1>11, <1>13 DEF later

LEMMA TypedConsume ==
    ASSUME Typed, Consume
    PROVE  Typed'
  <1>1. TypesNow  BY TypedNow
  <1>2. /\ head' = head /\ pane.open
        /\ UNCHANGED <<alive, sub, session, pc, notified, drains, out, controls, seen>>
    BY DEF Consume
  <1>3. PICK n \in pane.inbox : ConsumesAt(n)
    BY DEF Consume, ConsumesAt
  <1>4. /\ pane' \in Panes /\ pane'.gen = pane.gen /\ pane'.open = pane.open
        /\ \/ up' = up
           \/ \E c \in Positions :
                /\ up' = Append(up, Message("credit", pane.gen, c))
                /\ Message("credit", pane.gen, c) \in Messages
    BY <1>2, <1>3, Consumed
  <1>5. up' \in Seq(Messages)  BY <1>1, <1>4 DEF TypesNow
  <1>6. TypesNext
    BY <1>1, <1>2, <1>4, <1>5, SameTypes DEF TypesNext, TypesNow
  <1> QED  BY <1>6, TypesNextTyped

LEMMA TypedPane ==
    ASSUME Typed, Reattach \/ Refresh \/ Leave
    PROVE  Typed'
  <1>1. TypesNow  BY TypedNow
  <1>2. /\ head' = head
        /\ UNCHANGED <<alive, sub, session, pc, notified, drains, out, controls, seen>>
    BY DEF Reattach, Refresh, Leave
  <1>3. pane.applied \in Positions /\ 0 \in Positions /\ pane.gen \in 0 .. MaxGens
    BY <1>1, EmptyTyped DEF TypesNow, Panes
  <1>4. pane.open => Message("detach", pane.gen, 0) \in Messages
    BY <1>1, <1>3 DEF TypesNow, Message, Messages, Gens
  <1>5. CASE Reattach
    <2>1. PICK since \in {0, pane.applied} :
             /\ pane' = BeginAttach(pane, since)
             /\ up' = Append(up, Message("attach", pane.gen + 1, since))
      BY <1>5 DEF Reattach
    <2>2. /\ pane' \in Panes /\ pane'.gen # 0
          /\ Message("attach", pane.gen + 1, since) \in Messages
      BY <1>3, <1>5, <2>1, BeginTyped DEF Reattach
    <2>3. up' \in Seq(Messages)  BY <1>1, <2>1, <2>2 DEF TypesNow
    <2>4. TypesNext
      BY <1>1, <1>2, <2>2, <2>3, SameTypes DEF TypesNext, TypesNow
    <2> QED  BY <2>4, TypesNextTyped
  <1>6. CASE Refresh
    <2> DEFINE d == Message("detach", pane.gen, 0)
               a == Message("attach", pane.gen + 1, 0)
    <2>1. pane' = BeginAttach(pane, 0) /\ up' = up \o <<d, a>>
      BY <1>6 DEF Refresh
    <2>2. pane' \in Panes /\ pane'.gen # 0 /\ a \in Messages /\ d \in Messages
      BY <1>3, <1>4, <1>6, <2>1, BeginTyped DEF Refresh
    <2> HIDE DEF d, a
    <2>3. <<d, a>> \in Seq(Messages)  BY <2>2
    <2>4. up' \in Seq(Messages)  BY <1>1, <2>1, <2>3, Joined DEF TypesNow
    <2>5. TypesNext
      BY <1>1, <1>2, <2>2, <2>4, SameTypes DEF TypesNext, TypesNow
    <2> QED  BY <2>5, TypesNextTyped
  <1>7. CASE Leave
    <2>1. /\ pane' = [NoPane EXCEPT !.gen = pane.gen] /\ pane.open
          /\ up' = Append(up, Message("detach", pane.gen, 0))
      BY <1>7 DEF Leave
    <2>2. pane' \in Panes /\ ~pane'.open
      BY <1>3, <2>1, EmptyTyped DEF NoPane, Panes
    <2>3. up' \in Seq(Messages)  BY <1>1, <1>4, <2>1 DEF TypesNow
    <2>4. TypesNext
      BY <1>1, <1>2, <2>2, <2>3, SameTypes DEF TypesNext, TypesNow
    <2> QED  BY <2>4, TypesNextTyped
  <1> QED  BY <1>5, <1>6, <1>7

LEMMA TypedStutters ==
    ASSUME Typed, UNCHANGED vars
    PROVE  Typed'
  <1>1. TypesNow  BY TypedNow
  <1>2. TypesNext
    BY <1>1, SameTypes DEF TypesNext, TypesNow, vars
  <1> QED  BY <1>2, TypesNextTyped

LEMMA TypedInit ==
    ASSUME Init
    PROVE  Typed
  <1> USE DEF Init
  <1>1. MaxGens \in Nat /\ MaxSeq \in Nat  BY DeliveryAssumption
  <1>2. 0 \in Positions /\ 0 \in 0 .. MaxGens  BY <1>1 DEF Positions
  <1>3. head \in 0 .. MaxSeq  BY <1>1
  <1>4. sub \in Subs  BY <1>2 DEF NoSub, Subs
  <1>5. session \in Sessions  BY <1>2 DEF NoSession, Sessions
  <1>6. NoDrain \in DrainTasks  BY <1>2 DEF NoDrain, DrainTasks
  <1>7. drains \in [Gens -> DrainTasks]  BY <1>6
  <1>8. pane \in Panes /\ ~pane.open  BY <1>2 DEF NoPane, Panes
  <1>9. seen \in Views  BY <1>2 DEF NoView, Views
  <1>10. out \in Outputs /\ Len(out.wire) <= 1 /\ DOMAIN out.spill = {}
    BY DEF Outputs
  <1>11. controls \in Seq([gen : Gens, target : Positions]) /\ up \in Seq(Messages)
    OBVIOUS
  <1> QED
    BY <1>3, <1>4, <1>5, <1>7, <1>8, <1>9, <1>10, <1>11 DEF Typed, TypeOK

LEMMA TypedStep ==
    ASSUME Typed, [Next]_vars
    PROVE  Typed'
  <1>1. ASSUME NEW g \in Gens, Drain(g) PROVE Typed'
    BY <1>1, TypedDrainTurns, TypedDrainPages, TypedDrainSinksGap, TypedDrainHandsOff
    DEF Drain
  <1>2. ASSUME Dispatch PROVE Typed'
    BY <1>2, TypedAttachRunning, TypedAttachExited, TypedDetachPane, TypedStartSession,
       TypedCredit, TypedDrive, TypedSettle
    DEF Dispatch
  <1>3. ASSUME Pump PROVE Typed'
    BY <1>3, TypedSendControl, TypedLease, TypedSendDone DEF Pump
  <1> QED
    BY <1>1, <1>2, <1>3, TypedProduce, TypedExit, TypedNotifyArm, TypedConsume, TypedPane,
       TypedStutters
    DEF Next

(* Every handler keeps the types: no page, gap, credit or cursor ever runs *)
(* ahead of the terminal's output, no empty range is declared lost, and    *)
(* only evicted frames are in the overflow lane.                           *)
THEOREM AlwaysTyped == Spec => []Typed
  <1>1. Init => Typed  BY TypedInit
  <1>2. Typed /\ [Next]_vars => Typed'  BY TypedStep
  <1> QED  BY <1>1, <1>2, PTL DEF Spec

(* The part of it that the runs check: whatever the dispatcher, the drains, *)
(* the writer and the pane do, no page, credit or queued frame is ahead of *)
(* what the terminal has printed (paced_replay.rs, registry.rs).           *)
THEOREM DeliveryTyped == Spec => []TypeOK
  <1>1. Typed => TypeOK  BY DEF Typed
  <1> QED  BY <1>1, AlwaysTyped, PTL

-----------------------------------------------------------------------------
(* Generations.                                                            *)

LEMMA MessageGens ==
    ASSUME NEW u \in Seq(Messages)
    PROVE  \A i \in DOMAIN u : u[i].gen \in Gens /\ u[i].gen \in Nat /\ 0 < u[i].gen
  <1>1. \A i \in DOMAIN u : u[i] \in Messages  OBVIOUS
  <1>2. \A m \in Messages : m.gen \in Gens  BY DEF Messages
  <1>3. \A g \in Gens : g \in Nat /\ 0 < g  BY DeliveryAssumption DEF Gens
  <1> QED  BY <1>1, <1>2, <1>3

LEMMA SentWithin ==
    ASSUME NEW u \in Seq(Messages), NEW U, NEW V, NEW n \in Nat, NEW B,
           Sent(u, U, n, B), V \subseteq U \cup {0}
    PROVE  Sent(u, V, n, B)
  <1>1. \A i \in DOMAIN u : u[i].gen \in Nat /\ 0 < u[i].gen
    BY MessageGens
  <1> QED  BY <1>1 DEF Sent

LEMMA SentRead ==
    ASSUME NEW u \in Seq(Messages), u # <<>>, NEW U, NEW n \in Nat, NEW B, Sent(u, U, n, B),
           Newest(U, n)
    PROVE  /\ Sent(Tail(u), U, n, B)
           /\ Head(u).kind = "attach" =>
                /\ Sent(Tail(u), U \cup {Head(u).gen}, n, B)
                /\ Newest(U \cup {Head(u).gen}, n)
  <1> DEFINE t == Tail(u)
             x == Head(u)
  <1>1. /\ t \in Seq(Messages) /\ Len(t) = Len(u) - 1 /\ Len(u) >= 1
        /\ \A j \in 1 .. (Len(u) - 1) : t[j] = u[j + 1]
    BY RangeOfTail
  <1>2. x = u[1] /\ 1 \in DOMAIN u /\ DOMAIN u = 1 .. Len(u) /\ DOMAIN t = 1 .. (Len(u) - 1)
    BY <1>1
  <1> HIDE DEF t, x
  <1>3. \A j \in DOMAIN t : j + 1 \in DOMAIN u /\ t[j] = u[j + 1] /\ j + 1 > 1
    BY <1>1, <1>2
  <1>4. Sent(t, U, n, B)
    BY <1>2, <1>3 DEF Sent
  <1>5. ASSUME x.kind = "attach"
        PROVE  /\ Sent(t, U \cup {x.gen}, n, B) /\ Newest(U \cup {x.gen}, n)
    <2>1. \A j \in DOMAIN t : t[j].kind = "attach" => x.gen < t[j].gen
      BY <1>2, <1>3, <1>5 DEF Sent
    <2>2. x.gen <= n  BY <1>2 DEF Sent
    <2>3. Newest(U \cup {x.gen}, n)  BY <2>2 DEF Newest
    <2> QED  BY <1>4, <2>1, <2>3 DEF Sent
  <1> QED  BY <1>4, <1>5 DEF t, x

LEMMA SentMore ==
    ASSUME NEW u \in Seq(Messages), NEW U \in SUBSET Nat, NEW n \in Nat, NEW B,
           Sent(u, U, n, B), NEW m \in Messages, NEW C, NEW k \in Nat, n <= k, m.gen <= k,
           C = B \/ k > n,
           m.kind = "attach" => k > n /\ m.gen = k /\ C = {} /\ Newest(U, n),
           m.kind = "credit" => m.gen = n /\ k = n /\ B # {}
    PROVE  Sent(Append(u, m), U, k, C)
  <1> DEFINE w == Append(u, m)
  <1>1. /\ w \in Seq(Messages) /\ Len(w) = Len(u) + 1 /\ w[Len(u) + 1] = m
        /\ \A j \in 1 .. Len(u) : w[j] = u[j]
    OBVIOUS
  <1> HIDE DEF w
  <1>2. DOMAIN w = DOMAIN u \cup {Len(u) + 1} /\ Len(u) + 1 \notin DOMAIN u
    BY <1>1
  <1>3. \A i \in DOMAIN u : w[i] = u[i] /\ u[i].gen \in Nat /\ Len(u) + 1 > i /\ i \in Nat
    BY <1>1, MessageGens
  <1>4. w[Len(u) + 1] = m /\ m.gen \in Nat
    BY <1>1 DEF Messages, Gens
  <1>5. ASSUME NEW i \in DOMAIN u
        PROVE  /\ w[i].gen <= k
               /\ w[i].kind = "attach" =>
                    /\ \A g \in U : g < w[i].gen
                    /\ w[i].gen = k => C = {}
                    /\ \A j \in DOMAIN w : j > i /\ w[j].kind = "attach" => w[i].gen < w[j].gen
                    /\ \A j \in DOMAIN w : w[j].kind = "credit" => w[j].gen # w[i].gen
    <2>1. u[i].gen <= n /\ w[i] = u[i] /\ u[i].gen <= k  BY <1>3 DEF Sent
    <2>2. CASE u[i].kind = "attach"
      <3>1. \A g \in U : g < u[i].gen  BY <2>2 DEF Sent
      <3>2. u[i].gen = k => C = {}  BY <1>3, <2>1, <2>2 DEF Sent
      <3>3. \A j \in DOMAIN w : j > i /\ w[j].kind = "attach" => u[i].gen < w[j].gen
        BY <1>2, <1>3, <1>4, <2>1, <2>2 DEF Sent
      <3>4. \A j \in DOMAIN u : u[j].kind = "credit" => u[j].gen # u[i].gen
        BY <2>2 DEF Sent
      <3>5. m.kind = "credit" => m.gen # u[i].gen
        BY <2>1, <2>2 DEF Sent
      <3> QED  BY <1>2, <1>3, <1>4, <2>1, <3>1, <3>2, <3>3, <3>4, <3>5
    <2> QED  BY <2>1, <2>2
  <1>6. m.kind = "attach" =>
          /\ \A g \in U : g < m.gen
          /\ m.gen = k => C = {}
          /\ \A j \in DOMAIN w : ~(j > Len(u) + 1)
          /\ \A j \in DOMAIN w : w[j].kind = "credit" => w[j].gen # m.gen
    <2> SUFFICES ASSUME m.kind = "attach"
                 PROVE  /\ \A g \in U : g < m.gen
                        /\ m.gen = k => C = {}
                        /\ \A j \in DOMAIN w : ~(j > Len(u) + 1)
                        /\ \A j \in DOMAIN w : w[j].kind = "credit" => w[j].gen # m.gen
      OBVIOUS
    <2>0. k > n /\ m.gen = k /\ C = {} /\ Newest(U, n)  OBVIOUS
    <2>1. \A g \in U : g < m.gen
      <3> SUFFICES ASSUME NEW g \in U PROVE g < m.gen
        OBVIOUS
      <3>1. g <= n /\ g \in Nat  BY <2>0 DEF Newest
      <3> QED  BY <2>0, <3>1
    <2>2. \A j \in DOMAIN u : u[j].gen <= n  BY DEF Sent
    <2>3. \A j \in DOMAIN w : w[j].kind = "credit" => w[j].gen # m.gen
      BY <1>2, <1>3, <1>4, <2>2
    <2>4. \A j \in DOMAIN w : ~(j > Len(u) + 1)  BY <1>1
    <2> QED  BY <2>1, <2>3, <2>4
  <1> QED  BY <1>2, <1>4, <1>5, <1>6 DEF Sent, w

LEMMA SentDetach ==
    ASSUME NEW u \in Seq(Messages), NEW U \in SUBSET Nat, NEW n \in Nat, NEW B,
           Sent(u, U, n, B), NEW m \in Messages, m.kind = "detach", m.gen = n
    PROVE  Sent(Append(u, m), U, n, B)
  <1>1. n <= n /\ m.gen <= n /\ m.kind # "attach" /\ m.kind # "credit"  OBVIOUS
  <1> QED  BY <1>1, SentMore

LEMMA SentCredit ==
    ASSUME NEW u \in Seq(Messages), NEW U \in SUBSET Nat, NEW n \in Nat, NEW B,
           Sent(u, U, n, B), NEW m \in Messages, m.kind = "credit", m.gen = n, B # {}
    PROVE  Sent(Append(u, m), U, n, B)
  <1>1. n <= n /\ m.gen <= n /\ m.kind # "attach"  OBVIOUS
  <1> QED  BY <1>1, SentMore

LEMMA SentAttach ==
    ASSUME NEW u \in Seq(Messages), NEW U \in SUBSET Nat, NEW n \in Nat, NEW B,
           Sent(u, U, n, B), Newest(U, n),
           NEW m \in Messages, m.kind = "attach", m.gen = n + 1
    PROVE  Sent(Append(u, m), U, n + 1, {})
  <1>1. n + 1 \in Nat /\ n <= n + 1 /\ n + 1 > n /\ m.gen <= n + 1 /\ m.kind # "credit"  OBVIOUS
  <1> QED  BY <1>1, SentMore

\* A frame is received for a generation the server knows: no attachment of it is on its way.
LEMMA SentAny ==
    ASSUME NEW u \in Seq(Messages), NEW U, NEW n \in U, NEW B, Sent(u, U, n, B), n \in Nat,
           NEW C
    PROVE  Sent(u, U, n, C)
  <1>1. \A i \in DOMAIN u : u[i].gen \in Nat  BY MessageGens
  <1>2. \A i \in DOMAIN u : u[i].gen <= n /\ (u[i].kind = "attach" => n < u[i].gen)
    BY DEF Sent
  <1>3. \A i \in DOMAIN u : u[i].kind # "attach"  BY <1>1, <1>2
  <1> QED  BY <1>2, <1>3 DEF Sent

LEMMA SentFewer ==
    ASSUME NEW u, NEW U, NEW n, NEW B, Sent(u, U, n, B), NEW C \in SUBSET B
    PROVE  Sent(u, U, n, C)
  BY DEF Sent
LEMMA InUseTyped ==
    ASSUME Typed
    PROVE  /\ InUse \in SUBSET Nat /\ pane.gen \in Nat /\ up \in Seq(Messages)
           /\ \A g \in Gens : g \in Nat /\ g # 0
  <1>1. TypesNow  BY TypedNow
  <1>2. MaxGens \in Nat  BY DeliveryAssumption
  <1>3. sub.gen \in Nat /\ seen.gen \in Nat /\ pane.gen \in Nat
    BY <1>1, <1>2 DEF TypesNow, Subs, Views, Panes
  <1>4. \A g \in Gens : g \in Nat /\ g # 0  BY <1>2 DEF Gens
  <1>5. \A e \in Contents(out) : e.gen \in Gens
    <2>1. \A e \in Contents(out) : e \in ItemsTo(head)
      BY <1>1, QueueTyped DEF TypesNow, OutputTyped
    <2> QED  BY <2>1 DEF ItemsTo
  <1> QED  BY <1>1, <1>3, <1>4, <1>5 DEF InUse, TypesNow

(* A step that uses no new generation, and one that serves an attachment.  *)
LEMMA FreshStays ==
    ASSUME Typed, Fresh, InUse' \subseteq InUse \cup {0}, pane' = pane, up' = up
    PROVE  Fresh'
  <1>1. InUse \in SUBSET Nat /\ pane.gen \in Nat /\ up \in Seq(Messages)
    BY InUseTyped
  <1>2. Newest(InUse', pane.gen)  BY <1>1 DEF Fresh, Newest
  <1>3. Sent(up, InUse', pane.gen, pane.inbox)  BY <1>1, SentWithin DEF Fresh
  <1> QED  BY <1>2, <1>3 DEF Fresh

LEMMA FreshReads ==
    ASSUME Typed, Fresh, NEW kind, Received(kind), pane' = pane,
           \/ InUse' \subseteq InUse \cup {0}
           \/ kind = "attach" /\ InUse' \subseteq InUse \cup {0, Head(up).gen}
    PROVE  Fresh'
  <1>1. InUse \in SUBSET Nat /\ pane.gen \in Nat /\ up \in Seq(Messages)
    BY InUseTyped
  <1>2. /\ Head(up) \in Messages /\ Head(up).kind = kind /\ up' = Tail(up)
        /\ Tail(up) \in Seq(Messages) /\ Head(up).gen \in Gens /\ up # <<>>
    BY ReceivedTyped DEF Received
  <1>3. Sent(up, InUse, pane.gen, pane.inbox) /\ Newest(InUse, pane.gen)  BY DEF Fresh
  <1>4. CASE InUse' \subseteq InUse \cup {0}
    <2>1. Sent(Tail(up), InUse, pane.gen, pane.inbox)
      BY <1>1, <1>2, <1>3, SentRead
    <2>2. Sent(Tail(up), InUse', pane.gen, pane.inbox)
      BY <1>1, <1>2, <1>4, <2>1, SentWithin
    <2>3. Newest(InUse', pane.gen)  BY <1>1, <1>3, <1>4 DEF Newest
    <2> QED  BY <1>2, <2>2, <2>3 DEF Fresh
  <1>5. CASE kind = "attach" /\ InUse' \subseteq InUse \cup {0, Head(up).gen}
    <2> DEFINE U == InUse \cup {Head(up).gen}
    <2>1. Sent(Tail(up), U, pane.gen, pane.inbox) /\ Newest(U, pane.gen)
      BY <1>1, <1>2, <1>3, <1>5, SentRead
    <2>2. InUse' \subseteq U \cup {0}  BY <1>5
    <2> HIDE DEF U
    <2>3. Sent(Tail(up), InUse', pane.gen, pane.inbox)
      BY <1>1, <1>2, <2>1, <2>2, SentWithin
    <2>4. Newest(InUse', pane.gen)  BY <1>1, <2>1, <2>2 DEF Newest
    <2> QED  BY <1>2, <2>3, <2>4 DEF Fresh
  <1> QED  BY <1>4, <1>5

(* The next state's generations.                                           *)
LEMMA InUseNext ==
    ASSUME NEW U, sub'.gen \in U, seen'.gen \in U,
           \A g \in Gens : drains'[g].at # "off" => g \in U,
           \A e \in Contents(out') : e.gen \in U
    PROVE  InUse' \subseteq U
  BY DEF InUse, Draining, Contents

LEMMA InUseNow ==
    /\ sub.gen \in InUse /\ seen.gen \in InUse
    /\ \A g \in Gens : drains[g].at # "off" => g \in InUse
    /\ \A e \in Contents(out) : e.gen \in InUse
  BY DEF InUse, Draining

LEMMA SinkGens ==
    ASSUME NEW h \in Nat, NEW q, OutputTyped(q, h), NEW items \in Seq(ItemsTo(h)),
           NEW U, \A e \in Contents(q) : e.gen \in U, \A e \in Range(items) : e.gen \in U
    PROVE  \A e \in Contents(Sink(q, items)) : e.gen \in U
  <1>1. Thinned(Full(q, items), Sink(q, items))  BY SinkThins DEF OutputTyped
  <1>2. Contents(Full(q, items)) = Contents(q) \cup Range(items)
    BY FullTyped DEF OutputTyped
  <1>3. \A e \in Contents(Full(q, items)) : e.gen \in U  BY <1>2
  <1>4. \A e \in Contents(Sink(q, items)) : \E d \in Contents(Full(q, items)) : d.gen = e.gen
    BY <1>1 DEF Thinned
  <1> QED  BY <1>3, <1>4

LEMMA DiscardGens ==
    ASSUME NEW h \in Nat, NEW q, OutputTyped(q, h)
    PROVE  Contents(Discard(q)) = Range(q.wire)
  <1>1. /\ Discard(q).lane = <<>> /\ Discard(q).spill = <<>> /\ Discard(q).wire = q.wire
    BY DiscardTyped
  <1>2. Range(<<>>) = {}  BY DEF Range
  <1> QED  BY <1>1, <1>2 DEF Contents

LEMMA HandleCases ==
    ASSUME Typed, NEW e \in ItemsTo(head), Handle(e)
    PROVE  \/ /\ up' = up /\ pane'.gen = pane.gen
              /\ pane'.inbox = pane.inbox \/ pane'.inbox = {}
           \/ /\ up' = up /\ pane'.gen = pane.gen
              /\ e.kind = "frame" /\ e.gen = pane.gen
              /\ pane'.inbox = pane.inbox \cup {e.from}
           \/ /\ pane.gen < MaxGens
              /\ pane' = BeginAttach(pane, pane.applied)
              /\ up' = Append(up, Message("attach", pane.gen + 1, pane.applied))
  <1>1. pane \in Panes  BY TypedNow DEF TypesNow
  <1>2. e.from \in Positions  BY DEF ItemsTo, Positions
  <1>3. CASE UNCHANGED <<pane, up>>  BY <1>3
  <1>4. CASE pane' = [pane EXCEPT !.exited = TRUE, !.inbox = {}] /\ UNCHANGED up
    BY <1>1, <1>4 DEF Panes
  <1>5. CASE /\ e.kind = "frame" /\ e.gen = pane.gen
             /\ pane' = [pane EXCEPT !.inbox = @ \cup {e.from}] /\ UNCHANGED up
    BY <1>1, <1>5 DEF Panes
  <1>6. CASE pane' = Pin(pane, e) /\ UNCHANGED up
    <2>1. pane' = [pane EXCEPT !.pin = Pin(pane, e).pin]
      BY <1>2, <1>6, PinTyped
    <2> QED  BY <1>1, <1>6, <2>1 DEF Panes
  <1>7. CASE pane' = [Pin(pane, e) EXCEPT !.gaveUp = TRUE] /\ UNCHANGED up
    <2>1. /\ Pin(pane, e) \in Panes
          /\ Pin(pane, e) = [pane EXCEPT !.pin = Pin(pane, e).pin]
      BY <1>2, PinTyped
    <2>2. Pin(pane, e).inbox = pane.inbox /\ Pin(pane, e).gen = pane.gen
      BY <1>1, <2>1 DEF Panes
    <2>3. pane'.inbox = pane.inbox /\ pane'.gen = pane.gen
      BY <1>7, <2>1, <2>2 DEF Panes
    <2> QED  BY <1>7, <2>3
  <1> QED  BY <1>3, <1>4, <1>5, <1>6, <1>7 DEF Handle

\* A step of the pane: what it does to its generation, its inbox and its messages.
PaneStep ==
    \/ /\ up' = up /\ pane'.gen = pane.gen /\ pane'.inbox \subseteq pane.inbox
    \/ /\ up' = up /\ pane'.gen = pane.gen /\ pane.gen \in InUse
    \/ \E credit \in Positions :
         /\ up' = Append(up, Message("credit", pane.gen, credit))
         /\ Message("credit", pane.gen, credit) \in Messages
         /\ pane'.gen = pane.gen /\ pane'.inbox \subseteq pane.inbox /\ pane.inbox # {}
    \/ \E since \in Positions :
         /\ up' = Append(up, Message("attach", pane.gen + 1, since))
         /\ Message("attach", pane.gen + 1, since) \in Messages
         /\ pane' = BeginAttach(pane, since)
    \/ /\ pane' = BeginAttach(pane, 0)
       /\ up' = up \o <<Message("detach", pane.gen, 0), Message("attach", pane.gen + 1, 0)>>
       /\ Message("detach", pane.gen, 0) \in Messages
       /\ Message("attach", pane.gen + 1, 0) \in Messages
    \/ /\ up' = Append(up, Message("detach", pane.gen, 0))
       /\ Message("detach", pane.gen, 0) \in Messages
       /\ pane'.gen = pane.gen /\ pane'.inbox = {}

LEMMA FreshPane ==
    ASSUME Typed, Fresh, InUse' \subseteq InUse \cup {0}, PaneStep
    PROVE  Fresh'
  <1>1. /\ InUse \in SUBSET Nat /\ pane.gen \in Nat /\ up \in Seq(Messages)
        /\ pane.gen + 1 \in Nat
    BY InUseTyped
  <1>2. Sent(up, InUse, pane.gen, pane.inbox) /\ Newest(InUse, pane.gen)  BY DEF Fresh
  <1>3. Newest(InUse', pane.gen) /\ Newest(InUse', pane.gen + 1)
    BY <1>1, <1>2 DEF Newest
  <1>4. ASSUME Sent(up', InUse, pane'.gen, pane'.inbox), up' \in Seq(Messages),
               pane'.gen \in {pane.gen, pane.gen + 1}
        PROVE  Fresh'
    <2>1. Sent(up', InUse', pane'.gen, pane'.inbox)
      BY <1>1, <1>4, SentWithin
    <2>2. Newest(InUse', pane'.gen)  BY <1>3, <1>4
    <2> QED  BY <2>1, <2>2 DEF Fresh
  <1>5. CASE up' = up /\ pane'.gen = pane.gen /\ pane'.inbox \subseteq pane.inbox
    BY <1>1, <1>2, <1>4, <1>5, SentFewer
  <1>6. CASE up' = up /\ pane'.gen = pane.gen /\ pane.gen \in InUse
    BY <1>1, <1>2, <1>4, <1>6, SentAny
  <1>7. ASSUME NEW credit \in Positions,
               up' = Append(up, Message("credit", pane.gen, credit)),
               Message("credit", pane.gen, credit) \in Messages,
               pane'.gen = pane.gen, pane'.inbox \subseteq pane.inbox, pane.inbox # {}
        PROVE  Fresh'
    <2> DEFINE m == Message("credit", pane.gen, credit)
    <2>1. m \in Messages /\ m.kind = "credit" /\ m.gen = pane.gen
      BY <1>7 DEF Message
    <2>2. up' = Append(up, m)  BY <1>7
    <2> HIDE DEF m
    <2>3. Sent(Append(up, m), InUse, pane.gen, pane.inbox)
      BY <1>1, <1>2, <1>7, <2>1, SentCredit
    <2>4. Sent(up', InUse, pane'.gen, pane'.inbox)
      BY <1>7, <2>2, <2>3, SentFewer
    <2>5. up' \in Seq(Messages)  BY <1>1, <2>1, <2>2
    <2> QED  BY <1>4, <1>7, <2>4, <2>5
  <1>8. ASSUME NEW since, NEW u \in Seq(Messages),
               Sent(u, InUse, pane.gen, pane.inbox),
               Message("attach", pane.gen + 1, since) \in Messages
        PROVE  /\ Append(u, Message("attach", pane.gen + 1, since)) \in Seq(Messages)
               /\ Sent(Append(u, Message("attach", pane.gen + 1, since)), InUse, pane.gen + 1, {})
    <2> DEFINE m == Message("attach", pane.gen + 1, since)
    <2>1. m \in Messages /\ m.kind = "attach" /\ m.gen = pane.gen + 1
      BY <1>8 DEF Message
    <2> HIDE DEF m
    <2>2. Append(u, m) \in Seq(Messages)  BY <1>8, <2>1
    <2>3. Sent(Append(u, m), InUse, pane.gen + 1, {})
      BY <1>1, <1>2, <1>8, <2>1, SentAttach
    <2> QED  BY <2>2, <2>3 DEF m
  <1>9. \A since : BeginAttach(pane, since).gen = pane.gen + 1
                   /\ BeginAttach(pane, since).inbox = {}
    BY DEF BeginAttach
  <1>10. ASSUME NEW since \in Positions,
                up' = Append(up, Message("attach", pane.gen + 1, since)),
                Message("attach", pane.gen + 1, since) \in Messages,
                pane' = BeginAttach(pane, since)
         PROVE  Fresh'
    BY <1>1, <1>2, <1>4, <1>8, <1>9, <1>10
  <1>11. ASSUME Message("detach", pane.gen, 0) \in Messages
         PROVE  /\ Append(up, Message("detach", pane.gen, 0)) \in Seq(Messages)
                /\ Sent(Append(up, Message("detach", pane.gen, 0)), InUse, pane.gen, pane.inbox)
    <2> DEFINE m == Message("detach", pane.gen, 0)
    <2>1. m \in Messages /\ m.kind = "detach" /\ m.gen = pane.gen
      BY <1>11 DEF Message
    <2> HIDE DEF m
    <2>2. Append(up, m) \in Seq(Messages)  BY <1>1, <2>1
    <2>3. Sent(Append(up, m), InUse, pane.gen, pane.inbox)
      BY <1>1, <1>2, <2>1, SentDetach
    <2> QED  BY <2>2, <2>3 DEF m
  <1>12. CASE /\ pane' = BeginAttach(pane, 0)
              /\ up' = up \o <<Message("detach", pane.gen, 0), Message("attach", pane.gen + 1, 0)>>
              /\ Message("detach", pane.gen, 0) \in Messages
              /\ Message("attach", pane.gen + 1, 0) \in Messages
    <2> DEFINE d == Message("detach", pane.gen, 0)
               a == Message("attach", pane.gen + 1, 0)
               u == Append(up, d)
    <2>1. u \in Seq(Messages) /\ Sent(u, InUse, pane.gen, pane.inbox)
      BY <1>11, <1>12
    <2>2. /\ Append(u, a) \in Seq(Messages)
          /\ Sent(Append(u, a), InUse, pane.gen + 1, {})
      <3> HIDE DEF u
      <3> QED  BY <1>8, <1>12, <2>1
    <2>3. d \in Messages /\ a \in Messages /\ up' = up \o <<d, a>>  BY <1>12
    <2> HIDE DEF d, a
    <2>4. Append(u, a) = up \o <<d, a>>  BY <1>1, <2>3
    <2> HIDE DEF u
    <2> QED  BY <1>4, <1>9, <1>12, <2>2, <2>3, <2>4
  <1>13. CASE /\ up' = Append(up, Message("detach", pane.gen, 0))
              /\ Message("detach", pane.gen, 0) \in Messages
              /\ pane'.gen = pane.gen /\ pane'.inbox = {}
    <2>1. Sent(Append(up, Message("detach", pane.gen, 0)), InUse, pane.gen, {})
      BY <1>11, <1>13, SentFewer
    <2> QED  BY <1>4, <1>11, <1>13, <2>1
  <1> QED  BY <1>5, <1>6, <1>7, <1>10, <1>12, <1>13 DEF PaneStep

LEMMA PaneStepBy ==
    ASSUME Typed, Consume \/ Reattach \/ Refresh \/ Leave
    PROVE  PaneStep /\ UNCHANGED <<head, alive, sub, session, pc, notified, drains, out, controls, seen>>
  <1>1. TypesNow  BY TypedNow
  <1>2. UNCHANGED <<head, alive, sub, session, pc, notified, drains, out, controls, seen>>
    BY DEF Consume, Reattach, Refresh, Leave
  <1>3. pane.applied \in Positions /\ 0 \in Positions /\ pane.gen \in 0 .. MaxGens
    BY <1>1, EmptyTyped DEF TypesNow, Panes
  <1>4. pane.open => Message("detach", pane.gen, 0) \in Messages
    BY <1>1, <1>3 DEF TypesNow, Message, Messages, Gens
  <1>5. CASE Consume
    <2>1. PICK n \in pane.inbox : ConsumesAt(n)
      BY <1>5 DEF Consume, ConsumesAt
    <2>2. pane.open  BY <1>5 DEF Consume
    <2>3. /\ pane'.gen = pane.gen /\ pane'.inbox \subseteq pane.inbox /\ pane.inbox # {}
          /\ \/ up' = up
             \/ \E c \in Positions :
                  /\ up' = Append(up, Message("credit", pane.gen, c))
                  /\ Message("credit", pane.gen, c) \in Messages
      BY <2>1, <2>2, Consumed
    <2> QED  BY <1>2, <2>3 DEF PaneStep
  <1>6. CASE Reattach
    <2>1. PICK since \in {0, pane.applied} :
             /\ pane' = BeginAttach(pane, since)
             /\ up' = Append(up, Message("attach", pane.gen + 1, since))
      BY <1>6 DEF Reattach
    <2>2. Message("attach", pane.gen + 1, since) \in Messages /\ since \in Positions
      BY <1>3, <1>6, <2>1, BeginTyped DEF Reattach
    <2> QED  BY <1>2, <2>1, <2>2 DEF PaneStep
  <1>7. CASE Refresh
    <2>1. Message("attach", pane.gen + 1, 0) \in Messages
      BY <1>3, <1>7, BeginTyped DEF Refresh
    <2> QED  BY <1>2, <1>4, <1>7, <2>1 DEF Refresh, PaneStep
  <1>8. CASE Leave
    <2>1. pane'.gen = pane.gen /\ pane'.inbox = {}
      BY <1>8 DEF Leave, NoPane
    <2> QED  BY <1>2, <1>4, <1>8, <2>1 DEF Leave, PaneStep
  <1> QED  BY <1>5, <1>6, <1>7, <1>8

LEMMA HandleStep ==
    ASSUME Typed, NEW e \in Contents(out), Handle(e)
    PROVE  PaneStep
  <1>1. e \in ItemsTo(head) /\ e.gen \in InUse
    <2>1. e \in ItemsTo(head)  BY OutTyped, QueueTyped DEF OutputTyped
    <2> QED  BY <2>1, InUseNow
  <1>2. pane.applied \in Positions  BY TypedNow DEF TypesNow, Panes
  <1>3. pane.gen < MaxGens => Message("attach", pane.gen + 1, pane.applied) \in Messages
    BY <1>2, BeginTyped
  <1> QED  BY <1>1, <1>2, <1>3, HandleCases DEF PaneStep

-----------------------------------------------------------------------------
(* Who serves an attachment.                                               *)

Served == Typed /\ Servers /\ Fresh

LEMMA ServersStay ==
    ASSUME Typed, Servers, UNCHANGED <<alive, sub, seen>>, session'.gen = session.gen,
           \A g \in Gens : drains'[g].at # "off" <=> drains[g].at # "off"
    PROVE  Servers'
  <1>1. /\ session.gen # 0 => session.gen \in Gens
        /\ sub.gen # 0 => sub.gen \in Gens
    BY TypedNow DEF TypesNow, Sessions, Subs, Gens
  <1>2. /\ session.gen # 0 => (Draining(session.gen)' <=> Draining(session.gen))
        /\ sub.gen # 0 => (Draining(sub.gen)' <=> Draining(sub.gen))
    BY <1>1 DEF Draining
  <1> QED  BY <1>2 DEF Servers

LEMMA SameInUse ==
    ASSUME Typed, UNCHANGED <<sub>>, seen'.gen = seen.gen,
           \A g \in Gens : drains'[g].at # "off" => drains[g].at # "off",
           \A e \in Contents(out') : e.gen \in InUse \cup {0}
    PROVE  InUse' \subseteq InUse \cup {0}
  <1> DEFINE U == InUse \cup {0}
  <1>1. /\ sub'.gen \in U /\ seen'.gen \in U
        /\ \A g \in Gens : drains'[g].at # "off" => g \in U
        /\ \A e \in Contents(out') : e.gen \in U
    BY InUseNow
  <1> HIDE DEF U
  <1>2. InUse' \subseteq U  BY <1>1, InUseNext
  <1> QED  BY <1>2 DEF U

\* What an admission puts on its way.
LEMMA AdmitGens ==
    ASSUME Typed, NEW items \in Seq(ItemsTo(head)), NEW U, InUse \subseteq U,
           \A e \in Range(items) : e.gen \in U
    PROVE  \A e \in Contents(Sink(out, items)) : e.gen \in U
  <1>1. \A e \in Contents(out) : e.gen \in U  BY InUseNow
  <1>2. head \in Nat /\ OutputTyped(out, head)  BY OutTyped
  <1> QED  BY <1>1, <1>2, SinkGens

LEMMA FrameGens ==
    ASSUME NEW h \in Nat, NEW gen \in Gens, NEW from \in 0 .. h, NEW to \in 0 .. h
    PROVE  \A e \in Range(Frames(gen, from, to)) : e.gen = gen /\ e.kind = "frame"
  <1>0. \A e : e \in Range(Frames(gen, from, to))
                <=> \E n \in (from + 1) .. to : e = Item("frame", gen, n, n)
    BY FramesTyped
  <1>1. \A e \in Range(Frames(gen, from, to)) :
           \E n \in (from + 1) .. to : e = Item("frame", gen, n, n)
    BY <1>0
  <1>2. \A n : Item("frame", gen, n, n).gen = gen /\ Item("frame", gen, n, n).kind = "frame"
    BY DEF Item
  <1> QED  BY <1>1, <1>2

LEMMA GapGens ==
    ASSUME NEW kind, NEW gen, NEW from, NEW to
    PROVE  \A e \in Range(Gap(kind, gen, from, to)) : e.gen = gen /\ e.kind = kind
  <1>1. CASE from <= to
    <2>1. Gap(kind, gen, from, to) = <<Item(kind, gen, from, to)>>  BY <1>1 DEF Gap
    <2>2. Range(<<Item(kind, gen, from, to)>>) = {Item(kind, gen, from, to)}  BY OneItem
    <2> QED  BY <2>1, <2>2 DEF Item
  <1>2. CASE ~(from <= to)
    <2>1. Gap(kind, gen, from, to) = <<>>  BY <1>2 DEF Gap
    <2> QED  BY <2>1 DEF Range
  <1> QED  BY <1>1, <1>2

LEMMA GapAdmitted ==
    ASSUME Typed, NEW kind \in {"retention", "residual"}, NEW gen \in Gens,
           NEW from \in Nat \ {0}, NEW to \in Positions
    PROVE  /\ Gap(kind, gen, from, to) \in Seq(ItemsTo(head))
           /\ \A e \in Range(Gap(kind, gen, from, to)) : e.gen = gen /\ e.kind = kind
  <1>1. gen \in 0 .. MaxGens /\ gen # 0  BY DEF Gens
  <1>2. Gap(kind, gen, from, to) \in Seq(ItemsTo(head))  BY <1>1, LossTyped
  <1> QED  BY <1>2, GapGens

LEMMA PageAdmitted ==
    ASSUME Typed, NEW gen \in Gens, NEW from \in Positions, NEW to \in Positions
    PROVE  /\ Frames(gen, from, to) \in Seq(ItemsTo(head))
           /\ \A e \in Range(Frames(gen, from, to)) : e.gen = gen /\ e.kind = "frame"
  <1>1. head \in Nat /\ from \in 0 .. head /\ to \in 0 .. head  BY OutTyped DEF Positions
  <1>2. Frames(gen, from, to) \in Seq(ItemsTo(head))  BY <1>1, FramesTyped
  <1>3. \A e \in Range(Frames(gen, from, to)) : e.gen = gen /\ e.kind = "frame"
    BY <1>1, FrameGens
  <1> QED  BY <1>2, <1>3

LEMMA ReplayAdmitted ==
    ASSUME Typed, NEW gen \in Gens, NEW from \in Positions, NEW to \in Positions
    PROVE  /\ Frames(gen, from, to) \o <<ExitItem(gen)>> \in Seq(ItemsTo(head))
           /\ \A e \in Range(Frames(gen, from, to) \o <<ExitItem(gen)>>) : e.gen = gen
           /\ Range(Frames(gen, from, to) \o <<ExitItem(gen)>>)
                = Range(Frames(gen, from, to)) \cup {ExitItem(gen)}
  <1> DEFINE s == Frames(gen, from, to)
             t == <<ExitItem(gen)>>
  <1>1. s \in Seq(ItemsTo(head)) /\ \A e \in Range(s) : e.gen = gen  BY PageAdmitted
  <1>2. /\ t \in Seq(ItemsTo(head)) /\ Range(t) = {ExitItem(gen)}
        /\ ExitItem(gen).gen = gen
    BY OutTyped, ExitItemTyped, OneItem
  <1> HIDE DEF s, t
  <1>3. s \o t \in Seq(ItemsTo(head))  BY <1>1, <1>2
  <1>4. Range(s \o t) = Range(s) \cup Range(t)  BY <1>1, <1>2, RangeOfJoined
  <1>5. \A e \in Range(s \o t) : e.gen = gen  BY <1>1, <1>2, <1>4
  <1>6. Range(s \o t) = Range(s) \cup {ExitItem(gen)}  BY <1>2, <1>4
  <1> QED  BY <1>3, <1>5, <1>6 DEF s, t

LEMMA ServedProduce ==
    ASSUME Served, Produce
    PROVE  Servers' /\ Fresh'
  <1>1. Typed /\ Servers /\ Fresh /\ TypesNow  BY TypedNow DEF Served
  <1>2. UNCHANGED <<alive, sub, session, pc, notified, drains, controls, up, pane, seen>>
    BY DEF Produce
  <1>3. Servers'  BY <1>1, <1>2, ServersStay
  <1>4. head \in Nat /\ head + 1 \in Nat  BY <1>1 DEF TypesNow
  <1>5. OutputTyped(out, head + 1)
    BY <1>1, <1>4, WiderItems DEF TypesNow, OutputTyped
  <1>6. \A e \in Contents(out') : e.gen \in InUse
    <2>1. CASE sub.gen # 0 /\ ~sub.deferred
      <3>1. sub.gen \in Gens  BY <1>1, <2>1 DEF TypesNow, Subs, Gens
      <3>2. head \in 0 .. head + 1 /\ head + 1 \in 0 .. head + 1  BY <1>4
      <3> DEFINE items == Frames(sub.gen, head, head + 1)
      <3>3. items \in Seq(ItemsTo(head + 1))
        BY <1>4, <3>1, <3>2, FramesTyped
      <3>4. \A e \in Range(items) : e.gen \in InUse
        BY <1>4, <3>1, <3>2, FrameGens, InUseNow
      <3>5. out' = Sink(out, items)  BY <2>1 DEF Produce
      <3> HIDE DEF items
      <3> QED  BY <1>4, <1>5, <3>3, <3>4, <3>5, InUseNow, SinkGens
    <2>2. CASE ~(sub.gen # 0 /\ ~sub.deferred)
      BY <2>2, InUseNow DEF Produce
    <2> QED  BY <2>1, <2>2
  <1>7. InUse' \subseteq InUse \cup {0}
    BY <1>1, <1>2, <1>6, SameInUse
  <1> QED  BY <1>1, <1>2, <1>3, <1>7, FreshStays

LEMMA ServedExit ==
    ASSUME Served, Exit
    PROVE  Servers' /\ Fresh'
  <1>1. Typed /\ Servers /\ Fresh /\ TypesNow  BY TypedNow DEF Served
  <1>2. alive /\ alive' = FALSE /\ UNCHANGED <<session, pc, drains, controls, up, pane>>
    BY DEF Exit
  <1>3. CASE sub.deferred
    <2>1. sub' = [sub EXCEPT !.staged = TRUE] /\ UNCHANGED <<out, seen>>
      BY <1>3 DEF Exit
    <2>2. sub'.gen = sub.gen /\ sub'.deferred = sub.deferred /\ sub'.staged = TRUE
      BY <1>1, <2>1 DEF TypesNow, Subs
    <2>3. Servers'
      BY <1>1, <1>2, <1>3, <2>1, <2>2 DEF Servers, Draining
    <2>4. InUse' \subseteq InUse \cup {0}
      BY <1>2, <2>1, <2>2 DEF InUse, Draining, Contents
    <2> QED  BY <1>1, <1>2, <2>3, <2>4, FreshStays
  <1>4. CASE ~sub.deferred
    <2>1. /\ sub' = NoSub /\ seen' = [seen EXCEPT !.ended = @ \/ sub.gen # 0]
          /\ out' = IF sub.gen # 0 THEN Sink(out, <<ExitItem(sub.gen)>>) ELSE out
      BY <1>4 DEF Exit
    <2>2. sub'.gen = 0 /\ ~sub'.deferred /\ ~sub'.staged  BY <2>1 DEF NoSub
    <2>3. /\ seen'.gen = seen.gen /\ seen'.open = seen.open
          /\ seen'.ended = (seen.ended \/ sub.gen # 0)
      BY <1>1, <2>1 DEF TypesNow, Views
    <2>4. session.gen = 0  BY <1>1, <1>4 DEF Servers
    <2>5. ~seen.open => seen' = NoView
      <3> SUFFICES ASSUME ~seen.open PROVE seen' = NoView
        OBVIOUS
      <3>1. seen = NoView /\ sub.gen = 0  BY <1>1 DEF Servers
      <3> QED  BY <2>1, <3>1 DEF NoView
    <2>6. Servers'
      BY <1>1, <1>2, <2>2, <2>3, <2>4, <2>5 DEF Servers
    <2>7. \A e \in Contents(out') : e.gen \in InUse
      <3>1. CASE sub.gen # 0
        <4>1. sub.gen \in Gens  BY <1>1, <3>1 DEF TypesNow, Subs, Gens
        <4>2. /\ <<ExitItem(sub.gen)>> \in Seq(ItemsTo(head))
              /\ \A e \in Range(<<ExitItem(sub.gen)>>) : e.gen = sub.gen
          BY <1>1, <4>1, ExitItemTyped, OneItem DEF TypesNow
        <4>3. \A e \in Range(<<ExitItem(sub.gen)>>) : e.gen \in InUse
          BY <4>2, InUseNow
        <4> QED  BY <1>1, <2>1, <3>1, <4>2, <4>3, AdmitGens
      <3>2. CASE sub.gen = 0  BY <2>1, <3>2, InUseNow
      <3> QED  BY <3>1, <3>2
    <2>8. InUse' \subseteq InUse \cup {0}
      <3> DEFINE U == InUse \cup {0}
      <3>1. /\ sub'.gen \in U /\ seen'.gen \in U
            /\ \A g \in Gens : drains'[g].at # "off" => g \in U
            /\ \A e \in Contents(out') : e.gen \in U
        BY <1>2, <2>2, <2>3, <2>7, InUseNow
      <3> HIDE DEF U
      <3>2. InUse' \subseteq U  BY <3>1, InUseNext
      <3> QED  BY <3>2 DEF U
    <2> QED  BY <1>1, <1>2, <2>6, <2>8, FreshStays
  <1> QED  BY <1>3, <1>4

\* The attachment read is newer than all the server knows.
LEMMA NewAttachment ==
    ASSUME Served, Received("attach")
    PROVE  /\ Head(up) \in Messages /\ Head(up).gen \in Gens /\ Head(up).seq \in Positions
           /\ Head(up).gen # 0 /\ Head(up).gen \in 0 .. MaxGens
           /\ \A g \in InUse : g < Head(up).gen
           /\ drains[Head(up).gen].at = "off"
           /\ \A e \in Contents(out) : e.gen # Head(up).gen
           /\ pc = "idle" /\ up' = Tail(up)
  <1>1. Typed /\ Fresh  BY DEF Served
  <1>2. /\ Head(up) \in Messages /\ Head(up).kind = "attach"
        /\ Head(up).gen \in Gens /\ Head(up).seq \in Positions
        /\ Head(up) = up[1] /\ Len(up) >= 1 /\ pc = "idle" /\ up' = Tail(up)
    BY <1>1, ReceivedTyped
  <1>3. 1 \in DOMAIN up  BY <1>1, <1>2, InUseTyped
  <1>4. \A g \in InUse : g < Head(up).gen
    BY <1>1, <1>2, <1>3 DEF Fresh, Sent
  <1>5. Head(up).gen \in Nat /\ Head(up).gen # 0 /\ Head(up).gen \in 0 .. MaxGens
        /\ Head(up).gen \notin InUse
    <2>1. Head(up).gen \in Nat  BY <1>2, DeliveryAssumption DEF Gens
    <2> QED  BY <1>2, <1>4, <2>1 DEF Gens
  <1> QED  BY <1>2, <1>4, <1>5, InUseNow

LEMMA AttachGens ==
    ASSUME Served, Received("attach"), sub'.gen \in {0, Head(up).gen},
           seen'.gen = Head(up).gen, drains' = drains, pane' = pane,
           NEW items \in Seq(ItemsTo(head)), out' = Sink(Discard(out), items),
           \A e \in Range(items) : e.gen = Head(up).gen
    PROVE  Fresh'
  <1>1. Typed /\ Fresh  BY DEF Served
  <1> DEFINE U == InUse \cup {0, Head(up).gen}
  <1>2. head \in Nat /\ OutputTyped(out, head)  BY <1>1, OutTyped
  <1>3. OutputTyped(Discard(out), head)  BY <1>2, DiscardTyped
  <1>4. \A e \in Contents(Discard(out)) : e.gen \in U
    <2>1. Contents(Discard(out)) \subseteq Contents(out)
      BY <1>2, DiscardGens DEF Contents
    <2> QED  BY <2>1, InUseNow
  <1>5. \A e \in Range(items) : e.gen \in U  OBVIOUS
  <1>6. sub'.gen \in U /\ seen'.gen \in U /\ \A g \in Gens : drains'[g].at # "off" => g \in U
    BY InUseNow
  <1> HIDE DEF U
  <1>7. \A e \in Contents(out') : e.gen \in U
    BY <1>2, <1>3, <1>4, <1>5, SinkGens
  <1>8. InUse' \subseteq U  BY <1>6, <1>7, InUseNext
  <1> QED  BY <1>1, <1>8, FreshReads DEF U

LEMMA ServedAttachRunning ==
    ASSUME Served, AttachRunning
    PROVE  Servers' /\ Fresh'
  <1>1. Typed /\ Servers /\ Fresh /\ TypesNow  BY TypedNow DEF Served
  <1>2. alive /\ UNCHANGED <<alive, notified, drains, pane>> /\ Received("attach") /\ pc' = "start"
    BY DEF AttachRunning
  <1> DEFINE m == Head(up)
  <1>3. /\ m \in Messages /\ m.gen \in Gens /\ m.seq \in Positions /\ m.gen # 0
        /\ m.gen \in 0 .. MaxGens /\ drains[m.gen].at = "off"
    BY <1>2, NewAttachment
  <1>4. Oldest - 1 \in Positions  BY <1>1, <1>3, BaseTyped
  <1> DEFINE items == Gap("retention", m.gen, m.seq + 1, Oldest - 1)
  <1>5. /\ sub' = [NoSub EXCEPT !.gen = m.gen, !.deferred = TRUE]
        /\ session'.gen = m.gen
        /\ out' = Sink(Discard(out), items)
        /\ seen' = [gen |-> m.gen, base |-> m.seq, got |-> {}, open |-> TRUE, ended |-> FALSE]
    BY DEF AttachRunning
  <1>6. sub'.gen = m.gen /\ sub'.deferred = TRUE /\ sub'.staged = FALSE
    BY <1>5 DEF NoSub
  <1>7. seen'.gen = m.gen /\ seen'.open = TRUE /\ seen'.ended = FALSE  BY <1>5
  <1>8. Servers'
    <2> HIDE DEF m
    <2> QED  BY <1>2, <1>3, <1>5, <1>6, <1>7 DEF Servers, Draining
  <1>9. items \in Seq(ItemsTo(head)) /\ \A e \in Range(items) : e.gen = m.gen
    <2>1. m.seq + 1 \in Nat \ {0}  BY <1>1, <1>3 DEF TypesNow, Positions
    <2> HIDE DEF m
    <2> QED  BY <1>1, <1>3, <1>4, <2>1, GapAdmitted
  <1> HIDE DEF items
  <1>10. Fresh'  BY <1>2, <1>5, <1>6, <1>7, <1>9, AttachGens
  <1> QED  BY <1>8, <1>10

LEMMA ServedAttachExited ==
    ASSUME Served, AttachExited
    PROVE  Servers' /\ Fresh'
  <1>1. Typed /\ Servers /\ Fresh /\ TypesNow  BY TypedNow DEF Served
  <1>2. /\ ~alive /\ UNCHANGED <<alive, pc, notified, drains, pane>> /\ Received("attach")
        /\ sub' = NoSub /\ session' = NoSession
    BY DEF AttachExited
  <1> DEFINE m == Head(up)
  <1>3. /\ m \in Messages /\ m.gen \in Gens /\ m.gen # 0 /\ m.gen \in 0 .. MaxGens
    BY <1>2, NewAttachment
  <1>4. Base(m) \in Positions  BY <1>1, <1>3, BaseTyped
  <1> DEFINE items == Frames(m.gen, Base(m), head) \o <<ExitItem(m.gen)>>
  <1>5. /\ out' = Sink(Discard(out), items)
        /\ seen' = [gen |-> m.gen, base |-> Base(m), got |-> {}, open |-> TRUE, ended |-> TRUE]
    BY DEF AttachExited, Base
  <1>6. sub'.gen = 0 /\ ~sub'.deferred /\ ~sub'.staged /\ session'.gen = 0
    BY <1>2 DEF NoSub, NoSession
  <1>7. seen'.gen = m.gen /\ seen'.open = TRUE /\ seen'.ended = TRUE  BY <1>5
  <1>8. Servers'
    BY <1>2, <1>3, <1>6, <1>7 DEF Servers
  <1>9. items \in Seq(ItemsTo(head)) /\ \A e \in Range(items) : e.gen = m.gen
    <2>1. head \in Positions  BY <1>1, EmptyTyped
    <2> HIDE DEF m
    <2> QED  BY <1>1, <1>3, <1>4, <2>1, ReplayAdmitted
  <1> HIDE DEF items
  <1>10. Fresh'  BY <1>2, <1>5, <1>6, <1>7, <1>9, AttachGens
  <1> QED  BY <1>8, <1>10

LEMMA ServedDetachPane ==
    ASSUME Served, DetachPane
    PROVE  Servers' /\ Fresh'
  <1>1. Typed /\ Servers /\ Fresh  BY DEF Served
  <1>2. /\ UNCHANGED <<alive, pc, notified, drains, out, controls, pane>> /\ Received("detach")
        /\ sub' = NoSub /\ session' = NoSession /\ seen' = NoView
    BY DEF DetachPane
  <1>3. sub'.gen = 0 /\ ~sub'.deferred /\ ~sub'.staged /\ session'.gen = 0
        /\ seen'.gen = 0 /\ ~seen'.open /\ ~seen'.ended
    BY <1>2 DEF NoSub, NoSession, NoView
  <1>4. Servers'  BY <1>2, <1>3 DEF Servers, NoView
  <1>5. InUse' \subseteq InUse \cup {0}
    BY <1>2, <1>3 DEF InUse, Draining, Contents
  <1> QED  BY <1>1, <1>2, <1>4, <1>5, FreshReads

\* An admission of items of generations already in use.
LEMMA AdmitsKnown ==
    ASSUME Typed, NEW items \in Seq(ItemsTo(head)), out' = Sink(out, items),
           \A e \in Range(items) : e.gen \in InUse
    PROVE  \A e \in Contents(out') : e.gen \in InUse \cup {0}
  <1>1. InUse \subseteq InUse \cup {0} /\ \A e \in Range(items) : e.gen \in InUse \cup {0}
    OBVIOUS
  <1> DEFINE U == InUse \cup {0}
  <1> HIDE DEF U
  <1>2. \A e \in Contents(Sink(out, items)) : e.gen \in U
    BY <1>1, AdmitGens DEF U
  <1> QED  BY <1>2 DEF U

LEMMA ServedDispatch ==
    ASSUME Served, StartSession \/ Drive \/ SettleStays \/ SettleGuards
    PROVE  Servers' /\ Fresh'
  <1>1. Typed /\ Servers /\ Fresh /\ TypesNow  BY TypedNow DEF Served
  <1>2. UNCHANGED <<head, alive, sub, drains, controls, up, pane, seen>> /\ pc # "idle"
    BY DEF StartSession, Drive, SettleStays, SettleGuards
  <1>3. session \in Sessions /\ session.gen # 0 /\ session.gen \in Gens /\ sub.gen = session.gen
    BY <1>1, <1>2 DEF TypesNow, Sessions, Gens, Servers
  <1>4. session'.gen = session.gen
    <2>1. CASE StartSession \/ SettleStays \/ SettleGuards
      BY <1>1, <1>3, <2>1, ArmKeeps DEF StartSession, SettleStays, SettleGuards
    <2>2. CASE Drive
      <3>1. \/ session' = session
            \/ session' = [session EXCEPT !.pageEnd = Oldest - 1]
            \/ session' = [session EXCEPT !.pageEnd = PageEnd(session.pageEnd, PhaseTarget(session))]
        BY <2>2 DEF Drive
      <3> QED  BY <1>3, <3>1 DEF Sessions
    <2> QED  BY <2>1, <2>2
  <1>5. Servers'  BY <1>1, <1>2, <1>4, ServersStay
  <1>6. session.credited \in Positions /\ session.pageEnd \in Positions
        /\ PageEnd(session.pageEnd, PhaseTarget(session)) \in Positions
    BY <1>1, <1>3, NextPage DEF Sessions
  <1>7. session.gen \in InUse  BY <1>3, InUseNow
  <1>8. \A e \in Contents(out') : e.gen \in InUse \cup {0}
    <2>1. CASE out' = out  BY <2>1, InUseNow
    <2>2. ASSUME NEW from \in Positions, NEW to \in Positions,
                 out' = Sink(out, Frames(session.gen, from, to))
          PROVE  \A e \in Contents(out') : e.gen \in InUse \cup {0}
      BY <1>1, <1>3, <1>7, <2>2, PageAdmitted, AdmitsKnown
    <2>3. CASE out' = Sink(out, Gap("retention", session.gen, session.pageEnd + 1, Oldest - 1))
      <3>1. session.pageEnd + 1 \in Nat \ {0} /\ Oldest - 1 \in Positions
        BY <1>1, <1>6, OldestBounds DEF TypesNow, Positions
      <3>2. /\ Gap("retention", session.gen, session.pageEnd + 1, Oldest - 1) \in Seq(ItemsTo(head))
            /\ \A e \in Range(Gap("retention", session.gen, session.pageEnd + 1, Oldest - 1)) :
                  e.gen = session.gen
        BY <1>1, <1>3, <3>1, GapAdmitted
      <3> QED  BY <1>1, <1>7, <2>3, <3>2, AdmitsKnown
    <2>4. CASE StartSession
      BY <1>6, <2>2, <2>4 DEF StartSession
    <2>5. CASE Drive
      BY <1>6, <2>1, <2>2, <2>3, <2>5 DEF Drive
    <2>6. CASE SettleStays \/ SettleGuards
      BY <2>1, <2>6 DEF SettleStays, SettleGuards
    <2> QED  BY <2>4, <2>5, <2>6
  <1>9. InUse' \subseteq InUse \cup {0}
    BY <1>1, <1>2, <1>8, SameInUse
  <1> QED  BY <1>1, <1>2, <1>5, <1>9, FreshStays

LEMMA ServedCredit ==
    ASSUME Served, Credit
    PROVE  Servers' /\ Fresh'
  <1>1. Typed /\ Servers /\ Fresh /\ TypesNow  BY TypedNow DEF Served
  <1>2. /\ UNCHANGED <<alive, sub, notified, drains, out, controls, pane, seen>>
        /\ Received("credit")
    BY DEF Credit
  <1>3. session'.gen = session.gen
    <2> DEFINE s == [session EXCEPT !.credited = Head(up).seq]
    <2>1. session' = session \/ session' = Arm(s)  BY DEF Credit
    <2>2. Head(up).seq \in Positions  BY <1>1, <1>2, ReceivedTyped
    <2>3. s \in Sessions /\ s.gen = session.gen  BY <1>1, <2>2 DEF TypesNow, Sessions
    <2> HIDE DEF s
    <2> QED  BY <1>1, <2>1, <2>3, ArmKeeps
  <1>4. Servers'  BY <1>1, <1>2, <1>3, ServersStay
  <1>5. InUse' \subseteq InUse \cup {0}
    BY <1>2 DEF InUse, Draining, Contents
  <1> QED  BY <1>1, <1>2, <1>4, <1>5, FreshReads

LEMMA ServedNotifyArm ==
    ASSUME Served, NotifyArm
    PROVE  Servers' /\ Fresh'
  <1>1. Typed /\ Servers /\ Fresh /\ TypesNow  BY TypedNow DEF Served
  <1>2. /\ UNCHANGED <<alive, sub, pc, drains, out, controls, up, pane, seen>>
        /\ session' = Arm(session)
    BY DEF NotifyArm
  <1>3. session'.gen = session.gen  BY <1>1, <1>2, ArmKeeps DEF TypesNow
  <1>4. Servers'  BY <1>1, <1>2, <1>3, ServersStay
  <1>5. InUse' \subseteq InUse \cup {0}
    BY <1>2 DEF InUse, Draining, Contents
  <1> QED  BY <1>1, <1>2, <1>4, <1>5, FreshStays

LEMMA ServedSettleTransfers ==
    ASSUME Served, SettleTransfers
    PROVE  Servers' /\ Fresh'
  <1>1. Typed /\ Servers /\ Fresh /\ TypesNow  BY TypedNow DEF Served
  <1>2. /\ UNCHANGED <<alive, sub, notified, out, controls, up, pane, seen>>
        /\ pc \in {"active", "covered"} /\ session' = NoSession
    BY DEF SettleTransfers
  <1>3. session.gen # 0 /\ session.gen \in Gens /\ sub.gen = session.gen /\ sub.deferred
    BY <1>1, <1>2 DEF TypesNow, Sessions, Gens, Servers
  <1>4. /\ \A g \in Gens \ {session.gen} : drains'[g] = drains[g]
        /\ drains'[session.gen].at = "start"
    BY <1>1, <1>3 DEF SettleTransfers, TypesNow, NoDrain
  <1>5. session'.gen = 0  BY <1>2 DEF NoSession
  <1>6. Servers'
    BY <1>1, <1>2, <1>3, <1>4, <1>5 DEF Servers, Draining
  <1>7. InUse' \subseteq InUse \cup {0}
    <2>1. Contents(out') = Contents(out)  BY <1>2
    <2>2. \A g \in Gens : drains'[g].at # "off" => g \in InUse
      BY <1>3, <1>4, InUseNow
    <2>3. sub'.gen \in InUse /\ seen'.gen \in InUse /\ \A e \in Contents(out') : e.gen \in InUse
      BY <1>2, <2>1, InUseNow
    <2> DEFINE U == InUse
    <2>4. /\ sub'.gen \in U /\ seen'.gen \in U /\ \A e \in Contents(out') : e.gen \in U
          /\ \A g \in Gens : drains'[g].at # "off" => g \in U
      BY <2>2, <2>3
    <2> HIDE DEF U
    <2>5. InUse' \subseteq U  BY <2>4, InUseNext
    <2> QED  BY <2>5 DEF U
  <1> QED  BY <1>1, <1>2, <1>6, <1>7, FreshStays

LEMMA ServedDrainTurns ==
    ASSUME Served, NEW g \in Gens, DrainStart(g) \/ Reserve(g) \/ DrainGone(g)
    PROVE  Servers' /\ Fresh'
  <1>1. Typed /\ Servers /\ Fresh /\ TypesNow  BY TypedNow DEF Served
  <1>2. UNCHANGED <<alive, sub, session, pc, notified, out, controls, up, pane, seen>>
    BY DEF DrainStart, Reserve, DrainGone
  <1>3. \A k \in Gens \ {g} : drains'[k] = drains[k]
    BY <1>1 DEF DrainStart, Reserve, DrainGone, TypesNow
  <1>4. drains[g].at # "off" /\ (drains'[g].at # "off" \/ sub.gen # g)
    BY <1>1 DEF DrainStart, Reserve, DrainGone, TypesNow, DrainTasks
  <1>5. session.gen # 0 => session.gen # g
    BY <1>1, <1>4 DEF Servers, Draining
  <1>6. sub.gen # 0 => sub.gen \in Gens
    BY <1>1 DEF TypesNow, Subs, Gens
  <1>7. /\ session.gen # 0 => (Draining(session.gen)' => Draining(session.gen))
        /\ sub.gen # 0 => (Draining(sub.gen)' <=> Draining(sub.gen))
    <2>1. session.gen # 0 => session.gen \in Gens  BY <1>1 DEF TypesNow, Sessions, Gens
    <2> QED  BY <1>2, <1>3, <1>4, <1>5, <1>6, <2>1 DEF Draining
  <1>8. Servers'  BY <1>1, <1>2, <1>7 DEF Servers
  <1>9. InUse' \subseteq InUse \cup {0}
    <2>1. \A k \in Gens : drains'[k].at # "off" => drains[k].at # "off"
      BY <1>3, <1>4
    <2> QED  BY <1>1, <1>2, <2>1, InUseNow, SameInUse
  <1> QED  BY <1>1, <1>2, <1>8, <1>9, FreshStays

LEMMA ServedDrainSinksGap ==
    ASSUME Served, NEW g \in Gens, DrainSinksGap(g)
    PROVE  Servers' /\ Fresh'
  <1>1. Typed /\ Servers /\ Fresh /\ TypesNow  BY TypedNow DEF Served
  <1>2. UNCHANGED <<head, alive, sub, session, pc, notified, controls, up, pane, seen>>
    BY DEF DrainSinksGap
  <1>3. /\ drains[g].at = "gap" /\ drains'[g].at = "wait"
        /\ \A k \in Gens \ {g} : drains'[k] = drains[k]
        /\ drains[g].cursor \in Positions /\ drains[g].lostTo \in Positions
    BY <1>1 DEF DrainSinksGap, TypesNow, DrainTasks
  <1>4. \A k \in Gens : drains'[k].at # "off" <=> drains[k].at # "off"  BY <1>3
  <1>5. Servers'  BY <1>1, <1>2, <1>4, ServersStay
  <1> DEFINE items == Gap("retention", g, drains[g].cursor + 1, drains[g].lostTo)
  <1>6. items \in Seq(ItemsTo(head)) /\ \A e \in Range(items) : e.gen = g
    <2>1. drains[g].cursor + 1 \in Nat \ {0}  BY <1>1, <1>3 DEF TypesNow, Positions
    <2> DEFINE from == drains[g].cursor + 1
               to == drains[g].lostTo
    <2>2. from \in Nat \ {0} /\ to \in Positions  BY <1>3, <2>1
    <2> HIDE DEF from, to
    <2>3. /\ Gap("retention", g, from, to) \in Seq(ItemsTo(head))
          /\ \A e \in Range(Gap("retention", g, from, to)) : e.gen = g
      BY <1>1, <2>2, GapAdmitted
    <2> QED  BY <2>3 DEF from, to
  <1>7. g \in InUse  BY <1>3, InUseNow
  <1>8. out' = Sink(out, items)  BY DEF DrainSinksGap
  <1> HIDE DEF items
  <1>9. \A e \in Contents(out') : e.gen \in InUse \cup {0}
    BY <1>1, <1>6, <1>7, <1>8, AdmitsKnown
  <1>10. InUse' \subseteq InUse \cup {0}
    BY <1>1, <1>2, <1>4, <1>9, SameInUse
  <1> QED  BY <1>1, <1>2, <1>5, <1>10, FreshStays

\* The completing hold of a drain, whatever it sends last.
LEMMA ServedCompletes ==
    ASSUME Served, NEW g \in Gens, drains[g].at = "read", sub.gen = g,
           NEW items \in Seq(ItemsTo(head)), \A e \in Range(items) : e.gen = g,
           Completes(g, items),
           UNCHANGED <<head, alive, session, pc, notified, controls, up, pane>>
    PROVE  Servers' /\ Fresh'
  <1>1. Typed /\ Servers /\ Fresh /\ TypesNow  BY TypedNow DEF Served
  <1>2. /\ drains'[g].at = "off" /\ \A k \in Gens \ {g} : drains'[k] = drains[k]
        /\ sub' = IF sub.staged THEN NoSub ELSE [sub EXCEPT !.deferred = FALSE, !.boundary = 0]
        /\ seen' = [seen EXCEPT !.ended = sub.staged]
    BY <1>1 DEF Completes, TypesNow, NoDrain
  <1>3. session.gen = 0 /\ g # 0
    BY <1>1, InUseTyped DEF Servers, Draining
  <1>4. /\ seen'.gen = seen.gen /\ seen'.open = seen.open /\ seen'.ended = sub.staged
        /\ seen.gen = g /\ seen.open /\ (sub.staged <=> ~alive)
    BY <1>1, <1>2, <1>3 DEF TypesNow, Views, Servers
  <1>5. Servers'
    <2>1. CASE sub.staged
      <3>1. sub'.gen = 0 /\ ~sub'.deferred /\ ~sub'.staged  BY <1>2, <2>1 DEF NoSub
      <3> QED  BY <1>3, <1>4, <2>1, <3>1 DEF Servers
    <2>2. CASE ~sub.staged
      <3>1. sub'.gen = g /\ sub'.deferred = FALSE /\ sub'.staged = sub.staged
        BY <1>1, <1>2, <2>2 DEF TypesNow, Subs
      <3> QED  BY <1>2, <1>3, <1>4, <2>2, <3>1 DEF Servers, Draining
    <2> QED  BY <2>1, <2>2
  <1> DEFINE U == InUse \cup {0}
  <1>6. sub'.gen \in U /\ seen'.gen \in U /\ \A k \in Gens : drains'[k].at # "off" => k \in U
    <2>1. sub'.gen \in {0, sub.gen}
      BY <1>1, <1>2 DEF NoSub, TypesNow, Subs
    <2> QED  BY <1>2, <1>4, <2>1, InUseNow
  <1>7. \A e \in Contents(out') : e.gen \in U
    <2>1. ASSUME NEW all \in Seq(ItemsTo(head)), out' = Sink(out, all),
                 \A e \in Range(all) : e.gen = g
          PROVE  \A e \in Contents(out') : e.gen \in U
      BY <1>1, <2>1, InUseNow, AdmitsKnown
    <2>2. /\ Append(items, ExitItem(g)) \in Seq(ItemsTo(head))
          /\ \A e \in Range(Append(items, ExitItem(g))) : e.gen = g
      BY OutTyped, <1>1, ExitItemTyped, RangeOfAppended
    <2>3. out' = Sink(out, IF sub.staged THEN Append(items, ExitItem(g)) ELSE items)
      BY DEF Completes
    <2> HIDE DEF U
    <2> QED  BY <2>1, <2>2, <2>3
  <1> HIDE DEF U
  <1>8. InUse' \subseteq U  BY <1>6, <1>7, InUseNext
  <1> QED  BY <1>1, <1>5, <1>8, FreshStays DEF U

LEMMA ServedDrainsOn ==
    ASSUME Served, NEW g \in Gens, drains[g].at = "read", sub.gen = g,
           NEW end \in Positions, NEW covered \in BOOLEAN, DrainsOn(g, end, covered),
           UNCHANGED <<head, alive, session, pc, notified, controls, up, pane>>
    PROVE  Servers' /\ Fresh'
  <1>1. Typed /\ Servers /\ Fresh /\ TypesNow  BY TypedNow DEF Served
  <1>2. /\ drains'[g].at = "wait" /\ \A k \in Gens \ {g} : drains'[k] = drains[k]
        /\ seen' = seen
    BY <1>1 DEF DrainsOn, TypesNow, DrainTasks
  <1>3. sub'.gen = sub.gen /\ sub'.deferred = sub.deferred /\ sub'.staged = sub.staged
    BY <1>1 DEF DrainsOn, TypesNow, Subs
  <1>4. \A k \in Gens : drains'[k].at # "off" <=> drains[k].at # "off"  BY <1>2
  <1>5. Servers'
    <2>1. /\ session.gen # 0 => session.gen \in Gens
          /\ sub.gen # 0 => sub.gen \in Gens
      BY <1>1 DEF TypesNow, Sessions, Subs, Gens
    <2>2. /\ session.gen # 0 => (Draining(session.gen)' <=> Draining(session.gen))
          /\ sub.gen # 0 => (drains'[sub.gen].at # "off" <=> Draining(sub.gen))
      BY <1>4, <2>1 DEF Draining
    <2> QED  BY <1>1, <1>2, <1>3, <2>2 DEF Servers, Draining
  <1> DEFINE items == Frames(g, drains[g].cursor, end)
  <1>6. items \in Seq(ItemsTo(head)) /\ \A e \in Range(items) : e.gen = g
    BY <1>1, DrainPageTyped, PageAdmitted
  <1>7. out' = Sink(out, items)  BY DEF DrainsOn
  <1> HIDE DEF items
  <1>8. \A e \in Contents(out') : e.gen \in InUse \cup {0}
    BY <1>1, <1>6, <1>7, InUseNow, AdmitsKnown
  <1> DEFINE U == InUse \cup {0}
  <1>9. /\ sub'.gen \in U /\ seen'.gen \in U /\ \A k \in Gens : drains'[k].at # "off" => k \in U
        /\ \A e \in Contents(out') : e.gen \in U
    BY <1>2, <1>3, <1>4, <1>8, InUseNow
  <1> HIDE DEF U
  <1>10. InUse' \subseteq U  BY <1>9, InUseNext
  <1> QED  BY <1>1, <1>5, <1>10, FreshStays DEF U

LEMMA HandoffGens ==
    ASSUME Typed, NEW g \in Gens, NEW from \in Positions, NEW end \in Positions
    PROVE  /\ \A e \in Range(Gap("retention", g, from + 1, Oldest - 1)
                               \o Gap("residual", g, Oldest, head)) : e.gen = g
           /\ \A e \in Range(Frames(g, from, end) \o Gap("residual", g, end + 1, head)) :
                e.gen = g
  <1>1. head \in Nat /\ head \in Positions  BY OutTyped, EmptyTyped
  <1>2. Oldest \in Nat \ {0} /\ Oldest - 1 \in Positions
    BY <1>1, OldestBounds DEF Positions
  <1>3. from + 1 \in Nat \ {0} /\ end + 1 \in Nat \ {0}  BY <1>1 DEF Positions
  <1> DEFINE a == Gap("retention", g, from + 1, Oldest - 1)
             b == Gap("residual", g, Oldest, head)
             c == Frames(g, from, end)
             d == Gap("residual", g, end + 1, head)
  <1>4. a \in Seq(ItemsTo(head)) /\ \A e \in Range(a) : e.gen = g
    BY <1>2, <1>3, GapAdmitted
  <1>5. b \in Seq(ItemsTo(head)) /\ \A e \in Range(b) : e.gen = g
    BY <1>1, <1>2, GapAdmitted
  <1>6. c \in Seq(ItemsTo(head)) /\ \A e \in Range(c) : e.gen = g
    BY PageAdmitted
  <1>7. d \in Seq(ItemsTo(head)) /\ \A e \in Range(d) : e.gen = g
    BY <1>1, <1>3, GapAdmitted
  <1> HIDE DEF a, b, c, d
  <1>8. Range(a \o b) = Range(a) \cup Range(b) /\ Range(c \o d) = Range(c) \cup Range(d)
    BY <1>4, <1>5, <1>6, <1>7, RangeOfJoined
  <1>9. \A e \in Range(a \o b) : e.gen = g  BY <1>4, <1>5, <1>8
  <1>10. \A e \in Range(c \o d) : e.gen = g  BY <1>6, <1>7, <1>8
  <1> QED  BY <1>9, <1>10 DEF a, b, c, d

LEMMA ServedDrainPages ==
    ASSUME Served, NEW g \in Gens, DrainPages(g)
    PROVE  Servers' /\ Fresh'
  <1>1. Typed /\ Servers /\ Fresh /\ TypesNow  BY TypedNow DEF Served
  <1>2. /\ UNCHANGED <<head, alive, session, pc, notified, controls, up, pane>>
        /\ drains[g].at = "read" /\ sub.gen = g
    BY DEF DrainPages
  <1> DEFINE from == drains[g].cursor
             end == PageEnd(from, drains[g].target)
  <1>3. from \in Positions /\ end \in Positions
    BY <1>1, DrainPageTyped
  <1>4. Frames(g, from, end) \in Seq(ItemsTo(head))
        /\ \A e \in Range(Frames(g, from, end)) : e.gen = g
    BY <1>1, <1>3, PageAdmitted
  <1>5. <<>> \in Seq(ItemsTo(head)) /\ Range(<<>>) = {}  BY DEF Range
  <1>6. \/ Completes(g, <<>>)
        \/ /\ drains' = [drains EXCEPT ![g] = [drains[g] EXCEPT !.at = "gap", !.lostTo = Oldest - 1]]
           /\ UNCHANGED <<sub, out, seen>>
        \/ Completes(g, Frames(g, from, end))
        \/ DrainsOn(g, end, end >= drains[g].target)
    BY <1>1 DEF DrainPages, TypesNow
  <1>7. (end >= drains[g].target) \in BOOLEAN  OBVIOUS
  <1> HIDE DEF from, end
  <1>8. CASE Completes(g, <<>>)
    <2>1. \A e \in Range(<<>>) : e.gen = g  BY <1>5
    <2> QED  BY <1>2, <1>5, <1>8, <2>1, ServedCompletes
  <1>9. CASE /\ drains' = [drains EXCEPT ![g] = [drains[g] EXCEPT !.at = "gap", !.lostTo = Oldest - 1]]
             /\ UNCHANGED <<sub, out, seen>>
    <2>1. \A k \in Gens : drains'[k].at # "off" <=> drains[k].at # "off"
      BY <1>1, <1>2, <1>9 DEF TypesNow, DrainTasks
    <2>2. Servers'  BY <1>1, <1>2, <1>9, <2>1, ServersStay
    <2>3. \A e \in Contents(out') : e.gen \in InUse \cup {0}  BY <1>9, InUseNow
    <2>4. InUse' \subseteq InUse \cup {0}  BY <1>1, <1>9, <2>1, <2>3, SameInUse
    <2> QED  BY <1>1, <1>2, <2>2, <2>4, FreshStays
  <1>10. CASE Completes(g, Frames(g, from, end))
    BY <1>2, <1>4, <1>10, ServedCompletes
  <1>11. CASE DrainsOn(g, end, end >= drains[g].target)
    BY <1>2, <1>3, <1>7, <1>11, ServedDrainsOn
  <1> QED  BY <1>6, <1>8, <1>9, <1>10, <1>11

LEMMA ServedDrainHandsOff ==
    ASSUME Served, NEW g \in Gens, DrainHandsOff(g)
    PROVE  Servers' /\ Fresh'
  <1>1. Typed  BY DEF Served
  <1>2. /\ UNCHANGED <<head, alive, session, pc, notified, controls, up, pane>>
        /\ drains[g].at = "read" /\ sub.gen = g
    BY DEF DrainHandsOff
  <1> DEFINE from == drains[g].cursor
             end == PageEnd(from, sub.boundary)
  <1>3. from \in Positions /\ end \in Positions
    BY <1>1, DrainPageTyped
  <1>4. \/ Completes(g, Gap("retention", g, from + 1, Oldest - 1) \o Gap("residual", g, Oldest, head))
        \/ Completes(g, Frames(g, from, end) \o Gap("residual", g, end + 1, head))
        \/ DrainsOn(g, end, FALSE)
    BY DEF DrainHandsOff
  <1> HIDE DEF from, end
  <1>5. CASE Completes(g, Gap("retention", g, from + 1, Oldest - 1) \o Gap("residual", g, Oldest, head))
    <2> DEFINE items == Gap("retention", g, from + 1, Oldest - 1) \o Gap("residual", g, Oldest, head)
    <2>1. items \in Seq(ItemsTo(head))  BY <1>1, <1>3, HandoffTyped
    <2>2. \A e \in Range(items) : e.gen = g  BY <1>1, <1>3, HandoffGens
    <2>3. Completes(g, items)  BY <1>5
    <2> HIDE DEF items
    <2> QED  BY <1>2, <2>1, <2>2, <2>3, ServedCompletes
  <1>6. CASE Completes(g, Frames(g, from, end) \o Gap("residual", g, end + 1, head))
    <2> DEFINE items == Frames(g, from, end) \o Gap("residual", g, end + 1, head)
    <2>1. items \in Seq(ItemsTo(head))  BY <1>1, <1>3, HandoffTyped
    <2>2. \A e \in Range(items) : e.gen = g  BY <1>1, <1>3, HandoffGens
    <2>3. Completes(g, items)  BY <1>6
    <2> HIDE DEF items
    <2> QED  BY <1>2, <2>1, <2>2, <2>3, ServedCompletes
  <1>7. CASE DrainsOn(g, end, FALSE)
    BY <1>2, <1>3, <1>7, ServedDrainsOn
  <1> QED  BY <1>4, <1>5, <1>6, <1>7

LEMMA ServedPump ==
    ASSUME Served, Pump
    PROVE  Servers' /\ Fresh'
  <1>1. Typed /\ Servers /\ Fresh /\ TypesNow  BY TypedNow DEF Served
  <1>2. CASE SendControl
    <2>1. /\ UNCHANGED <<alive, sub, session, drains, out, up, seen>>
          /\ pane'.gen = pane.gen /\ pane'.inbox = pane.inbox
      BY <1>1, <1>2 DEF SendControl, TypesNow, Panes
    <2>2. Servers'  BY <1>1, <2>1, ServersStay
    <2>3. InUse' \subseteq InUse \cup {0}  BY <2>1 DEF InUse, Draining, Contents
    <2>4. PaneStep  BY <2>1 DEF PaneStep
    <2> QED  BY <1>1, <2>2, <2>3, <2>4, FreshPane
  <1>3. CASE Lease
    <2>1. /\ UNCHANGED <<head, alive, sub, session, pc, notified, drains, controls, up, pane, seen>>
          /\ Contents(out') = Contents(out)
      BY <1>1, <1>3, Leased
    <2>2. Servers'  BY <1>1, <2>1, ServersStay
    <2>3. InUse' \subseteq InUse \cup {0}  BY <1>1, <2>1, InUseNow, SameInUse
    <2> QED  BY <1>1, <2>1, <2>2, <2>3, FreshStays
  <1>4. CASE SendDone
    <2>1. /\ UNCHANGED <<head, alive, sub, session, pc, notified, drains, controls>>
          /\ Contents(out) = Contents(out') \cup {out.wire[1]} /\ Handle(out.wire[1])
          /\ out.wire # <<>>
      BY <1>1, <1>4, Flushed
    <2>2. seen' = IF out.wire[1].gen = seen.gen /\ out.wire[1].kind # "exit"
                    THEN [seen EXCEPT !.got = @ \cup (out.wire[1].from .. out.wire[1].to)]
                    ELSE seen
      BY <1>4 DEF SendDone
    <2>3. out.wire[1].gen # 0  BY <1>1, <2>1, WireTyped, InUseTyped
    <2>4. /\ seen'.gen = seen.gen /\ seen'.open = seen.open /\ seen'.ended = seen.ended
          /\ ~seen.open => seen' = seen
      <3>1. ~seen.open => seen.gen = 0  BY <1>1 DEF Servers, NoView
      <3> QED  BY <1>1, <2>2, <2>3, <3>1 DEF TypesNow, Views
    <2>5. Servers'
      <3>1. \A g \in Gens : Draining(g)' = Draining(g)  BY <2>1 DEF Draining
      <3>2. UNCHANGED <<alive, sub, session, drains>>  BY <2>1
      <3> QED  BY <1>1, <2>4, <3>2 DEF Servers, Draining
    <2>6. InUse' \subseteq InUse \cup {0}
      <3>1. \A e \in Contents(out') : e.gen \in InUse \cup {0}  BY <2>1, InUseNow
      <3> QED  BY <1>1, <2>1, <2>4, <3>1, SameInUse
    <2>7. PaneStep  BY <1>1, <2>1, HandleStep
    <2> QED  BY <1>1, <2>5, <2>6, <2>7, FreshPane
  <1> QED  BY <1>2, <1>3, <1>4 DEF Pump

LEMMA ServedPane ==
    ASSUME Served, Consume \/ Reattach \/ Refresh \/ Leave
    PROVE  Servers' /\ Fresh'
  <1>1. Typed /\ Servers /\ Fresh  BY DEF Served
  <1>2. /\ PaneStep
        /\ UNCHANGED <<head, alive, sub, session, pc, notified, drains, out, controls, seen>>
    BY <1>1, PaneStepBy
  <1>3. Servers'  BY <1>1, <1>2, ServersStay
  <1>4. InUse' \subseteq InUse \cup {0}
    BY <1>2 DEF InUse, Draining, Contents
  <1> QED  BY <1>1, <1>2, <1>3, <1>4, FreshPane

LEMMA ServedStep ==
    ASSUME Served, [Next]_vars
    PROVE  Served'
  <1>1. Typed /\ Servers /\ Fresh  BY DEF Served
  <1>2. Typed'  BY <1>1, TypedStep
  <1>3. ASSUME NEW g \in Gens, Drain(g) PROVE Servers' /\ Fresh'
    BY <1>3, ServedDrainTurns, ServedDrainPages, ServedDrainSinksGap, ServedDrainHandsOff
    DEF Drain
  <1>4. ASSUME Dispatch PROVE Servers' /\ Fresh'
    BY <1>4, ServedAttachRunning, ServedAttachExited, ServedDetachPane, ServedDispatch,
       ServedCredit, ServedSettleTransfers
    DEF Dispatch
  <1>5. ASSUME UNCHANGED vars PROVE Servers' /\ Fresh'
    <2>1. UNCHANGED <<alive, sub, session, drains, out, up, pane, seen>>  BY <1>5 DEF vars
    <2>2. Servers'  BY <1>1, <2>1, ServersStay
    <2>3. InUse' \subseteq InUse \cup {0}  BY <2>1 DEF InUse, Draining, Contents
    <2> QED  BY <1>1, <2>1, <2>2, <2>3, FreshStays
  <1>6. Servers' /\ Fresh'
    BY <1>3, <1>4, <1>5, ServedProduce, ServedExit, ServedNotifyArm, ServedPump, ServedPane
    DEF Next
  <1> QED  BY <1>2, <1>6 DEF Served

LEMMA ServedInit ==
    ASSUME Init
    PROVE  Served
  <1>1. Typed  BY TypedInit
  <1>2. /\ sub.gen = 0 /\ ~sub.deferred /\ ~sub.staged /\ session.gen = 0
        /\ seen = NoView /\ ~seen.open /\ ~seen.ended /\ seen.gen = 0
        /\ \A g \in Gens : drains[g].at = "off"
        /\ pane.gen = 0 /\ up = <<>>
        /\ out.lane = <<>> /\ out.spill = <<>> /\ out.wire = <<>>
    BY DEF Init, NoSub, NoSession, NoView, NoPane, NoDrain
  <1>3. Servers  BY <1>2 DEF Servers
  <1>4. Contents(out) = {}  BY <1>2 DEF Contents, Range
  <1>5. InUse \subseteq {0}  BY <1>2, <1>4 DEF InUse, Draining
  <1>6. Fresh  BY <1>2, <1>5 DEF Fresh, Newest, Sent
  <1> QED  BY <1>1, <1>3, <1>6 DEF Served

LEMMA AlwaysServed == Spec => []Served
  BY ServedInit, ServedStep, PTL DEF Spec

-----------------------------------------------------------------------------
(* What the current attachment is covered through.                         *)

\* The queue and what was received cover base+1 .. t of attachment g exactly.
Covers(q, got, g, base, t) ==
    \A n \in Nat : n \in got \/ Carries(q, g, n) <=> base < n /\ n <= t

\* The items take attachment g from a through b.
Adds(items, g, a, b) ==
    \A n \in Nat : (\E e \in Range(items) : Holds(e, g, n)) <=> a < n /\ n <= b

CoveredBy(q, got, g) ==
    got \cup UNION {e.from .. e.to :
                      e \in {e \in Range(q.lane) \cup Range(q.spill) \cup Range(q.wire) :
                               e.gen = g /\ e.kind # "exit"}}

LEMMA CoversIsCovered ==
    ASSUME NEW h \in Nat, NEW q \in Queues(h), NEW got \in SUBSET Nat, NEW g,
           NEW base \in Nat, NEW t \in Nat
    PROVE  CoveredBy(q, got, g) = (base + 1) .. t <=> Covers(q, got, g, base, t)
  <1> DEFINE P == {e \in Contents(q) : e.gen = g /\ e.kind # "exit"}
             C == got \cup UNION {e.from .. e.to : e \in P}
  <1>1. \A e \in P : e.from \in Nat /\ e.to \in Nat
    <2>1. \A e \in ItemsTo(h) : e.from \in Nat /\ e.to \in Nat  BY DEF ItemsTo
    <2>2. \A e \in Contents(q) : e \in ItemsTo(h)  BY QueueTyped
    <2> QED  BY <2>1, <2>2
  <1>2. \A n \in C : n \in Nat
    <2>1. ASSUME NEW e \in P, NEW n \in e.from .. e.to PROVE n \in Nat  BY <1>1, <2>1
    <2> HIDE DEF P
    <2> QED  BY <2>1
  <1>3. \A n \in Nat : n \in C <=> n \in got \/ Carries(q, g, n)
    <2> TAKE n \in Nat
    <2>1. ASSUME NEW e \in P PROVE n \in e.from .. e.to <=> Holds(e, g, n)
      BY <1>1, <2>1 DEF Holds
    <2>2. ASSUME NEW e \in Contents(q), Holds(e, g, n) PROVE e \in P
      BY <2>2 DEF Holds
    <2>3. (\E e \in P : n \in e.from .. e.to) <=> Carries(q, g, n)
      BY <2>1, <2>2 DEF Carries
    <2> HIDE DEF P
    <2> QED  BY <2>3
  <1>4. C = (base + 1) .. t <=> \A n \in Nat : n \in C <=> base < n /\ n <= t
    <2> HIDE DEF C
    <2>1. \A n : n \in (base + 1) .. t <=> n \in Nat /\ base < n /\ n <= t  OBVIOUS
    <2> QED  BY <1>2, <2>1
  <1>5. C = (base + 1) .. t <=> Covers(q, got, g, base, t)
    <2> HIDE DEF C
    <2> QED  BY <1>3, <1>4 DEF Covers
  <1>6. C = CoveredBy(q, got, g)  BY DEF CoveredBy, Contents
  <1> HIDE DEF C
  <1> QED  BY <1>5, <1>6

LEMMA SinkCovers ==
    ASSUME NEW h \in Nat, NEW q \in Queues(h), NEW items \in Seq(ItemsTo(h)), NEW g \in Gens,
           NEW got, NEW base \in Nat, NEW a \in Nat, NEW b \in Nat, base <= a, a <= b,
           Covers(q, got, g, base, a), Adds(items, g, a, b)
    PROVE  Covers(Sink(q, items), got, g, base, b)
  <1> DEFINE full == Full(q, items)
             r == Sink(q, items)
  <1>1. Contents(full) = Contents(q) \cup Range(items)  BY FullTyped
  <1>2. Thinned(full, r)  BY SinkThins
  <1> HIDE DEF full, r
  <1>3. \A n \in Nat : Carries(full, g, n) <=> Carries(q, g, n) \/ (a < n /\ n <= b)
    BY <1>1 DEF Carries, Adds
  <1>4. \A n \in Nat : n \in got \/ Carries(full, g, n) <=> base < n /\ n <= b
    BY <1>3 DEF Covers
  <1>5. \A n \in Nat : Carries(full, g, n) => Carries(r, g, n)  BY <1>2 DEF Thinned
  <1>6. ASSUME NEW n \in Nat, Carries(r, g, n) PROVE base < n /\ n <= b
    <2>1. PICK x \in Nat, y \in Nat :
            Carries(full, g, x) /\ Carries(full, g, y) /\ x <= n /\ n <= y
      BY <1>2, <1>6 DEF Thinned
    <2> QED  BY <1>4, <2>1
  <1>7. Covers(r, got, g, base, b)
    BY <1>4, <1>5, <1>6 DEF Covers
  <1> QED  BY <1>7 DEF r

LEMMA NothingAdds ==
    ASSUME NEW items, NEW g, NEW a \in Nat, \A e \in Range(items) : e.gen # g \/ e.kind = "exit"
    PROVE  Adds(items, g, a, a)
  BY DEF Adds, Holds

LEMMA FramesAdd ==
    ASSUME NEW h \in Nat, NEW g \in Gens, NEW a \in 0 .. h, NEW b \in 0 .. h
    PROVE  Adds(Frames(g, a, b), g, a, b)
  <1>1. \A e : e \in Range(Frames(g, a, b)) <=> \E n \in (a + 1) .. b : e = Item("frame", g, n, n)
    BY FramesTyped
  <1>2. ASSUME NEW n \in Nat, NEW k \in Nat
        PROVE  Holds(Item("frame", g, n, n), g, k) <=> k = n
    <2>1. /\ Item("frame", g, n, n).gen = g /\ Item("frame", g, n, n).kind = "frame"
          /\ Item("frame", g, n, n).from = n /\ Item("frame", g, n, n).to = n
      BY DEF Item
    <2> QED  BY <2>1 DEF Holds
  <1>3. \A n \in (a + 1) .. b : n \in Nat  OBVIOUS
  <1>4. ASSUME NEW k \in Nat
        PROVE  (\E e \in Range(Frames(g, a, b)) : Holds(e, g, k)) <=> a < k /\ k <= b
    <2>1. ASSUME NEW e \in Range(Frames(g, a, b)), Holds(e, g, k) PROVE a < k /\ k <= b
      <3>1. PICK n \in (a + 1) .. b : e = Item("frame", g, n, n)  BY <1>1
      <3>2. k = n  BY <1>2, <1>3, <2>1, <3>1
      <3> QED  BY <3>2
    <2>2. ASSUME a < k, k <= b PROVE \E e \in Range(Frames(g, a, b)) : Holds(e, g, k)
      <3>1. k \in (a + 1) .. b  BY <2>2
      <3>2. Item("frame", g, k, k) \in Range(Frames(g, a, b))  BY <1>1, <3>1
      <3>3. Holds(Item("frame", g, k, k), g, k)  BY <1>2
      <3> QED  BY <3>2, <3>3
    <2> QED  BY <2>1, <2>2
  <1> QED  BY <1>4 DEF Adds

LEMMA GapAdds ==
    ASSUME NEW h \in Nat, NEW kind \in {"retention", "residual"}, NEW g \in Gens,
           NEW a \in Nat, NEW b \in 0 .. h
    PROVE  Adds(Gap(kind, g, a + 1, b), g, a, b)
  <1>1. Range(Gap(kind, g, a + 1, b)) = IF a + 1 <= b THEN {Item(kind, g, a + 1, b)} ELSE {}
    <2> DEFINE from == a + 1
    <2>1. from \in Nat \ {0} /\ b \in Int /\ b <= h  OBVIOUS
    <2> HIDE DEF from
    <2>2. Range(Gap(kind, g, from, b)) = IF from <= b THEN {Item(kind, g, from, b)} ELSE {}
      BY <2>1, GapTyped
    <2> QED  BY <2>2 DEF from
  <1>2. ASSUME NEW n \in Nat
        PROVE  Holds(Item(kind, g, a + 1, b), g, n) <=> a < n /\ n <= b
    BY DEF Holds, Item
  <1>3. CASE a + 1 <= b
    <2>1. Range(Gap(kind, g, a + 1, b)) = {Item(kind, g, a + 1, b)}  BY <1>1, <1>3
    <2> QED  BY <1>2, <2>1 DEF Adds
  <1>4. CASE ~(a + 1 <= b)
    <2>1. Range(Gap(kind, g, a + 1, b)) = {}  BY <1>1, <1>4
    <2>2. \A n \in Nat : ~(a < n /\ n <= b)  BY <1>4
    <2> QED  BY <2>1, <2>2 DEF Adds
  <1> QED  BY <1>3, <1>4

LEMMA JoinedAdds ==
    ASSUME NEW S, NEW s \in Seq(S), NEW t \in Seq(S), NEW g, NEW a \in Nat, NEW b \in Nat,
           NEW c \in Nat, a <= b, b <= c, Adds(s, g, a, b), Adds(t, g, b, c)
    PROVE  Adds(s \o t, g, a, c)
  <1>1. Range(s \o t) = Range(s) \cup Range(t)  BY RangeOfJoined
  <1>2. \A n \in Nat : (\E e \in Range(s \o t) : Holds(e, g, n))
          <=> (a < n /\ n <= b) \/ (b < n /\ n <= c)
    BY <1>1 DEF Adds
  <1>3. \A n \in Nat : (a < n /\ n <= b) \/ (b < n /\ n <= c) <=> a < n /\ n <= c
    OBVIOUS
  <1> QED  BY <1>2, <1>3 DEF Adds

LEMMA ExitAdds ==
    ASSUME NEW h \in Nat, NEW s \in Seq(ItemsTo(h)), NEW k \in Gens, NEW g, NEW a \in Nat,
           NEW b \in Nat, Adds(s, g, a, b)
    PROVE  Adds(Append(s, ExitItem(k)), g, a, b) /\ Append(s, ExitItem(k)) \in Seq(ItemsTo(h))
  <1>1. ExitItem(k) \in ItemsTo(h) /\ ExitItem(k).kind = "exit"  BY ExitItemTyped
  <1>2. /\ Append(s, ExitItem(k)) \in Seq(ItemsTo(h))
        /\ Range(Append(s, ExitItem(k))) = Range(s) \cup {ExitItem(k)}
    BY <1>1, RangeOfAppended
  <1>3. \A n : ~Holds(ExitItem(k), g, n)  BY <1>1 DEF Holds
  <1> QED  BY <1>2, <1>3 DEF Adds

LEMMA OutNextTyped ==
    ASSUME Typed'
    PROVE  /\ out' \in Queues(head') /\ head' \in Nat
           /\ seen' \in Views' /\ seen'.got \in SUBSET Nat /\ seen'.base \in Nat
  <1>1. TypeOK' /\ \A i \in DOMAIN out'.spill : out'.spill[i].kind = "overflow"
    BY DEF Typed
  <1>2. head' \in 0 .. MaxSeq /\ out' \in Outputs' /\ seen' \in Views'
    BY <1>1 DEF TypeOK
  <1>3. MaxSeq \in Nat  BY DeliveryAssumption
  <1>4. head' \in Nat  BY <1>2, <1>3
  <1>5. Items' = ItemsTo(head')  BY DEF Items, ItemsTo, Positions
  <1>6. out' \in [lane : Seq(ItemsTo(head')), spill : Seq(ItemsTo(head')),
                  wire : Seq(ItemsTo(head'))]
    BY <1>2, <1>5 DEF Outputs
  <1>7. out' \in Queues(head')  BY <1>1, <1>6 DEF Queues, IsOverflow
  <1>8. /\ seen'.got \in SUBSET (1 .. head') /\ seen'.base \in 0 .. head'
    BY <1>2 DEF Views, Positions
  <1>9. seen'.got \in SUBSET Nat /\ seen'.base \in Nat  BY <1>4, <1>8
  <1> QED  BY <1>2, <1>4, <1>7, <1>9

LEMMA ThroughTyped ==
    ASSUME Served
    PROVE  Through \in Positions
  <1>1. TypesNow /\ Servers  BY TypedNow DEF Served
  <1>2. session.credited \in Positions /\ session.pageEnd \in Positions
    BY <1>1 DEF TypesNow, Sessions
  <1>3. head \in Positions  BY <1>1 DEF TypesNow, Positions
  <1>4. sub.deferred => sub.gen \in Gens
    BY <1>1 DEF TypesNow, Subs, Servers, Gens
  <1>5. sub.deferred => drains[sub.gen].cursor \in Positions
    BY <1>1, <1>4 DEF TypesNow, DrainTasks
  <1> QED  BY <1>2, <1>3, <1>5 DEF Through

LEMMA StretchedNow ==
    ASSUME Served, Stretched
    PROVE  /\ head \in Nat /\ out \in Queues(head)
           /\ Through \in Nat /\ Through <= head
           /\ seen.open =>
                /\ seen.gen \in Gens /\ seen.base \in Nat /\ seen.base <= Through
                /\ Covers(out, seen.got, seen.gen, seen.base, Through)
  <1>1. TypesNow /\ Servers  BY TypedNow DEF Served
  <1>2. head \in Nat /\ out \in Queues(head)  BY <1>1 DEF TypesNow, OutputTyped
  <1>3. Through \in Nat /\ Through <= head  BY <1>2, ThroughTyped DEF Positions
  <1>4. /\ seen.open => seen.gen \in Gens
        /\ seen.base \in Nat /\ seen.got \in SUBSET Nat
    <2>1. seen.base \in 0 .. head /\ seen.got \in SUBSET (1 .. head) /\ seen.gen \in 0 .. MaxGens
      BY <1>1 DEF TypesNow, Views, Positions
    <2>2. seen.open => seen.gen # 0  BY <1>1 DEF Servers
    <2> QED  BY <1>2, <2>1, <2>2 DEF Gens
  <1>5. ASSUME seen.open PROVE Covers(out, seen.got, seen.gen, seen.base, Through)
    <2>1. Covered = (seen.base + 1) .. Through  BY <1>5 DEF Stretched
    <2> DEFINE t == Through
    <2>2. t \in Nat  BY <1>3
    <2>3. Covered = (seen.base + 1) .. t  BY <2>1
    <2> HIDE DEF t
    <2>a. CoveredBy(out, seen.got, seen.gen) = (seen.base + 1) .. t
      BY <2>3 DEF Covered, InPipe, CoveredBy
    <2>4. Covers(out, seen.got, seen.gen, seen.base, t)
      BY <1>2, <1>4, <2>2, <2>a, CoversIsCovered
    <2> QED  BY <2>4 DEF t
  <1>6. seen.open => seen.base <= Through  BY DEF Stretched
  <1> QED  BY <1>2, <1>3, <1>4, <1>5, <1>6

\* What Stretched says of the session and the drains.
Ahead ==
    /\ session.gen # 0 => session.credited <= session.pageEnd
    /\ \A g \in Gens : drains[g].at = "gap" => drains[g].cursor <= drains[g].lostTo
    /\ seen.open /\ Draining(seen.gen) => sub.gen = seen.gen

LEMMA StretchedNext ==
    ASSUME Typed', Ahead', NEW t \in Nat,
           seen'.open => /\ Through' = t /\ seen'.base <= t
                         /\ Covers(out', seen'.got, seen'.gen, seen'.base, t)
    PROVE  Stretched'
  <1>1. /\ out' \in Queues(head') /\ head' \in Nat
        /\ seen'.got \in SUBSET Nat /\ seen'.base \in Nat
    BY OutNextTyped
  <1>2. ASSUME seen'.open PROVE Covered' = (seen'.base + 1) .. t
    <2>1. CoveredBy(out', seen'.got, seen'.gen) = (seen'.base + 1) .. t
      BY <1>1, <1>2, CoversIsCovered
    <2> QED  BY <2>1 DEF Covered, InPipe, CoveredBy
  <1> QED  BY <1>2 DEF Stretched, Ahead

LEMMA StretchedAhead ==
    ASSUME Stretched
    PROVE  Ahead
  BY DEF Stretched, Ahead

(* A step, as the pane's promise sees it.                                  *)
StreamStays ==
    /\ UNCHANGED <<head, alive>> /\ seen'.open = seen.open
    /\ seen.open => seen'.base = seen.base /\ seen'.ended = seen.ended /\ Through' = Through
StreamTells ==
    /\ UNCHANGED <<head, alive>> /\ seen.open /\ ~seen.ended /\ seen'.open
    /\ seen'.base = seen.base /\ Through <= Through'
    /\ seen'.ended => ~alive /\ Through' = head
StreamAttaches ==
    /\ UNCHANGED <<head, alive>> /\ seen'.open
    /\ seen'.ended => ~alive /\ Through' = head
StreamDetaches == UNCHANGED <<head, alive>> /\ ~seen'.open
StreamGrows ==
    /\ alive /\ alive' = alive /\ head' = head + 1 /\ seen' = seen
    /\ seen.open => \/ Through' = Through
                    \/ ~seen.ended /\ Through = head /\ Through' = head + 1
StreamDies ==
    /\ alive /\ alive' = FALSE /\ head' = head /\ seen'.open = seen.open
    /\ seen.open =>
         /\ seen'.base = seen.base /\ Through' = Through
         /\ seen'.ended = seen.ended \/ (seen'.ended /\ ~seen.ended /\ Through = head)
StreamStep ==
    StreamStays \/ StreamTells \/ StreamAttaches \/ StreamDetaches \/ StreamGrows \/ StreamDies

LEMMA StretchedKeeps ==
    ASSUME Served, Stretched, Typed', Ahead', out' = out,
           seen'.open = seen.open, seen'.gen = seen.gen, seen'.base = seen.base,
           seen'.got = seen.got, seen.open => Through' = Through
    PROVE  Stretched'
  <1>1. /\ Through \in Nat
        /\ seen.open => /\ seen.base <= Through
                        /\ Covers(out, seen.got, seen.gen, seen.base, Through)
    BY StretchedNow
  <1>2. PICK t \in Nat : t = Through  BY <1>1
  <1>3. seen'.open => /\ Through' = t /\ seen'.base <= t
                      /\ Covers(out', seen'.got, seen'.gen, seen'.base, t)
    BY <1>1, <1>2
  <1> QED  BY <1>3, StretchedNext

LEMMA StreamKeeps ==
    ASSUME Served, Stretched, Typed', Ahead',
           UNCHANGED <<head, alive, out>>, seen' = seen, seen.open => Through' = Through
    PROVE  Stretched' /\ StreamStep
  <1>1. Stretched'  BY StretchedKeeps
  <1>2. StreamStays  BY DEF StreamStays
  <1> QED  BY <1>1, <1>2 DEF StreamStep

(* The server sends what takes the attachment further, or nothing to it.   *)
LEMMA StreamMoves ==
    ASSUME Served, Stretched, Typed', Ahead', UNCHANGED <<head, alive>>,
           NEW items \in Seq(ItemsTo(head)), out' = Sink(out, items), NEW t \in Nat,
           seen' = [seen EXCEPT !.ended = seen'.ended],
           seen.open => /\ Through <= t /\ Adds(items, seen.gen, Through, t)
                        /\ Through' = t
                        /\ \/ seen'.ended = seen.ended /\ t = Through
                           \/ ~seen.ended /\ (seen'.ended => ~alive /\ t = head)
    PROVE  Stretched' /\ StreamStep
  <1>1. /\ head \in Nat /\ out \in Queues(head)
        /\ Through \in Nat
        /\ seen.open =>
             /\ seen.gen \in Gens /\ seen.base \in Nat /\ seen.base <= Through
             /\ Covers(out, seen.got, seen.gen, seen.base, Through)
    BY StretchedNow
  <1>2. /\ seen'.gen = seen.gen /\ seen'.base = seen.base /\ seen'.got = seen.got
        /\ seen'.open = seen.open
    <2>1. seen \in Views  BY TypedNow DEF Served, TypesNow
    <2> QED  BY <2>1 DEF Views
  <1> DEFINE u == Through
  <1>3. ASSUME seen.open PROVE Covers(Sink(out, items), seen.got, seen.gen, seen.base, t)
    <2>1. /\ u \in Nat /\ seen.gen \in Gens /\ seen.base \in Nat /\ seen.base <= u /\ u <= t
          /\ Covers(out, seen.got, seen.gen, seen.base, u) /\ Adds(items, seen.gen, u, t)
      BY <1>1, <1>3
    <2> HIDE DEF u
    <2> QED  BY <1>1, <2>1, SinkCovers
  <1>4. seen'.open => /\ Through' = t /\ seen'.base <= t
                      /\ Covers(out', seen'.got, seen'.gen, seen'.base, t)
    BY <1>1, <1>2, <1>3
  <1>5. Stretched'  BY <1>4, StretchedNext
  <1>6. StreamStays \/ StreamTells
    BY <1>2 DEF StreamStays, StreamTells
  <1> QED  BY <1>5, <1>6 DEF StreamStep

LEMMA StreamProduce ==
    ASSUME Served, Stretched, Typed', Produce
    PROVE  Stretched' /\ StreamStep
  <1>1. Typed /\ Servers /\ TypesNow  BY TypedNow DEF Served
  <1>2. /\ UNCHANGED <<alive, sub, session, pc, drains, seen>> /\ seen' = seen
        /\ alive /\ head' = head + 1
    BY DEF Produce
  <1>3. Ahead'  BY <1>2, StretchedAhead DEF Ahead, Draining
  <1>4. CASE sub.gen # 0 /\ ~sub.deferred
    <2>1. /\ session.gen = 0 /\ seen.gen = sub.gen /\ seen.open /\ ~seen.ended
      BY <1>1, <1>4 DEF Servers
    <2>2. Through = head /\ Through' = head'  BY <1>2, <1>4, <2>1 DEF Through
    <2>3. /\ head \in Nat /\ out \in Queues(head) /\ sub.gen \in Gens
          /\ seen.base \in Nat /\ seen.base <= head
          /\ Covers(out, seen.got, sub.gen, seen.base, head)
      BY <2>1, <2>2, StretchedNow
    <2> DEFINE h == head + 1
               items == Frames(sub.gen, head, h)
    <2>4. /\ h \in Nat /\ head \in 0 .. h /\ h \in 0 .. h /\ head <= h /\ seen.base <= head
      BY <2>3
    <2>5. out' = Sink(out, items)  BY <1>4 DEF Produce
    <2> HIDE DEF h
    <2>6. items \in Seq(ItemsTo(h)) /\ Adds(items, sub.gen, head, h)
      BY <2>3, <2>4, FramesTyped, FramesAdd
    <2>7. out \in Queues(h)  BY <2>3, <2>4, WiderItems
    <2> HIDE DEF items
    <2>8. Covers(Sink(out, items), seen.got, sub.gen, seen.base, h)
      BY <2>3, <2>4, <2>6, <2>7, SinkCovers
    <2>9. PICK t \in Nat : t = h  BY <2>4
    <2>10. t = head'  BY <1>2, <2>9 DEF h
    <2>11. /\ Through' = t /\ seen'.base <= t
           /\ Covers(out', seen'.got, seen'.gen, seen'.base, t)
      BY <1>2, <2>1, <2>2, <2>3, <2>4, <2>5, <2>8, <2>9, <2>10
    <2>12. Stretched'  BY <1>3, <2>11, StretchedNext
    <2>13. StreamGrows  BY <1>2, <2>1, <2>2 DEF StreamGrows
    <2> QED  BY <2>12, <2>13 DEF StreamStep
  <1>5. CASE ~(sub.gen # 0 /\ ~sub.deferred)
    <2>1. out' = out  BY <1>5 DEF Produce
    <2>2. seen.open => sub.deferred  BY <1>1, <1>2, <1>5 DEF Servers
    <2>3. seen.open => Through' = Through  BY <1>2, <2>2 DEF Through
    <2>4. Stretched'  BY <1>2, <1>3, <2>1, <2>3, StretchedKeeps
    <2>5. StreamGrows  BY <1>2, <2>3 DEF StreamGrows
    <2> QED  BY <2>4, <2>5 DEF StreamStep
  <1> QED  BY <1>4, <1>5

LEMMA StreamExit ==
    ASSUME Served, Stretched, Typed', Exit
    PROVE  Stretched' /\ StreamStep
  <1>1. Typed /\ Servers /\ TypesNow  BY TypedNow DEF Served
  <1>2. /\ UNCHANGED <<head, session, pc, drains>> /\ alive /\ alive' = FALSE
    BY DEF Exit
  <1>3. CASE sub.deferred
    <2>1. /\ out' = out /\ seen' = seen /\ sub' = [sub EXCEPT !.staged = TRUE]
      BY <1>3 DEF Exit
    <2>2. sub'.gen = sub.gen /\ sub'.deferred = sub.deferred
      BY <1>1, <2>1 DEF TypesNow, Subs
    <2>3. Ahead'  BY <1>2, <2>1, <2>2, StretchedAhead DEF Ahead, Draining
    <2>4. Through' = Through  BY <1>2, <1>3, <2>2 DEF Through
    <2>5. Stretched'  BY <2>1, <2>3, <2>4, StretchedKeeps
    <2>6. StreamDies  BY <1>2, <2>1, <2>4 DEF StreamDies
    <2> QED  BY <2>5, <2>6 DEF StreamStep
  <1>4. CASE ~sub.deferred
    <2>1. /\ sub' = NoSub /\ seen' = [seen EXCEPT !.ended = @ \/ sub.gen # 0]
          /\ out' = IF sub.gen # 0 THEN Sink(out, <<ExitItem(sub.gen)>>) ELSE out
      BY <1>4 DEF Exit
    <2>2. /\ seen'.open = seen.open /\ seen'.gen = seen.gen /\ seen'.base = seen.base
          /\ seen'.got = seen.got /\ seen'.ended = (seen.ended \/ sub.gen # 0)
      BY <1>1, <2>1 DEF TypesNow, Views
    <2>3. session.gen = 0 /\ sub'.gen = 0 /\ ~sub'.deferred
          /\ (sub.gen # 0 => ~Draining(sub.gen) /\ seen.gen = sub.gen)
      BY <1>1, <1>4, <2>1 DEF Servers, NoSub
    <2>4. Ahead'
      <3>1. seen.open /\ Draining(seen.gen) => FALSE
        BY <2>3, <1>1, StretchedAhead DEF Ahead, Servers
      <3>2. Draining(seen.gen) <=> drains[seen.gen].at # "off"  BY DEF Draining
      <3>3. Draining(seen.gen)' <=> drains'[seen'.gen].at # "off"  BY DEF Draining
      <3>4. ~(seen'.open /\ Draining(seen.gen)')  BY <1>2, <2>2, <3>1, <3>2, <3>3
      <3>5. /\ session'.gen # 0 => session'.credited <= session'.pageEnd
            /\ \A g \in Gens : drains'[g].at = "gap" => drains'[g].cursor <= drains'[g].lostTo
        BY <1>2, StretchedAhead DEF Ahead
      <3> QED  BY <3>4, <3>5 DEF Ahead
    <2>5. Through' = head /\ Through = head
      BY <1>2, <1>4, <2>3 DEF Through
    <2>6. CASE sub.gen = 0
      <3>1. Stretched'  BY <2>1, <2>2, <2>4, <2>5, <2>6, StretchedKeeps
      <3>2. seen.ended \in BOOLEAN  BY <1>1 DEF TypesNow, Views
      <3>3. seen'.ended = seen.ended  BY <2>2, <2>6, <3>2
      <3>4. StreamDies  BY <1>2, <2>2, <2>5, <3>3 DEF StreamDies
      <3> QED  BY <3>1, <3>4 DEF StreamStep
    <2>7. CASE sub.gen # 0
      <3>1. seen.open /\ ~seen.ended /\ seen.gen = sub.gen  BY <1>1, <2>7 DEF Servers
      <3>2. /\ head \in Nat /\ out \in Queues(head) /\ sub.gen \in Gens
            /\ seen.base \in Nat /\ seen.base <= head
            /\ Covers(out, seen.got, sub.gen, seen.base, head)
        BY <2>5, <3>1, StretchedNow
      <3> DEFINE items == <<ExitItem(sub.gen)>>
      <3>3. items \in Seq(ItemsTo(head)) /\ \A e \in Range(items) : e.kind = "exit"
        BY <3>2, ExitItemTyped, OneItem
      <3>4. out' = Sink(out, items)  BY <2>1, <2>7
      <3> HIDE DEF items
      <3>5. Adds(items, sub.gen, head, head)  BY <3>2, <3>3, NothingAdds
      <3>6. Covers(Sink(out, items), seen.got, sub.gen, seen.base, head)
        BY <3>2, <3>3, <3>5, SinkCovers
      <3>7. PICK t \in Nat : t = head  BY <3>2
      <3>8. /\ Through' = t /\ seen'.base <= t
            /\ Covers(out', seen'.got, seen'.gen, seen'.base, t)
        BY <2>2, <2>5, <3>1, <3>2, <3>4, <3>6, <3>7
      <3>9. Stretched'  BY <2>4, <3>8, StretchedNext
      <3>10. StreamDies  BY <1>2, <2>2, <2>5, <2>7, <3>1 DEF StreamDies
      <3> QED  BY <3>9, <3>10 DEF StreamStep
    <2> QED  BY <2>6, <2>7
  <1> QED  BY <1>3, <1>4

LEMMA StreamAttachRunning ==
    ASSUME Served, Stretched, Typed', AttachRunning
    PROVE  Stretched' /\ StreamStep
  <1>1. Typed /\ Servers /\ TypesNow  BY TypedNow DEF Served
  <1>2. Received("attach")  BY DEF AttachRunning
  <1>3. /\ Head(up) \in Messages /\ Head(up).gen \in Gens /\ Head(up).seq \in Positions
        /\ Head(up).gen # 0 /\ drains[Head(up).gen].at = "off"
        /\ \A e \in Contents(out) : e.gen # Head(up).gen
    BY <1>2, NewAttachment
  <1> DEFINE m == Head(up)
             items == Gap("retention", m.gen, m.seq + 1, Oldest - 1)
  <1>4. /\ UNCHANGED <<head, alive, drains>> /\ pc' = "start"
        /\ sub'.gen = m.gen /\ sub'.deferred
        /\ session'.gen = m.gen /\ session'.credited = Base(m)
        /\ session'.pageEnd = PageEnd(Base(m), head)
        /\ out' = Sink(Discard(out), items)
        /\ seen' = [gen |-> m.gen, base |-> m.seq, got |-> {}, open |-> TRUE, ended |-> FALSE]
    BY DEF AttachRunning, Base, NoSub
  <1>5. /\ head \in Nat /\ head \in Positions
        /\ Base(m) \in Positions /\ Oldest - 1 \in Positions
        /\ m.seq <= Base(m) /\ Oldest - 1 <= Base(m) /\ Base(m) \in {m.seq, Oldest - 1}
    BY <1>1, <1>3, BaseTyped, EmptyTyped, OutTyped
  <1>6. Base(m) <= PageEnd(Base(m), head)  BY <1>5, PageEndBounds
  <1>7. /\ seen'.gen = m.gen /\ seen'.base = m.seq /\ seen'.got = {} /\ seen'.open /\ ~seen'.ended
    BY <1>4
  <1>8. Ahead'
    <2>1. \A g \in Gens : drains'[g].at = "gap" => drains'[g].cursor <= drains'[g].lostTo
      BY <1>4, StretchedAhead DEF Ahead
    <2>2. sub'.gen = seen'.gen  BY <1>4, <1>7
    <2> QED  BY <1>4, <1>6, <2>1, <2>2 DEF Ahead
  <1>9. Through' = Base(m)
    BY <1>3, <1>4 DEF Through
  <1>10. Discard(out) \in Queues(head) /\ Contents(Discard(out)) \subseteq Contents(out)
    <2>1. OutputTyped(out, head) /\ head \in Nat  BY <1>1 DEF TypesNow
    <2>2. Discard(out) \in Queues(head)  BY <2>1, DiscardTyped DEF OutputTyped
    <2>3. Contents(Discard(out)) = Range(out.wire)  BY <2>1, DiscardGens
    <2> QED  BY <2>2, <2>3 DEF Contents
  <1> DEFINE q == Discard(out)
             s == m.seq
             b == Base(m)
             o == Oldest - 1
  <1>11. /\ s \in Nat /\ b \in Nat /\ o \in Nat /\ s <= b /\ o \in 0 .. head /\ b \in {s, o}
         /\ o <= b /\ m.gen \in Gens
    BY <1>3, <1>5 DEF Positions
  <1>12. items \in Seq(ItemsTo(head)) /\ Adds(items, m.gen, s, b)
    <2> HIDE DEF o, s, b, m
    <2>1. Adds(Gap("retention", m.gen, s + 1, o), m.gen, s, o)
      BY <1>5, <1>11, GapAdds
    <2>2. CASE s <= o
      <3>1. b = o  BY <1>11, <2>2
      <3> DEFINE from == s + 1
      <3>2. from \in Nat \ {0} /\ o \in Positions  BY <1>11 DEF Positions
      <3> HIDE DEF from
      <3>3. Gap("retention", m.gen, from, o) \in Seq(ItemsTo(head))
        BY <1>1, <1>11, <3>2, GapAdmitted
      <3>4. items = Gap("retention", m.gen, s + 1, o)  BY DEF o, s
      <3> QED  BY <2>1, <3>1, <3>3, <3>4 DEF from
    <2>3. CASE ~(s <= o)
      <3>1. b = s /\ ~(s + 1 <= o)  BY <1>11, <2>3
      <3>2. Gap("retention", m.gen, s + 1, o) = <<>>  BY <3>1 DEF Gap
      <3>3. items = <<>>  BY <3>2 DEF o, s
      <3>4. Range(<<>>) = {} /\ <<>> \in Seq(ItemsTo(head))  BY DEF Range
      <3> QED  BY <1>11, <3>1, <3>3, <3>4, NothingAdds
    <2> QED  BY <2>2, <2>3
  <1>13. Covers(q, {}, m.gen, s, s)
    <2>1. \A n : ~Carries(q, m.gen, n)  BY <1>3, <1>10 DEF Carries, Holds
    <2> HIDE DEF q, s, m
    <2> QED  BY <1>11, <2>1 DEF Covers
  <1> HIDE DEF q, s, b, o, items, m
  <1>14. Covers(Sink(q, items), {}, m.gen, s, b)
    BY <1>5, <1>10, <1>11, <1>12, <1>13, SinkCovers DEF q
  <1>15. PICK t \in Nat : t = b  BY <1>11
  <1>16. /\ Through' = t /\ seen'.base <= t
         /\ Covers(out', seen'.got, seen'.gen, seen'.base, t)
    BY <1>4, <1>7, <1>9, <1>11, <1>14, <1>15 DEF q, s, b
  <1>17. Stretched'  BY <1>8, <1>16, StretchedNext
  <1>18. StreamAttaches  BY <1>4, <1>7 DEF StreamAttaches
  <1> QED  BY <1>17, <1>18 DEF StreamStep

LEMMA StreamAttachExited ==
    ASSUME Served, Stretched, Typed', AttachExited
    PROVE  Stretched' /\ StreamStep
  <1>1. Typed /\ Servers /\ TypesNow  BY TypedNow DEF Served
  <1>2. Received("attach")  BY DEF AttachExited
  <1>3. /\ Head(up) \in Messages /\ Head(up).gen \in Gens /\ Head(up).seq \in Positions
        /\ Head(up).gen # 0 /\ drains[Head(up).gen].at = "off"
        /\ \A e \in Contents(out) : e.gen # Head(up).gen
    BY <1>2, NewAttachment
  <1> DEFINE m == Head(up)
             b == Base(m)
             items == Frames(m.gen, b, head) \o <<ExitItem(m.gen)>>
  <1>4. /\ UNCHANGED <<head, alive, drains>> /\ ~alive
        /\ sub' = NoSub /\ session' = NoSession
        /\ out' = Sink(Discard(out), items)
        /\ seen' = [gen |-> m.gen, base |-> b, got |-> {}, open |-> TRUE, ended |-> TRUE]
    BY DEF AttachExited, Base
  <1>5. head \in Nat /\ head \in Positions /\ b \in Positions
    BY <1>1, <1>3, BaseTyped, EmptyTyped, OutTyped
  <1>6. b \in Nat /\ b <= head /\ b \in 0 .. head /\ head \in 0 .. head
    BY <1>5 DEF Positions
  <1>7. /\ seen'.gen = m.gen /\ seen'.base = b /\ seen'.got = {} /\ seen'.open /\ seen'.ended
        /\ session'.gen = 0 /\ ~sub'.deferred
    BY <1>4 DEF NoSub, NoSession
  <1>8. Ahead'
    <2>1. \A g \in Gens : drains'[g].at = "gap" => drains'[g].cursor <= drains'[g].lostTo
      BY <1>4, StretchedAhead DEF Ahead
    <2>2. drains'[seen'.gen].at = "off"  BY <1>3, <1>4, <1>7
    <2> QED  BY <1>7, <2>1, <2>2 DEF Ahead, Draining
  <1>9. Through' = head  BY <1>4, <1>7 DEF Through
  <1>10. /\ Discard(out) \in Queues(head)
         /\ \A n : ~Carries(Discard(out), m.gen, n)
    <2>1. OutputTyped(out, head) /\ head \in Nat  BY <1>1 DEF TypesNow
    <2>2. Discard(out) \in Queues(head)  BY <2>1, DiscardTyped DEF OutputTyped
    <2>3. Contents(Discard(out)) \subseteq Contents(out)
      BY <2>1, DiscardGens DEF Contents
    <2> QED  BY <1>3, <2>2, <2>3 DEF Carries, Holds
  <1> HIDE DEF b, m
  <1>11. items \in Seq(ItemsTo(head)) /\ Adds(items, m.gen, b, head)
    <2> DEFINE s == Frames(m.gen, b, head)
               e == <<ExitItem(m.gen)>>
    <2>1. m.gen \in Gens  BY <1>3 DEF m
    <2>2. s \in Seq(ItemsTo(head)) /\ Adds(s, m.gen, b, head)
      BY <1>5, <1>6, <2>1, FramesTyped, FramesAdd
    <2>3. e \in Seq(ItemsTo(head)) /\ Range(e) = {ExitItem(m.gen)}
          /\ ExitItem(m.gen).kind = "exit"
      BY <1>5, <2>1, ExitItemTyped, OneItem
    <2> HIDE DEF s, e
    <2>4. Adds(e, m.gen, head, head)  BY <1>5, <2>3, NothingAdds
    <2>5. Adds(s \o e, m.gen, b, head)  BY <1>5, <1>6, <2>2, <2>3, <2>4, JoinedAdds
    <2>6. s \o e \in Seq(ItemsTo(head))  BY <2>2, <2>3
    <2> QED  BY <2>5, <2>6 DEF s, e
  <1> DEFINE q == Discard(out)
  <1>12. q \in Queues(head) /\ Covers(q, {}, m.gen, b, b) /\ m.gen \in Gens
    BY <1>3, <1>6, <1>10 DEF Covers, m
  <1> HIDE DEF q, items
  <1>13. Covers(Sink(q, items), {}, m.gen, b, head)
    BY <1>5, <1>6, <1>11, <1>12, SinkCovers
  <1>14. PICK t \in Nat : t = head  BY <1>5
  <1>15. out' = Sink(q, items)  BY <1>4 DEF q
  <1>16. /\ Through' = t /\ seen'.base <= t
         /\ Covers(out', seen'.got, seen'.gen, seen'.base, t)
    BY <1>6, <1>7, <1>9, <1>13, <1>14, <1>15
  <1>17. Stretched'  BY <1>8, <1>16, StretchedNext
  <1>18. StreamAttaches  BY <1>4, <1>7, <1>9 DEF StreamAttaches
  <1> QED  BY <1>17, <1>18 DEF StreamStep

LEMMA StreamDetachPane ==
    ASSUME Served, Stretched, Typed', DetachPane
    PROVE  Stretched' /\ StreamStep
  <1>1. /\ UNCHANGED <<head, alive, drains>> /\ ~seen'.open /\ session'.gen = 0
    BY DEF DetachPane, NoView, NoSession
  <1>2. Ahead'  BY <1>1, StretchedAhead DEF Ahead
  <1>3. Stretched'  BY <1>1, <1>2 DEF Stretched, Ahead
  <1>4. StreamDetaches  BY <1>1 DEF StreamDetaches
  <1> QED  BY <1>3, <1>4 DEF StreamStep

LEMMA StreamStartSession ==
    ASSUME Served, Stretched, Typed', StartSession
    PROVE  Stretched' /\ StreamStep
  <1>1. Typed /\ Servers /\ TypesNow  BY TypedNow DEF Served
  <1> DEFINE items == Frames(session.gen, session.credited, session.pageEnd)
  <1>2. /\ UNCHANGED <<head, alive, sub, drains, seen>> /\ seen' = seen
        /\ pc = "start" /\ pc' # "start" /\ session' = Arm(session)
        /\ out' = Sink(out, items)
    BY DEF StartSession
  <1>3. /\ session'.gen = session.gen /\ session'.credited = session.credited
        /\ session'.pageEnd = session.pageEnd
        /\ session.gen # 0 /\ session.gen \in Gens
        /\ session.credited \in Positions /\ session.pageEnd \in Positions
        /\ seen.gen = session.gen /\ seen.open /\ ~seen.ended /\ sub.staged = ~alive
    <2>1. session \in Sessions /\ session.gen # 0  BY <1>1, <1>2 DEF TypesNow
    <2>2. session.gen \in Gens /\ session.credited \in Positions /\ session.pageEnd \in Positions
      BY <2>1 DEF Sessions, Gens
    <2>3. /\ session'.gen = session.gen /\ session'.credited = session.credited
          /\ session'.pageEnd = session.pageEnd
      BY <1>1, <1>2, <2>1, ArmKeeps
    <2>4. seen.gen = session.gen /\ seen.open /\ ~seen.ended /\ sub.staged = ~alive
      BY <1>1, <2>1 DEF Servers, TypesNow, Subs
    <2> QED  BY <2>1, <2>2, <2>3, <2>4
  <1>4. session.credited <= session.pageEnd  BY <1>3 DEF Stretched
  <1>5. Ahead'  BY <1>2, <1>3, StretchedAhead DEF Ahead, Draining
  <1>6. Through = session.credited /\ Through' = session.pageEnd
    BY <1>2, <1>3 DEF Through
  <1>7. items \in Seq(ItemsTo(head))  BY <1>1, <1>3, PageAdmitted
  <1>8. Adds(items, session.gen, session.credited, session.pageEnd)
    BY <1>1, <1>3, OutTyped, FramesAdd DEF Positions
  <1> HIDE DEF items
  <1>9. PICK t \in Nat : t = session.pageEnd  BY <1>1, <1>3 DEF TypesNow, Positions
  <1>10. seen' = [seen EXCEPT !.ended = seen'.ended]
    BY <1>1, <1>2 DEF TypesNow, Views
  <1>11. /\ Through <= t /\ Adds(items, seen.gen, Through, t) /\ Through' = t
         /\ ~seen.ended /\ ~seen'.ended
    BY <1>2, <1>3, <1>4, <1>6, <1>8, <1>9
  <1> QED  BY <1>2, <1>5, <1>7, <1>10, <1>11, StreamMoves

LEMMA StreamCredit ==
    ASSUME Served, Stretched, Typed', Credit \/ NotifyArm \/ SettleStays \/ SettleGuards
    PROVE  Stretched' /\ StreamStep
  <1>1. Typed /\ Servers /\ TypesNow  BY TypedNow DEF Served
  <1>2. /\ UNCHANGED <<head, alive, sub, drains, out, seen>> /\ seen' = seen
    BY DEF Credit, NotifyArm, SettleStays, SettleGuards
  <1>3. session \in Sessions  BY <1>1 DEF TypesNow
  <1>4. /\ session'.gen = session.gen /\ session'.pageEnd = session.pageEnd
        /\ session'.credited \in {session.credited, session.pageEnd}
        /\ session.gen # 0 => (pc' = "start" <=> pc = "start")
    <2>1. CASE NotifyArm \/ SettleStays \/ SettleGuards
      <3>1. session' = Arm(session)  BY <2>1 DEF NotifyArm, SettleStays, SettleGuards
      <3>2. pc' = "start" <=> pc = "start"
        BY <2>1 DEF NotifyArm, SettleStays, SettleGuards
      <3> QED  BY <1>1, <1>3, <3>1, <3>2, ArmKeeps
    <2>2. CASE Credit
      <3> DEFINE s == [session EXCEPT !.credited = Head(up).seq]
      <3>1. pc = "idle"  BY <2>2 DEF Credit, Received
      <3>2. CASE UNCHANGED <<session, pc>>  BY <3>1, <3>2
      <3>3. CASE CreditAccepted(Head(up)) /\ session' = Arm(s) /\ pc' = "drive"
        <4>1. Head(up).seq = session.pageEnd  BY <3>3 DEF CreditAccepted
        <4>2. /\ s \in Sessions /\ s.gen = session.gen /\ s.pageEnd = session.pageEnd
              /\ s.credited = session.pageEnd
          BY <1>3, <4>1 DEF Sessions
        <4> HIDE DEF s
        <4> QED  BY <1>1, <3>1, <3>3, <4>2, ArmKeeps
      <3> QED  BY <2>2, <3>2, <3>3 DEF Credit
    <2> QED  BY <2>1, <2>2
  <1>5. session.pageEnd \in Nat /\ session.credited \in Nat
    BY <1>1, <1>3 DEF Sessions, Positions, TypesNow
  <1>6. Ahead'  BY <1>2, <1>4, <1>5, StretchedAhead DEF Ahead, Draining
  <1>7. Through' = Through
    <2>1. CASE session.gen # 0 /\ pc = "start"
      <3>1. ~Credit /\ ~SettleStays /\ ~SettleGuards /\ ~NotifyArm
        BY <2>1 DEF Credit, Received, SettleStays, SettleGuards, NotifyArm
      <3> QED  BY <3>1
    <2>2. CASE ~(session.gen # 0 /\ pc = "start")
      BY <1>2, <1>4, <2>2 DEF Through
    <2> QED  BY <2>1, <2>2
  <1> QED  BY <1>2, <1>6, <1>7, StreamKeeps

LEMMA StreamDrive ==
    ASSUME Served, Stretched, Typed', Drive
    PROVE  Stretched' /\ StreamStep
  <1>1. Typed /\ Servers /\ TypesNow  BY TypedNow DEF Served
  <1>2. /\ UNCHANGED <<head, alive, sub, drains, seen>> /\ seen' = seen
        /\ pc # "idle" /\ pc # "start" /\ pc' # "start"
    BY DEF Drive
  <1>3. /\ session \in Sessions /\ session.gen # 0 /\ session.gen \in Gens
        /\ session.pageEnd \in Positions /\ session.credited \in Positions
        /\ seen.gen = session.gen /\ seen.open /\ ~seen.ended
    <2>1. session \in Sessions /\ session.gen # 0  BY <1>1, <1>2 DEF TypesNow
    <2>2. /\ session.gen \in Gens /\ session.pageEnd \in Positions
          /\ session.credited \in Positions
      BY <2>1 DEF Sessions, Gens
    <2>3. seen.gen = session.gen /\ seen.open /\ ~seen.ended
      BY <1>1, <2>1 DEF Servers
    <2> QED  BY <2>1, <2>2, <2>3
  <1> DEFINE to == PhaseTarget(session)
             end == PageEnd(session.pageEnd, to)
             lost == Gap("retention", session.gen, session.pageEnd + 1, Oldest - 1)
             page == Frames(session.gen, session.pageEnd, end)
  <1>4. /\ head \in Nat /\ session.pageEnd \in Nat /\ session.pageEnd <= head
        /\ session.credited <= session.pageEnd
        /\ end \in Positions /\ session.pageEnd <= end
    <2>1. head \in Nat  BY <1>1 DEF TypesNow
    <2>2. end \in Positions /\ session.pageEnd <= end  BY <1>1, <1>3, NextPage
    <2> QED  BY <1>3, <2>1, <2>2, StretchedAhead DEF Positions, Ahead
  <1>5. Through = session.pageEnd  BY <1>2, <1>3 DEF Through
  <1>6. Oldest \in 1 .. (head + 1)  BY <1>4, OldestBounds
  <1>7. \/ session' = session /\ out' = out
        \/ /\ session' = [session EXCEPT !.pageEnd = Oldest - 1]
           /\ session.pageEnd + 1 < Oldest /\ out' = Sink(out, lost)
        \/ session' = [session EXCEPT !.pageEnd = end] /\ out' = Sink(out, page)
    BY DEF Drive
  <1> HIDE DEF to, end
  <1>8. ASSUME NEW t \in Nat, NEW items \in Seq(ItemsTo(head)), out' = Sink(out, items),
               session' = [session EXCEPT !.pageEnd = t], session.pageEnd <= t,
               Adds(items, session.gen, session.pageEnd, t)
        PROVE  Stretched' /\ StreamStep
    <2>1. /\ session'.gen = session.gen /\ session'.credited = session.credited
          /\ session'.pageEnd = t
      BY <1>3, <1>8 DEF Sessions
    <2>2. session.credited \in Nat /\ session.credited <= t
      BY <1>3, <1>4, <1>8 DEF Positions
    <2>3. Ahead'  BY <1>2, <2>1, <2>2, StretchedAhead DEF Ahead, Draining
    <2>4. Through' = t  BY <1>2, <1>3, <2>1 DEF Through
    <2>5. seen' = [seen EXCEPT !.ended = seen'.ended]
      BY <1>1, <1>2 DEF TypesNow, Views
    <2>6. /\ Through <= t /\ Adds(items, seen.gen, Through, t) /\ Through' = t
          /\ ~seen.ended /\ ~seen'.ended
      BY <1>2, <1>3, <1>5, <1>8, <2>4
    <2> QED  BY <1>2, <1>8, <2>3, <2>5, <2>6, StreamMoves
  <1>9. CASE session' = session /\ out' = out
    <2>1. Ahead'  BY <1>2, <1>9, StretchedAhead DEF Ahead, Draining
    <2>2. Through' = Through  BY <1>2, <1>3, <1>9 DEF Through
    <2> QED  BY <1>2, <1>9, <2>1, <2>2, StreamKeeps
  <1>10. CASE /\ session' = [session EXCEPT !.pageEnd = Oldest - 1]
              /\ session.pageEnd + 1 < Oldest /\ out' = Sink(out, lost)
    <2> DEFINE o == Oldest - 1
               from == session.pageEnd + 1
    <2>1. /\ o \in Nat /\ o \in 0 .. head /\ session.pageEnd <= o /\ o \in Positions
          /\ from \in Nat \ {0}
      BY <1>4, <1>6, <1>10 DEF Positions
    <2>2. lost = Gap("retention", session.gen, from, o)  OBVIOUS
    <2> HIDE DEF o
    <2>3. Adds(lost, session.gen, session.pageEnd, o)
      BY <1>3, <1>4, <2>1, <2>2, GapAdds
    <2> HIDE DEF from, lost
    <2>4. lost \in Seq(ItemsTo(head))  BY <1>1, <1>3, <2>1, <2>2, GapAdmitted
    <2>5. out' = Sink(out, lost) /\ session' = [session EXCEPT !.pageEnd = o]
      BY <1>10 DEF o
    <2> QED  BY <1>8, <2>1, <2>3, <2>4, <2>5
  <1>11. CASE session' = [session EXCEPT !.pageEnd = end] /\ out' = Sink(out, page)
    <2>1. page \in Seq(ItemsTo(head))  BY <1>1, <1>3, <1>4, PageAdmitted
    <2>2. /\ session.pageEnd \in 0 .. head /\ end \in 0 .. head /\ end \in Nat
      BY <1>3, <1>4 DEF Positions
    <2>3. Adds(page, session.gen, session.pageEnd, end)
      BY <1>3, <1>4, <2>2, FramesAdd
    <2> HIDE DEF page
    <2> QED  BY <1>4, <1>8, <1>11, <2>1, <2>2, <2>3
  <1> QED  BY <1>7, <1>9, <1>10, <1>11

LEMMA StreamSettleTransfers ==
    ASSUME Served, Stretched, Typed', SettleTransfers
    PROVE  Stretched' /\ StreamStep
  <1>1. Typed /\ Servers /\ TypesNow  BY TypedNow DEF Served
  <1>2. /\ UNCHANGED <<head, alive, sub, out, seen>> /\ seen' = seen
        /\ pc \in {"active", "covered"} /\ session' = NoSession
    BY DEF SettleTransfers
  <1>3. /\ session.gen # 0 /\ session.gen \in Gens /\ sub.gen = session.gen /\ sub.deferred
        /\ seen.gen = sub.gen
    BY <1>1, <1>2 DEF TypesNow, Sessions, Gens, Servers
  <1>4. /\ \A g \in Gens \ {session.gen} : drains'[g] = drains[g]
        /\ drains'[session.gen].at = "start"
        /\ drains'[session.gen].cursor = session.pageEnd
    BY <1>1, <1>3 DEF SettleTransfers, TypesNow, NoDrain
  <1>5. session'.gen = 0  BY <1>2 DEF NoSession
  <1>6. Ahead'
    <2>1. \A g \in Gens : drains'[g].at = "gap" => drains'[g].cursor <= drains'[g].lostTo
      BY <1>4, StretchedAhead DEF Ahead
    <2> QED  BY <1>2, <1>3, <1>5, <2>1 DEF Ahead
  <1>7. Through' = Through
    BY <1>2, <1>3, <1>4, <1>5 DEF Through
  <1> QED  BY <1>2, <1>6, <1>7, StreamKeeps

LEMMA StreamDrainTurns ==
    ASSUME Served, Stretched, Typed', NEW g \in Gens,
           DrainStart(g) \/ Reserve(g) \/ DrainGone(g)
    PROVE  Stretched' /\ StreamStep
  <1>1. Typed /\ Servers /\ TypesNow  BY TypedNow DEF Served
  <1>2. /\ UNCHANGED <<head, alive, sub, session, pc, out, seen>> /\ seen' = seen
    BY DEF DrainStart, Reserve, DrainGone
  <1>3. \A k \in Gens \ {g} : drains'[k] = drains[k]
    BY <1>1 DEF DrainStart, Reserve, DrainGone, TypesNow
  <1>4. /\ drains'[g].at # "gap" /\ drains[g].at # "off"
        /\ sub.gen = g => drains'[g].cursor = drains[g].cursor
    <2>1. drains \in [Gens -> DrainTasks] /\ drains[g] \in DrainTasks  BY <1>1 DEF TypesNow
    <2>2. CASE DrainStart(g)  BY <2>1, <2>2 DEF DrainStart, DrainTasks
    <2>3. CASE Reserve(g)  BY <2>1, <2>3 DEF Reserve, DrainTasks
    <2>4. CASE DrainGone(g)
      <3>1. drains'[g] = NoDrain /\ drains[g].at = "read" /\ sub.gen # g
        BY <2>1, <2>4 DEF DrainGone
      <3> QED  BY <3>1 DEF NoDrain
    <2> QED  BY <2>2, <2>3, <2>4
  <1>5. Ahead'
    <2>1. \A k \in Gens : drains'[k].at = "gap" => drains'[k].cursor <= drains'[k].lostTo
      BY <1>3, <1>4, StretchedAhead DEF Ahead
    <2>2. seen.open => seen.gen \in Gens  BY StretchedNow
    <2>3. seen'.open /\ drains'[seen'.gen].at # "off" => sub'.gen = seen'.gen
      BY <1>2, <1>3, <1>4, <2>2, StretchedAhead DEF Ahead, Draining
    <2> QED  BY <1>2, <2>1, <2>3, StretchedAhead DEF Ahead, Draining
  <1>6. Through' = Through
    <2>1. sub.deferred => sub.gen \in Gens  BY <1>1 DEF TypesNow, Subs, Servers, Gens
    <2>2. sub.deferred => drains'[sub.gen].cursor = drains[sub.gen].cursor
      BY <1>3, <1>4, <2>1
    <2> QED  BY <1>2, <2>2 DEF Through
  <1> QED  BY <1>2, <1>5, <1>6, StreamKeeps

LEMMA StreamDrainSinksGap ==
    ASSUME Served, Stretched, Typed', NEW g \in Gens, DrainSinksGap(g)
    PROVE  Stretched' /\ StreamStep
  <1>1. Typed /\ Servers /\ TypesNow  BY TypedNow DEF Served
  <1> DEFINE from == drains[g].cursor
             to == drains[g].lostTo
             items == Gap("retention", g, from + 1, to)
  <1>2. /\ UNCHANGED <<head, alive, sub, session, pc, seen>> /\ seen' = seen
        /\ drains[g].at = "gap" /\ out' = Sink(out, items)
    BY DEF DrainSinksGap
  <1>3. /\ drains'[g].at = "wait" /\ drains'[g].cursor = to
        /\ \A k \in Gens \ {g} : drains'[k] = drains[k]
        /\ drains[g].cursor \in Positions /\ drains[g].lostTo \in Positions
    BY <1>1 DEF DrainSinksGap, TypesNow, DrainTasks
  <1>4. /\ head \in Nat /\ from \in Nat /\ to \in Nat /\ to \in 0 .. head /\ from <= to
        /\ from + 1 \in Nat \ {0} /\ to \in Positions
    BY <1>1, <1>2, <1>3, StretchedAhead DEF Ahead, TypesNow, Positions
  <1>5. Ahead'
    <2>1. \A k \in Gens : drains'[k].at = "gap" => drains'[k].cursor <= drains'[k].lostTo
      BY <1>3, StretchedAhead DEF Ahead
    <2>2. seen.open => seen.gen \in Gens  BY StretchedNow
    <2>3. seen'.open /\ drains'[seen'.gen].at # "off" => sub'.gen = seen'.gen
      BY <1>2, <1>3, <2>2, StretchedAhead DEF Ahead, Draining
    <2> QED  BY <1>2, <2>1, <2>3, StretchedAhead DEF Ahead, Draining
  <1> HIDE DEF from, to
  <1>6. items \in Seq(ItemsTo(head)) /\ Adds(items, g, from, to)
        /\ \A e \in Range(items) : e.gen = g
    <2> DEFINE f == from + 1
    <2>1. f \in Nat \ {0}  BY <1>4
    <2> HIDE DEF f
    <2>2. /\ Gap("retention", g, f, to) \in Seq(ItemsTo(head))
          /\ \A e \in Range(Gap("retention", g, f, to)) : e.gen = g
      BY <1>1, <1>4, <2>1, GapAdmitted
    <2>3. Adds(Gap("retention", g, from + 1, to), g, from, to)  BY <1>4, GapAdds
    <2> QED  BY <2>2, <2>3 DEF f
  <1> HIDE DEF items
  <1>7. seen' = [seen EXCEPT !.ended = seen'.ended]
    BY <1>1, <1>2 DEF TypesNow, Views
  <1>8. CASE seen.open /\ seen.gen = g
    <2>1. /\ sub.gen = g /\ session.gen = 0 /\ sub.deferred /\ ~seen.ended
      <3>1. sub.gen = g  BY <1>2, <1>8, StretchedAhead DEF Ahead, Draining
      <3>2. g # 0  BY DEF Gens
      <3> QED  BY <1>1, <1>2, <3>1, <3>2 DEF Servers, Draining
    <2>2. Through = from /\ Through' = to
      BY <1>2, <1>3, <2>1 DEF Through, from
    <2>3. /\ Through <= to /\ Adds(items, seen.gen, Through, to) /\ Through' = to
          /\ ~seen.ended /\ ~seen'.ended
      BY <1>2, <1>4, <1>6, <1>8, <2>1, <2>2
    <2> QED  BY <1>2, <1>4, <1>5, <1>6, <1>7, <2>3, StreamMoves
  <1>9. CASE ~(seen.open /\ seen.gen = g)
    <2>1. PICK t \in Nat : t = Through  BY StretchedNow
    <2>2. seen.open => Adds(items, seen.gen, t, t)
      BY <1>6, <1>9, NothingAdds
    <2>3. seen.open => Through' = t
      <3>1. ASSUME seen.open, sub.gen = g PROVE FALSE
        <4>1. g # 0  BY DEF Gens
        <4> QED  BY <1>1, <1>9, <3>1, <4>1 DEF Servers
      <3>2. sub.deferred => sub.gen \in Gens  BY <1>1 DEF TypesNow, Subs, Servers, Gens
      <3>3. seen.open /\ sub.deferred => drains'[sub.gen].cursor = drains[sub.gen].cursor
        BY <1>3, <3>1, <3>2
      <3>4. seen.open => Through' = Through  BY <1>2, <3>3 DEF Through
      <3> QED  BY <2>1, <3>4
    <2>4. seen.open => /\ Through <= t /\ Adds(items, seen.gen, Through, t) /\ Through' = t
                       /\ seen'.ended = seen.ended /\ t = Through
      BY <1>2, <2>1, <2>2, <2>3
    <2> QED  BY <1>2, <1>5, <1>6, <1>7, <2>4, StreamMoves
  <1> QED  BY <1>8, <1>9

(* A reading drain of the current attachment.                              *)
LEMMA Reading ==
    ASSUME Served, NEW g \in Gens, drains[g].at # "off", sub.gen = g
    PROVE  /\ session.gen = 0 /\ sub.deferred /\ seen.gen = g /\ seen.open /\ ~seen.ended
           /\ (sub.staged <=> ~alive) /\ Through = drains[g].cursor
  <1>1. g # 0  BY DEF Gens
  <1>2. /\ session.gen = 0 /\ sub.deferred /\ seen.gen = g /\ seen.open /\ ~seen.ended
        /\ (sub.staged <=> ~alive)
    BY <1>1 DEF Served, Servers, Draining
  <1> QED  BY <1>2 DEF Through

LEMMA StreamCompletes ==
    ASSUME Served, Stretched, Typed', NEW g \in Gens, drains[g].at = "read", sub.gen = g,
           NEW items \in Seq(ItemsTo(head)), Adds(items, g, drains[g].cursor, head),
           Completes(g, items), UNCHANGED <<head, alive, session>>
    PROVE  Stretched' /\ StreamStep
  <1>1. Typed /\ Servers /\ TypesNow  BY TypedNow DEF Served
  <1>2. /\ session.gen = 0 /\ sub.deferred /\ seen.gen = g /\ seen.open /\ ~seen.ended
        /\ (sub.staged <=> ~alive) /\ Through = drains[g].cursor
    BY Reading
  <1>3. /\ drains'[g] = NoDrain /\ \A k \in Gens \ {g} : drains'[k] = drains[k]
        /\ sub' = IF sub.staged THEN NoSub ELSE [sub EXCEPT !.deferred = FALSE, !.boundary = 0]
        /\ seen' = [seen EXCEPT !.ended = sub.staged]
    BY <1>1 DEF Completes, TypesNow
  <1>4. /\ seen'.gen = g /\ seen'.open /\ seen'.ended = sub.staged
        /\ seen' = [seen EXCEPT !.ended = seen'.ended]
    BY <1>1, <1>2, <1>3 DEF TypesNow, Views
  <1>5. sub'.deferred = FALSE
    BY <1>1, <1>3 DEF TypesNow, Subs, NoSub
  <1>6. drains'[g].at = "off"  BY <1>3 DEF NoDrain
  <1>7. Ahead'
    <2>1. \A k \in Gens : drains'[k].at = "gap" => drains'[k].cursor <= drains'[k].lostTo
      BY <1>3, <1>6, StretchedAhead DEF Ahead
    <2> QED  BY <1>2, <1>4, <1>6, <2>1 DEF Ahead, Draining
  <1>8. Through' = head /\ head \in Nat /\ Through <= head
    BY <1>1, <1>2, <1>5, StretchedNow DEF Through
  <1>9. ASSUME NEW all \in Seq(ItemsTo(head)), out' = Sink(out, all),
               Adds(all, g, drains[g].cursor, head)
        PROVE  Stretched' /\ StreamStep
    <2>1. PICK t \in Nat : t = head  BY <1>8
    <2>2. /\ Through <= t /\ Adds(all, seen.gen, Through, t) /\ Through' = t
          /\ ~seen.ended /\ (seen'.ended => ~alive /\ t = head)
      BY <1>2, <1>4, <1>8, <1>9, <2>1
    <2> QED  BY <1>4, <1>7, <1>9, <2>2, StreamMoves
  <1>10. /\ Append(items, ExitItem(g)) \in Seq(ItemsTo(head))
         /\ Adds(Append(items, ExitItem(g)), g, drains[g].cursor, head)
    <2>1. drains[g].cursor \in Nat  BY <1>2, StretchedNow
    <2> DEFINE from == drains[g].cursor
    <2>2. from \in Nat /\ Adds(items, g, from, head)  BY <2>1
    <2> HIDE DEF from
    <2>3. /\ Append(items, ExitItem(g)) \in Seq(ItemsTo(head))
          /\ Adds(Append(items, ExitItem(g)), g, from, head)
      BY <1>8, <2>2, ExitAdds
    <2> QED  BY <2>3 DEF from
  <1>11. out' = Sink(out, IF sub.staged THEN Append(items, ExitItem(g)) ELSE items)
    BY DEF Completes
  <1> QED  BY <1>9, <1>10, <1>11

LEMMA StreamDrainsOn ==
    ASSUME Served, Stretched, Typed', NEW g \in Gens, drains[g].at = "read", sub.gen = g,
           NEW end \in Positions, drains[g].cursor <= end, NEW covered \in BOOLEAN,
           DrainsOn(g, end, covered), UNCHANGED <<head, alive, session>>
    PROVE  Stretched' /\ StreamStep
  <1>1. Typed /\ Servers /\ TypesNow  BY TypedNow DEF Served
  <1>2. /\ session.gen = 0 /\ sub.deferred /\ seen.gen = g /\ seen.open /\ ~seen.ended
        /\ Through = drains[g].cursor
    BY Reading
  <1>3. /\ drains'[g].at = "wait" /\ drains'[g].cursor = end
        /\ \A k \in Gens \ {g} : drains'[k] = drains[k]
        /\ seen' = seen
    BY <1>1 DEF DrainsOn, TypesNow, DrainTasks
  <1>4. sub'.gen = g /\ sub'.deferred
    BY <1>1, <1>2 DEF DrainsOn, TypesNow, Subs
  <1>5. Ahead'
    <2>1. \A k \in Gens : drains'[k].at = "gap" => drains'[k].cursor <= drains'[k].lostTo
      BY <1>3, StretchedAhead DEF Ahead
    <2> QED  BY <1>2, <1>3, <1>4, <2>1 DEF Ahead
  <1>6. Through' = end  BY <1>2, <1>3, <1>4 DEF Through
  <1> DEFINE items == Frames(g, drains[g].cursor, end)
  <1>7. drains[g].cursor \in Positions /\ head \in Nat
    BY <1>1, DrainPageTyped DEF TypesNow
  <1>8. items \in Seq(ItemsTo(head)) /\ Adds(items, g, drains[g].cursor, end)
    BY <1>1, <1>7, PageAdmitted, FramesAdd DEF Positions
  <1>9. out' = Sink(out, items)  BY DEF DrainsOn
  <1> HIDE DEF items
  <1>10. seen' = [seen EXCEPT !.ended = seen'.ended]
    BY <1>1, <1>3 DEF TypesNow, Views
  <1>11. PICK t \in Nat : t = end  BY <1>7 DEF Positions
  <1>12. /\ Through <= t /\ Adds(items, seen.gen, Through, t) /\ Through' = t
         /\ ~seen.ended /\ ~seen'.ended
    BY <1>2, <1>3, <1>6, <1>8, <1>11
  <1> QED  BY <1>5, <1>8, <1>9, <1>10, <1>12, StreamMoves

LEMMA StreamDrainPages ==
    ASSUME Served, Stretched, Typed', NEW g \in Gens, DrainPages(g)
    PROVE  Stretched' /\ StreamStep
  <1>1. Typed /\ Servers /\ TypesNow  BY TypedNow DEF Served
  <1>2. /\ UNCHANGED <<head, alive, session, pc>>
        /\ drains[g].at = "read" /\ sub.gen = g
    BY DEF DrainPages
  <1> DEFINE from == drains[g].cursor
             end == PageEnd(from, drains[g].target)
  <1>3. from \in Positions /\ end \in Positions /\ from <= end /\ head \in Nat
    BY <1>1, DrainPageTyped DEF TypesNow
  <1>4. from \in Nat /\ from <= head /\ end <= head /\ from \in 0 .. head /\ end \in 0 .. head
    BY <1>3 DEF Positions
  <1>5. Frames(g, from, end) \in Seq(ItemsTo(head)) /\ Adds(Frames(g, from, end), g, from, end)
    BY <1>1, <1>3, <1>4, PageAdmitted, FramesAdd
  <1>6. <<>> \in Seq(ItemsTo(head)) /\ Adds(<<>>, g, from, from)
    BY <1>4, NothingAdds DEF Range
  <1>7. \/ from >= head /\ Completes(g, <<>>)
        \/ /\ from < head /\ from + 1 < Oldest
           /\ drains' = [drains EXCEPT ![g] = [drains[g] EXCEPT !.at = "gap", !.lostTo = Oldest - 1]]
           /\ UNCHANGED <<sub, out, seen>>
        \/ end >= head /\ Completes(g, Frames(g, from, end))
        \/ DrainsOn(g, end, end >= drains[g].target)
    BY <1>1 DEF DrainPages, TypesNow
  <1>8. (end >= drains[g].target) \in BOOLEAN  OBVIOUS
  <1>9. CASE from >= head /\ Completes(g, <<>>)
    <2>1. from = head  BY <1>3, <1>4, <1>9
    <2>2. Adds(<<>>, g, drains[g].cursor, head)  BY <1>6, <2>1
    <2> QED  BY <1>2, <1>6, <1>9, <2>2, StreamCompletes
  <1>10. CASE /\ from < head /\ from + 1 < Oldest
              /\ drains' = [drains EXCEPT ![g] = [drains[g] EXCEPT !.at = "gap", !.lostTo = Oldest - 1]]
              /\ UNCHANGED <<sub, out, seen>>
    <2>1. /\ drains[g] \in DrainTasks /\ drains \in [Gens -> DrainTasks]  BY <1>1 DEF TypesNow
    <2>2. /\ drains'[g].at = "gap" /\ drains'[g].cursor = from /\ drains'[g].lostTo = Oldest - 1
          /\ \A k \in Gens \ {g} : drains'[k] = drains[k]
      BY <1>10, <2>1 DEF DrainTasks
    <2>3. Oldest \in 1 .. (head + 1)  BY <1>3, OldestBounds
    <2>4. from <= Oldest - 1  BY <1>4, <1>10, <2>3
    <2>5. \A k \in Gens : drains'[k].at = "gap" => drains'[k].cursor <= drains'[k].lostTo
      BY <2>2, <2>4, StretchedAhead DEF Ahead
    <2>6. /\ session.gen = 0 /\ sub.deferred /\ seen.gen = g
      BY <1>2, Reading
    <2>7. Ahead'  BY <1>2, <1>10, <2>5, <2>6 DEF Ahead
    <2>8. Through' = Through  BY <1>2, <1>10, <2>2 DEF Through
    <2> QED  BY <1>2, <1>10, <2>7, <2>8, StreamKeeps
  <1>11. CASE end >= head /\ Completes(g, Frames(g, from, end))
    <2>1. end = head  BY <1>3, <1>4, <1>11
    <2> DEFINE items == Frames(g, from, end)
    <2>2. items \in Seq(ItemsTo(head)) /\ Adds(items, g, drains[g].cursor, head)
      BY <1>5, <2>1
    <2>3. Completes(g, items)  BY <1>11
    <2> HIDE DEF items
    <2> QED  BY <1>2, <2>2, <2>3, StreamCompletes
  <1>12. CASE DrainsOn(g, end, end >= drains[g].target)
    <2>1. drains[g].cursor <= end  BY <1>3
    <2> HIDE DEF end
    <2> QED  BY <1>2, <1>3, <1>8, <1>12, <2>1, StreamDrainsOn
  <1> QED  BY <1>7, <1>9, <1>10, <1>11, <1>12

LEMMA StreamDrainHandsOff ==
    ASSUME Served, Stretched, Typed', NEW g \in Gens, DrainHandsOff(g)
    PROVE  Stretched' /\ StreamStep
  <1>1. Typed /\ Servers /\ TypesNow  BY TypedNow DEF Served
  <1>2. /\ UNCHANGED <<head, alive, session, pc>>
        /\ drains[g].at = "read" /\ sub.gen = g
    BY DEF DrainHandsOff
  <1> DEFINE from == drains[g].cursor
             end == PageEnd(from, sub.boundary)
             o == Oldest - 1
  <1>3. from \in Positions /\ end \in Positions /\ from <= end /\ head \in Nat
    BY <1>1, DrainPageTyped DEF TypesNow
  <1>4. /\ from \in Nat /\ from <= head /\ end <= head /\ end \in Nat
        /\ from \in 0 .. head /\ end \in 0 .. head /\ head \in 0 .. head
    BY <1>3 DEF Positions
  <1>5. Oldest \in 1 .. (head + 1) /\ o \in 0 .. head /\ o \in Nat /\ Oldest = o + 1
    BY <1>3, OldestBounds
  <1> DEFINE expired == Gap("retention", g, from + 1, Oldest - 1) \o Gap("residual", g, Oldest, head)
             last == Frames(g, from, end) \o Gap("residual", g, end + 1, head)
  <1>6. \/ from + 1 < Oldest /\ Completes(g, expired)
        \/ Completes(g, last)
        \/ DrainsOn(g, end, FALSE)
    BY DEF DrainHandsOff
  <1>7. expired \in Seq(ItemsTo(head)) /\ last \in Seq(ItemsTo(head))
    BY <1>1, <1>3, HandoffTyped
  <1> HIDE DEF from, end, o
  <1>8. CASE from + 1 < Oldest /\ Completes(g, expired)
    <2> DEFINE a == Gap("retention", g, from + 1, o)
               b == Gap("residual", g, o + 1, head)
               fr == from + 1
               ol == o + 1
    <2>1. from <= o /\ o <= head  BY <1>4, <1>5, <1>8
    <2>2. Adds(a, g, from, o) /\ Adds(b, g, o, head)
      BY <1>3, <1>4, <1>5, GapAdds
    <2>3. fr \in Nat \ {0} /\ ol \in Nat \ {0} /\ o \in Positions /\ head \in Positions
      BY <1>3, <1>4, <1>5 DEF Positions
    <2> HIDE DEF fr, ol
    <2>4. /\ Gap("retention", g, fr, o) \in Seq(ItemsTo(head))
          /\ Gap("residual", g, ol, head) \in Seq(ItemsTo(head))
      BY <1>1, <2>3, GapAdmitted
    <2>5. a \in Seq(ItemsTo(head)) /\ b \in Seq(ItemsTo(head))  BY <2>4 DEF fr, ol
    <2>6. expired = a \o b
      <3>1. Oldest = o + 1 /\ Oldest - 1 = o  BY <1>5 DEF o
      <3> QED  BY <3>1
    <2> HIDE DEF a, b, expired
    <2>7. Adds(a \o b, g, from, head)
      BY <1>3, <1>4, <1>5, <2>1, <2>2, <2>5, JoinedAdds
    <2>8. Adds(expired, g, drains[g].cursor, head)  BY <2>6, <2>7 DEF from
    <2> QED  BY <1>2, <1>7, <1>8, <2>8, StreamCompletes
  <1>9. CASE Completes(g, last)
    <2> DEFINE a == Frames(g, from, end)
               b == Gap("residual", g, end + 1, head)
               en == end + 1
    <2>1. Adds(a, g, from, end) /\ Adds(b, g, end, head)
      BY <1>3, <1>4, FramesAdd, GapAdds
    <2>2. en \in Nat \ {0} /\ head \in Positions  BY <1>3, <1>4 DEF Positions
    <2> HIDE DEF en
    <2>3. a \in Seq(ItemsTo(head)) /\ Gap("residual", g, en, head) \in Seq(ItemsTo(head))
      BY <1>1, <1>3, <2>2, PageAdmitted, GapAdmitted
    <2>4. b \in Seq(ItemsTo(head))  BY <2>3 DEF en
    <2>5. last = a \o b  OBVIOUS
    <2> HIDE DEF a, b, last
    <2>6. Adds(a \o b, g, from, head)
      BY <1>3, <1>4, <2>1, <2>3, <2>4, JoinedAdds
    <2>7. Adds(last, g, drains[g].cursor, head)  BY <2>5, <2>6 DEF from
    <2> QED  BY <1>2, <1>7, <1>9, <2>7, StreamCompletes
  <1>10. CASE DrainsOn(g, end, FALSE)
    <2>1. drains[g].cursor <= end  BY <1>3 DEF from
    <2> QED  BY <1>2, <1>3, <1>10, <2>1, StreamDrainsOn
  <1> QED  BY <1>6, <1>8, <1>9, <1>10

LEMMA StreamPump ==
    ASSUME Served, Stretched, Typed', Pump
    PROVE  Stretched' /\ StreamStep
  <1>1. Typed /\ Servers /\ TypesNow  BY TypedNow DEF Served
  <1>2. CASE SendControl
    <2>1. /\ UNCHANGED <<head, alive, sub, session, pc, drains, out, seen>> /\ seen' = seen
      BY <1>2 DEF SendControl
    <2>2. Ahead'  BY <2>1, StretchedAhead DEF Ahead, Draining
    <2>3. Through' = Through  BY <2>1 DEF Through
    <2> QED  BY <2>1, <2>2, <2>3, StreamKeeps
  <1>3. ASSUME UNCHANGED <<head, alive, sub, session, pc, drains>>,
               seen'.gen = seen.gen, seen'.base = seen.base, seen'.open = seen.open,
               seen'.ended = seen.ended,
               seen.open => \A n \in Nat :
                 (n \in seen'.got \/ Carries(out', seen.gen, n))
                   <=> (n \in seen.got \/ Carries(out, seen.gen, n))
        PROVE  Stretched' /\ StreamStep
    <2>1. Ahead'  BY <1>3, StretchedAhead DEF Ahead, Draining
    <2>2. Through' = Through  BY <1>3 DEF Through
    <2>3. PICK t \in Nat : t = Through  BY StretchedNow
    <2>4. seen.open => /\ seen.base <= t /\ Covers(out, seen.got, seen.gen, seen.base, t)
      BY <2>3, StretchedNow
    <2>5. seen'.open => /\ Through' = t /\ seen'.base <= t
                        /\ Covers(out', seen'.got, seen'.gen, seen'.base, t)
      BY <1>3, <2>2, <2>3, <2>4 DEF Covers
    <2>6. Stretched'  BY <2>1, <2>5, StretchedNext
    <2>7. StreamStays  BY <1>3, <2>2 DEF StreamStays
    <2> QED  BY <2>6, <2>7 DEF StreamStep
  <1>4. CASE Lease
    <2>1. /\ UNCHANGED <<head, alive, sub, session, pc, drains, seen>> /\ seen' = seen
          /\ Contents(out') = Contents(out)
      BY <1>1, <1>4, Leased
    <2>2. \A n : Carries(out', seen.gen, n) <=> Carries(out, seen.gen, n)
      BY <2>1 DEF Carries
    <2> QED  BY <1>3, <2>1, <2>2
  <1>5. CASE SendDone
    <2> DEFINE e == out.wire[1]
    <2>1. /\ UNCHANGED <<head, alive, sub, session, pc, drains>>
          /\ Contents(out) = Contents(out') \cup {e} /\ out.wire # <<>>
      BY <1>1, <1>5, Flushed
    <2>2. e.from \in Positions /\ e.to \in Positions /\ head \in Nat
      BY <1>1, <2>1, WireTyped DEF TypesNow
    <2>3. seen' = IF e.gen = seen.gen /\ e.kind # "exit"
                    THEN [seen EXCEPT !.got = @ \cup (e.from .. e.to)] ELSE seen
      BY <1>5 DEF SendDone
    <2> HIDE DEF e
    <2>4. /\ seen'.gen = seen.gen /\ seen'.open = seen.open /\ seen'.ended = seen.ended
          /\ seen'.base = seen.base
          /\ seen'.got = IF e.gen = seen.gen /\ e.kind # "exit"
                           THEN seen.got \cup (e.from .. e.to) ELSE seen.got
      BY <1>1, <2>3 DEF TypesNow, Views
    <2>5. \A n \in Nat : Carries(out, seen.gen, n)
                           <=> Carries(out', seen.gen, n) \/ Holds(e, seen.gen, n)
      BY <2>1 DEF Carries
    <2>6. \A n \in Nat : n \in e.from .. e.to <=> e.from <= n /\ n <= e.to
      BY <2>2 DEF Positions
    <2>7. \A n \in Nat : n \in seen'.got <=> n \in seen.got \/ Holds(e, seen.gen, n)
      BY <2>4, <2>6 DEF Holds
    <2> QED  BY <1>3, <2>1, <2>4, <2>5, <2>7
  <1> QED  BY <1>2, <1>4, <1>5 DEF Pump

LEMMA StreamPane ==
    ASSUME Served, Stretched, Typed',
           Consume \/ Reattach \/ Refresh \/ Leave \/ UNCHANGED vars
    PROVE  Stretched' /\ StreamStep
  <1>1. /\ UNCHANGED <<head, alive, sub, session, pc, drains, out, seen>> /\ seen' = seen
    BY DEF Consume, Reattach, Refresh, Leave, vars
  <1>2. Ahead'  BY <1>1, StretchedAhead DEF Ahead, Draining
  <1>3. Through' = Through  BY <1>1 DEF Through
  <1> QED  BY <1>1, <1>2, <1>3, StreamKeeps

LEMMA StretchedStep ==
    ASSUME Served, Stretched, [Next]_vars
    PROVE  Stretched' /\ StreamStep
  <1>1. Typed'  BY TypedStep DEF Served
  <1>2. ASSUME NEW g \in Gens, Drain(g) PROVE Stretched' /\ StreamStep
    BY <1>1, <1>2, StreamDrainTurns, StreamDrainPages, StreamDrainSinksGap,
       StreamDrainHandsOff
    DEF Drain
  <1>3. ASSUME Dispatch PROVE Stretched' /\ StreamStep
    BY <1>1, <1>3, StreamAttachRunning, StreamAttachExited, StreamDetachPane,
       StreamStartSession, StreamCredit, StreamDrive, StreamSettleTransfers
    DEF Dispatch
  <1> QED
    BY <1>1, <1>2, <1>3, StreamProduce, StreamExit, StreamCredit, StreamPump, StreamPane
    DEF Next

(* The attachment as StreamView sees it.                                   *)
View ==
    IF ~seen.open THEN Closed
    ELSE [base |-> seen.base, covered |-> Covered,
          phase |-> IF seen.ended THEN "ended" ELSE "open"]

\* Covered from base through t.
Viewed(base, t, ended) ==
    [base |-> base, covered |-> (base + 1) .. t, phase |-> IF ended THEN "ended" ELSE "open"]

LEMMA ViewNow ==
    ASSUME Served, Stretched
    PROVE  /\ ~seen.open => View = Closed
           /\ seen.open => View = Viewed(seen.base, Through, seen.ended)
           /\ seen.open => seen.base \in Nat /\ seen.base <= Through
           /\ Through \in Nat /\ Through <= head /\ head \in Nat
  <1>1. /\ seen.open => seen.base \in Nat /\ seen.base <= Through
        /\ Through \in Nat /\ Through <= head /\ head \in Nat
    BY StretchedNow
  <1>2. seen.open => Covered = (seen.base + 1) .. Through  BY DEF Stretched
  <1> QED  BY <1>1, <1>2 DEF View, Viewed

LEMMA ViewNext ==
    ASSUME Stretched'
    PROVE  /\ ~seen'.open => View' = Closed
           /\ seen'.open => View' = Viewed(seen'.base, Through', seen'.ended)
           /\ seen'.open => seen'.base <= Through'
  BY DEF Stretched, View, Viewed, Closed

LEMMA ThroughNext ==
    ASSUME Typed', Servers'
    PROVE  Through' \in Nat /\ Through' <= head' /\ seen'.base \in Nat
  <1>1. /\ head' \in 0 .. MaxSeq /\ sub' \in Subs' /\ session' \in Sessions'
        /\ drains' \in [Gens -> DrainTasks'] /\ seen' \in Views'
    BY DEF Typed, TypeOK
  <1>2. MaxSeq \in Nat  BY DeliveryAssumption
  <1>3. head' \in Nat /\ Positions' = 0 .. head'  BY <1>1, <1>2 DEF Positions
  <1>4. session'.credited \in 0 .. head' /\ session'.pageEnd \in 0 .. head'
        /\ seen'.base \in 0 .. head'
    BY <1>1, <1>3 DEF Sessions, Views
  <1>5. sub'.deferred => sub'.gen \in Gens
    BY <1>1 DEF Subs, Servers, Gens
  <1>6. sub'.deferred => drains'[sub'.gen].cursor \in 0 .. head'
    BY <1>1, <1>3, <1>5 DEF DrainTasks
  <1>7. Through' \in 0 .. head'
    BY <1>3, <1>4, <1>6 DEF Through
  <1> QED  BY <1>3, <1>4, <1>7

\* StreamView's actions over the mapped view.
LEMMA AbstractActions ==
    /\ Abstract!vars = <<head, alive, View>>
    /\ Abstract!Produce <=>
         /\ alive /\ head' = head + 1 /\ alive' = alive
         /\ \/ View' = View
            \/ /\ View.phase = "open" /\ View.covered = (View.base + 1) .. head
               /\ View' = [View EXCEPT !.covered = (View.base + 1) .. (head + 1)]
    /\ Abstract!Die <=>
         /\ alive /\ alive' = FALSE /\ head' = head
         /\ \/ View' = View
            \/ /\ View.phase = "open" /\ View.covered = (View.base + 1) .. head
               /\ View' = [View EXCEPT !.phase = "ended"]
    /\ Abstract!Attach <=>
         /\ \E base \in 0 .. head : \E n \in base .. head, phase \in {"open", "ended"} :
              /\ phase = "ended" => ~alive /\ n = head
              /\ View' = [base |-> base, covered |-> (base + 1) .. n, phase |-> phase]
         /\ UNCHANGED <<head, alive>>
    /\ Abstract!Tell <=>
         /\ \E n \in 0 .. head, phase \in {"open", "ended"} :
              /\ View.phase = "open" /\ View.covered \subseteq (View.base + 1) .. n
              /\ phase = "ended" => ~alive /\ n = head
              /\ View' = [[View EXCEPT !.covered = (View.base + 1) .. n] EXCEPT !.phase = phase]
         /\ UNCHANGED <<head, alive>>
    /\ Abstract!Detach <=> View' = Closed /\ UNCHANGED <<head, alive>>
  BY DEF View, Closed, Abstract!vars, Abstract!Produce, Abstract!Die, Abstract!Attach,
         Abstract!Tell, Abstract!Detach, Abstract!Closed, Abstract!Stretch,
         Abstract!CoveredThrough, Abstract!Extends

LEMMA StreamRefines ==
    ASSUME Served, Stretched, Stretched', Served', StreamStep
    PROVE  Abstract!Next \/ UNCHANGED Abstract!vars
  <1>1. /\ ~seen.open => View = Closed
        /\ seen.open => View = Viewed(seen.base, Through, seen.ended)
        /\ seen.open => seen.base \in Nat /\ seen.base <= Through
        /\ Through \in Nat /\ Through <= head /\ head \in Nat
    BY ViewNow
  <1>2. /\ ~seen'.open => View' = Closed
        /\ seen'.open => View' = Viewed(seen'.base, Through', seen'.ended)
        /\ seen'.open => seen'.base <= Through'
    BY ViewNext
  <1>3. ASSUME NEW base, NEW t, NEW n, View = Viewed(base, t, FALSE)
        PROVE  /\ View.phase = "open" /\ View.base = base /\ View.covered = (base + 1) .. t
               /\ [View EXCEPT !.covered = (base + 1) .. n] = Viewed(base, n, FALSE)
               /\ [View EXCEPT !.phase = "ended"] = Viewed(base, t, TRUE)
    <2> DEFINE C == (base + 1) .. t
               D == (base + 1) .. n
    <2>1. View \in [base : {base}, covered : {C}, phase : {"open"}]
      BY <1>3 DEF Viewed
    <2>2. /\ Viewed(base, n, FALSE) = [base |-> base, covered |-> D, phase |-> "open"]
          /\ Viewed(base, t, TRUE) = [base |-> base, covered |-> C, phase |-> "ended"]
      BY DEF Viewed
    <2> HIDE DEF C, D
    <2>3. View.phase = "open" /\ View.base = base /\ View.covered = C  BY <2>1
    <2>4. [View EXCEPT !.covered = D] = [base |-> base, covered |-> D, phase |-> "open"]
      BY <2>1
    <2>5. [View EXCEPT !.phase = "ended"] = [base |-> base, covered |-> C, phase |-> "ended"]
      BY <2>1
    <2>7. View.covered = (base + 1) .. t  BY <2>3 DEF C
    <2>8. [View EXCEPT !.covered = (base + 1) .. n] = Viewed(base, n, FALSE)
      <3>1. [View EXCEPT !.covered = D] = Viewed(base, n, FALSE)  BY <2>2, <2>4
      <3> QED  BY <3>1 DEF D
    <2> QED  BY <2>2, <2>3, <2>5, <2>7, <2>8
  <1>a. /\ seen'.base \in Nat /\ Through' \in Nat /\ Through' <= head'
    <2>1. Typed' /\ Servers'  BY DEF Served
    <2> QED  BY <2>1, ThroughNext
  <1>4. CASE StreamStays
    <2>1. CASE ~seen.open
      <3>1. ~seen'.open  BY <1>4, <2>1 DEF StreamStays
      <3>2. View' = View  BY <1>1, <1>2, <2>1, <3>1
      <3> QED  BY <1>4, <3>2 DEF StreamStays, Abstract!vars, View
    <2>2. CASE seen.open
      <3>1. /\ seen'.open /\ seen'.base = seen.base /\ seen'.ended = seen.ended
            /\ Through' = Through
        BY <1>4, <2>2 DEF StreamStays
      <3>2. View' = View  BY <1>1, <1>2, <2>2, <3>1
      <3> QED  BY <1>4, <3>2 DEF StreamStays, Abstract!vars, View
    <2> QED  BY <2>1, <2>2
  <1>5. CASE StreamTells
    <2>1. /\ seen.open /\ ~seen.ended /\ seen'.open /\ seen'.base = seen.base
          /\ Through <= Through' /\ UNCHANGED <<head, alive>>
          /\ seen'.ended => ~alive /\ Through' = head
      BY <1>5 DEF StreamTells
    <2>2. PICK n \in 0 .. head : n = Through'  BY <1>1, <1>a, <2>1
    <2>3. PICK b \in Nat, t \in Nat : b = seen.base /\ t = Through  BY <1>1, <2>1
    <2>4. View = Viewed(b, t, FALSE) /\ View' = Viewed(b, n, seen'.ended) /\ t <= n
      <3>1. View = Viewed(b, t, seen.ended)  BY <1>1, <2>1, <2>3
      <3>2. View = Viewed(b, t, FALSE)  BY <2>1, <3>1 DEF Viewed
      <3>3. View' = Viewed(b, n, seen'.ended)  BY <1>2, <2>1, <2>2, <2>3
      <3> QED  BY <2>1, <2>2, <2>3, <3>2, <3>3
    <2>5. View.phase = "open" /\ View.base = b /\ View.covered \subseteq (b + 1) .. n
      <3>1. View.phase = "open" /\ View.base = b /\ View.covered = (b + 1) .. t
        BY <1>3, <2>4
      <3>2. (b + 1) .. t \subseteq (b + 1) .. n  BY <1>1, <2>2, <2>4
      <3> QED  BY <3>1, <3>2
    <2>6. PICK phase \in {"open", "ended"} : phase = IF seen'.ended THEN "ended" ELSE "open"
      OBVIOUS
    <2>7. View' = [[View EXCEPT !.covered = (b + 1) .. n] EXCEPT !.phase = phase]
      <3>1. View' = [base |-> b, covered |-> (b + 1) .. n, phase |-> phase]
        <4>1. View' = Viewed(b, n, seen'.ended)  BY <2>4
        <4> QED  BY <2>6, <4>1 DEF Viewed
      <3> DEFINE C == (b + 1) .. t
                 D == (b + 1) .. n
      <3>2. View \in [base : {b}, covered : {C}, phase : {"open"}]
        BY <2>4 DEF Viewed
      <3>3. View' = [base |-> b, covered |-> D, phase |-> phase]  BY <3>1
      <3> HIDE DEF C, D
      <3>4. PICK y : y = [View EXCEPT !.covered = D]  OBVIOUS
      <3>5. y \in [base : {b}, covered : {D}, phase : {"open"}]  BY <3>2, <3>4
      <3>6. [y EXCEPT !.phase = phase] = [base |-> b, covered |-> D, phase |-> phase]
        BY <3>5
      <3>7. [[View EXCEPT !.covered = D] EXCEPT !.phase = phase] = [y EXCEPT !.phase = phase]
        BY <3>4, Zenon
      <3>8. View' = [[View EXCEPT !.covered = D] EXCEPT !.phase = phase]
        BY <3>3, <3>6, <3>7, Zenon
      <3> QED  BY <3>8 DEF D
    <2>8. phase = "ended" => ~alive /\ n = head
      BY <2>1, <2>2, <2>6
    <2>9. Abstract!Tell  BY <2>1, <2>5, <2>7, <2>8, AbstractActions
    <2> QED  BY <2>9 DEF Abstract!Next
  <1>6. CASE StreamAttaches
    <2>1. /\ seen'.open /\ UNCHANGED <<head, alive>>
          /\ (seen'.ended => ~alive /\ Through' = head)
      BY <1>6 DEF StreamAttaches
    <2>2. PICK b \in 0 .. head : b = seen'.base  BY <1>1, <1>2, <1>a, <2>1
    <2>3. PICK n \in b .. head : n = Through'  BY <1>1, <1>2, <1>a, <2>1, <2>2
    <2>4. PICK phase \in {"open", "ended"} : phase = IF seen'.ended THEN "ended" ELSE "open"
      OBVIOUS
    <2>5. View' = [base |-> b, covered |-> (b + 1) .. n, phase |-> phase]
      BY <1>2, <2>1, <2>2, <2>3, <2>4 DEF Viewed
    <2>6. phase = "ended" => ~alive /\ n = head  BY <2>1, <2>3, <2>4
    <2>7. Abstract!Attach  BY <2>1, <2>5, <2>6, AbstractActions
    <2> QED  BY <2>7 DEF Abstract!Next
  <1>7. CASE StreamDetaches
    <2>1. View' = Closed /\ UNCHANGED <<head, alive>>  BY <1>2, <1>7 DEF StreamDetaches
    <2> QED  BY <2>1, AbstractActions DEF Abstract!Next
  <1>8. CASE StreamGrows
    <2>1. /\ alive /\ alive' = alive /\ head' = head + 1 /\ seen' = seen
          /\ seen.open => \/ Through' = Through
                          \/ ~seen.ended /\ Through = head /\ Through' = head + 1
      BY <1>8 DEF StreamGrows
    <2>2. CASE View' = View  BY <2>1, <2>2, AbstractActions DEF Abstract!Next
    <2>3. CASE View' # View
      <3>1. seen.open /\ ~seen.ended /\ Through = head /\ Through' = head + 1
        BY <1>1, <1>2, <2>1, <2>3
      <3>2. View = Viewed(seen.base, head, FALSE)
            /\ View' = Viewed(seen.base, head + 1, FALSE)
        BY <1>1, <1>2, <2>1, <3>1 DEF Viewed
      <3>3. /\ View.phase = "open" /\ View.base = seen.base
            /\ View.covered = (View.base + 1) .. head
            /\ View' = [View EXCEPT !.covered = (View.base + 1) .. (head + 1)]
        BY <1>3, <3>1, <3>2
      <3> QED  BY <2>1, <3>3, AbstractActions DEF Abstract!Next
    <2> QED  BY <2>2, <2>3
  <1>9. CASE StreamDies
    <2>1. /\ alive /\ alive' = FALSE /\ head' = head /\ seen'.open = seen.open
          /\ seen.open =>
               /\ seen'.base = seen.base /\ Through' = Through
               /\ seen'.ended = seen.ended \/ (seen'.ended /\ ~seen.ended /\ Through = head)
      BY <1>9 DEF StreamDies
    <2>2. CASE View' = View  BY <2>1, <2>2, AbstractActions DEF Abstract!Next
    <2>3. CASE View' # View
      <3>1. seen.open /\ seen'.ended /\ ~seen.ended /\ Through = head
        BY <1>1, <1>2, <2>1, <2>3
      <3>2. View = Viewed(seen.base, head, FALSE)
            /\ View' = Viewed(seen.base, head, TRUE)
        BY <1>1, <1>2, <2>1, <3>1 DEF Viewed
      <3>3. /\ View.phase = "open" /\ View.base = seen.base
            /\ View.covered = (View.base + 1) .. head
            /\ View' = [View EXCEPT !.phase = "ended"]
        BY <1>3, <3>1, <3>2
      <3> QED  BY <2>1, <3>3, AbstractActions DEF Abstract!Next
    <2> QED  BY <2>2, <2>3
  <1> QED  BY <1>4, <1>5, <1>6, <1>7, <1>8, <1>9 DEF StreamStep

LEMMA StretchedInit ==
    ASSUME Init
    PROVE  Stretched /\ Abstract!Init
  <1>1. /\ session.gen = 0 /\ ~seen.open /\ \A g \in Gens : drains[g].at = "off"
        /\ head = 0 /\ alive = TRUE
    BY DEF Init, NoSession, NoView, NoDrain
  <1>2. Stretched  BY <1>1 DEF Stretched
  <1>3. Abstract!Init  BY <1>1 DEF Abstract!Init, Closed, Abstract!Closed
  <1> QED  BY <1>2, <1>3

(* Pages, live output, retention and residual gaps and evictions together  *)
(* cover the stream of each attachment in order, each position once, and   *)
(* the exit follows the whole stream: registry.rs and paced_replay.rs, with *)
(* the queue of terminal_delivery_queue.rs, implement StreamView.          *)
THEOREM StreamIsKept == Spec => StreamKept
  <1>1. Init => Abstract!Init /\ Served /\ Stretched  BY ServedInit, StretchedInit
  <1>2. Served /\ Stretched /\ [Next]_vars => Served' /\ Stretched'
    BY ServedStep, StretchedStep
  <1>3. Served /\ Stretched /\ [Next]_vars => [Abstract!Next]_(Abstract!vars)
    BY ServedStep, StretchedStep, StreamRefines
  <1> QED  BY <1>1, <1>2, <1>3, PTL DEF Spec, StreamKept, Abstract!Spec

-----------------------------------------------------------------------------
(* Room for a page: how many frames the lane holds.                        *)

LEMMA NoMoreThan ==
    ASSUME NEW S, NEW T, IsFiniteSet(T), NEW f \in [S -> T],
           \A x, y \in S : f[x] = f[y] => x = y
    PROVE  IsFiniteSet(S) /\ Cardinality(S) <= Cardinality(T)
  <1>1. f \in Injection(S, T)  BY DEF Injection, IsInjective
  <1> QED  BY <1>1, FS_Injection

LEMMA WithinFewer ==
    ASSUME NEW S, NEW s \in Seq(S), NEW t \in Seq(S), Within(s, t)
    PROVE  Cardinality(FramesAt(s)) <= Cardinality(FramesAt(t))
  <1>1. PICK f \in [1 .. Len(s) -> 1 .. Len(t)] :
          /\ \A i \in 1 .. Len(s) : s[i] = t[f[i]]
          /\ \A i, j \in 1 .. Len(s) : i < j => f[i] < f[j]
    BY DEF Within
  <1>2. /\ FramesAt(s) \subseteq 1 .. Len(s) /\ FramesAt(t) \subseteq 1 .. Len(t)
        /\ IsFiniteSet(FramesAt(t))
    BY FramesFinite
  <1>3. Len(s) \in Nat /\ Len(t) \in Nat /\ DOMAIN s = 1 .. Len(s) /\ DOMAIN t = 1 .. Len(t)
    OBVIOUS
  <1> DEFINE g == [i \in FramesAt(s) |-> f[i]]
  <1>4. ASSUME NEW i \in FramesAt(s) PROVE f[i] \in FramesAt(t)
    <2>1. i \in 1 .. Len(s) /\ s[i].kind = "frame"  BY <1>2 DEF FramesAt
    <2>2. f[i] \in 1 .. Len(t) /\ t[f[i]].kind = "frame"  BY <1>1, <2>1
    <2> QED  BY <1>3, <2>2 DEF FramesAt
  <1>5. g \in [FramesAt(s) -> FramesAt(t)]  BY <1>4
  <1>6. \A i, j \in FramesAt(s) : g[i] = g[j] => i = j
    <2> SUFFICES ASSUME NEW i \in FramesAt(s), NEW j \in FramesAt(s), f[i] = f[j]
                 PROVE  i = j
      OBVIOUS
    <2>1. i \in 1 .. Len(s) /\ j \in 1 .. Len(s)  BY <1>2
    <2>2. f[i] \in Int /\ f[j] \in Int  BY <1>1, <2>1
    <2>3. ~(i < j) /\ ~(j < i)  BY <1>1, <2>1, <2>2
    <2> QED  BY <2>1, <2>3
  <1> HIDE DEF g
  <1> QED  BY <1>2, <1>5, <1>6, NoMoreThan

\* The positions of t's frames once t follows n others.
LEMMA ShiftedBack ==
    ASSUME NEW T, T \subseteq Nat, IsFiniteSet(T), NEW n \in Nat,
           NEW U, \A x \in U : x \in Nat /\ x - n \in T
    PROVE  IsFiniteSet(U) /\ Cardinality(U) <= Cardinality(T)
  <1> DEFINE g == [x \in U |-> x - n]
  <1>1. g \in [U -> T]  OBVIOUS
  <1>2. ASSUME NEW x \in U, NEW y \in U, g[x] = g[y] PROVE x = y
    <2>1. x \in Nat /\ y \in Nat /\ x - n = y - n  BY <1>2
    <2> QED  BY <2>1
  <1> HIDE DEF g
  <1> QED  BY <1>1, <1>2, NoMoreThan

LEMMA JoinedFrames ==
    ASSUME NEW S, NEW s \in Seq(S), NEW t \in Seq(S)
    PROVE  Cardinality(FramesAt(s \o t))
             <= Cardinality(FramesAt(s)) + Cardinality(FramesAt(t))
  <1>1. /\ FramesAt(s) \subseteq 1 .. Len(s)
        /\ IsFiniteSet(FramesAt(s)) /\ Cardinality(FramesAt(s)) \in Nat
    BY FramesFinite
  <1>2. /\ FramesAt(t) \subseteq 1 .. Len(t)
        /\ IsFiniteSet(FramesAt(t)) /\ Cardinality(FramesAt(t)) \in Nat
    BY FramesFinite
  <1>3. Len(s) \in Nat /\ Len(t) \in Nat  OBVIOUS
  <1>4. s \o t \in Seq(S) /\ Len(s \o t) = Len(s) + Len(t)  OBVIOUS
  <1>5. FramesAt(s \o t) \subseteq 1 .. Len(s \o t)  BY <1>4, FramesFinite
  <1> DEFINE early == {k \in FramesAt(s \o t) : k <= Len(s)}
             late == {k \in FramesAt(s \o t) : ~(k <= Len(s))}
  <1>6. ASSUME NEW k \in FramesAt(s \o t)
        PROVE  /\ k \in 1 .. (Len(s) + Len(t))
               /\ (s \o t)[k].kind = "frame"
               /\ (s \o t)[k] = IF k <= Len(s) THEN s[k] ELSE t[k - Len(s)]
    <2>1. k \in 1 .. (Len(s) + Len(t))  BY <1>4, <1>5
    <2>2. (s \o t)[k].kind = "frame"  BY DEF FramesAt
    <2> QED  BY <2>1, <2>2, Joined
  <1>7. early \in SUBSET FramesAt(s)
    <2> SUFFICES ASSUME NEW k \in early PROVE k \in FramesAt(s)
      OBVIOUS
    <2>1. k \in FramesAt(s \o t) /\ k <= Len(s)  OBVIOUS
    <2>2. k \in 1 .. Len(s) /\ s[k].kind = "frame"  BY <1>3, <1>6, <2>1
    <2> QED  BY <2>2 DEF FramesAt
  <1>8. \A k \in late : k \in Nat /\ k - Len(s) \in FramesAt(t)
    <2> TAKE k \in late
    <2>1. k \in FramesAt(s \o t) /\ ~(k <= Len(s))  OBVIOUS
    <2>2. k - Len(s) \in 1 .. Len(t) /\ t[k - Len(s)].kind = "frame" /\ k \in Nat
      BY <1>3, <1>6, <2>1
    <2> QED  BY <2>2 DEF FramesAt
  <1>9. FramesAt(s \o t) = early \cup late  OBVIOUS
  <1> HIDE DEF early, late
  <1>10. IsFiniteSet(early) /\ Cardinality(early) <= Cardinality(FramesAt(s))
    BY <1>1, <1>7, FS_Subset
  <1>11. IsFiniteSet(late) /\ Cardinality(late) <= Cardinality(FramesAt(t))
    <2>1. FramesAt(t) \subseteq Nat  BY <1>2
    <2> QED  BY <1>2, <1>3, <1>8, <2>1, ShiftedBack
  <1>12. /\ Cardinality(early) \in Nat /\ Cardinality(late) \in Nat
         /\ Cardinality(early \cap late) \in Nat
    <2>1. early \cap late \in SUBSET early  OBVIOUS
    <2>2. IsFiniteSet(early \cap late)  BY <1>10, <2>1, FS_Subset
    <2> QED  BY <1>10, <1>11, <2>2, FS_CardinalityType
  <1>13. Cardinality(early \cup late)
           = Cardinality(early) + Cardinality(late) - Cardinality(early \cap late)
    BY <1>10, <1>11, FS_Union
  <1> QED  BY <1>1, <1>2, <1>9, <1>10, <1>11, <1>12, <1>13

LEMMA FramesFew ==
    ASSUME NEW S, NEW s \in Seq(S)
    PROVE  Cardinality(FramesAt(s)) <= Len(s)
  <1>1. FramesAt(s) \in SUBSET (1 .. Len(s))  BY FramesFinite
  <1>2. IsFiniteSet(1 .. Len(s)) /\ Cardinality(1 .. Len(s)) = Len(s)
    <2>1. Len(s) \in Nat  OBVIOUS
    <2> DEFINE n == Len(s)
    <2> HIDE DEF n
    <2>2. n \in Nat  BY <2>1 DEF n
    <2>3. IsFiniteSet(1 .. n) /\ Cardinality(1 .. n) = IF 1 > n THEN 0 ELSE n - 1 + 1
      BY <2>2, FS_Interval
    <2> QED  BY <2>2, <2>3 DEF n
  <1> QED  BY <1>1, <1>2, FS_Subset

LEMMA NoFrames ==
    ASSUME NEW S, NEW s \in Seq(S), \A e \in Range(s) : e.kind # "frame"
    PROVE  Cardinality(FramesAt(s)) = 0
  <1>1. ASSUME NEW i \in FramesAt(s) PROVE FALSE
    <2>1. i \in DOMAIN s /\ s[i].kind = "frame"  BY DEF FramesAt
    <2>2. s[i] \in Range(s)  BY <2>1 DEF Range
    <2> QED  BY <2>1, <2>2
  <1>2. FramesAt(s) = {}  BY <1>1
  <1>3. Cardinality({}) = 0  BY FS_EmptySet
  <1> QED  BY <1>2, <1>3

LEMMA WatermarkBound ==
    /\ Watermark \in Nat /\ Watermark < QueueLimit /\ PageFrames \in Nat /\ QueueLimit \in Nat
  <1>1. PageFrames \in Nat /\ QueueLimit \in Nat \ {0} /\ PageFrames < QueueLimit
    BY DeliveryAssumption
  <1> DEFINE half == QueueLimit \div 2
  <1>2. half \in Nat /\ half < QueueLimit  BY <1>1
  <1> HIDE DEF half
  <1>3. half \in Int /\ PageFrames \in Int  BY <1>1, <1>2
  <1>4. Max({half, PageFrames}) \in {half, PageFrames}  BY <1>3, MaxOfTwo
  <1> QED  BY <1>1, <1>2, <1>4 DEF Watermark, half

\* Under a reservation nothing is evicted: the page fits.
LEMMA SinkFits ==
    ASSUME NEW h \in Nat, NEW q \in Queues(h), NEW items \in Seq(ItemsTo(h)),
           Cardinality(FramesAt(q.lane)) + Cardinality(FramesAt(items)) <= Watermark
    PROVE  Sink(q, items) = Full(q, items) /\ Sink(q, items).spill = q.spill
  <1>1. q.lane \in Seq(ItemsTo(h))  BY QueueTyped
  <1>2. Full(q, items) \in Queues(h) /\ Full(q, items).lane = q.lane \o items
        /\ Full(q, items).spill = q.spill
    BY FullTyped
  <1> DEFINE full == Full(q, items)
  <1>3. Backlog(full) \in Nat /\ Backlog(full) <= Cardinality(FramesAt(full.lane)) + 1
    BY <1>2, BacklogTyped
  <1>4. Cardinality(FramesAt(q.lane \o items))
          <= Cardinality(FramesAt(q.lane)) + Cardinality(FramesAt(items))
    BY <1>1, JoinedFrames
  <1>5. /\ Cardinality(FramesAt(q.lane)) \in Nat /\ Cardinality(FramesAt(items)) \in Nat
        /\ Cardinality(FramesAt(q.lane \o items)) \in Nat
    <2>1. q.lane \o items \in Seq(ItemsTo(h))  BY <1>1
    <2> QED  BY <1>1, <2>1, FramesFinite
  <1>6. Backlog(full) <= QueueLimit
    BY <1>2, <1>3, <1>4, <1>5, WatermarkBound
  <1> QED  BY <1>2, <1>6, SinkThins

\* The drain that reads for the current attachment.
Reads(g) == drains[g].at = "read" /\ sub.gen = g

LEMMA RoomKept ==
    ASSUME RoomForPage,
           \A g \in Gens : Reads(g)' =>
              /\ Reads(g)
              /\ Cardinality(FramesAt(out.lane)) \in Nat
              /\ Cardinality(FramesAt(out'.lane)) \in Nat
              /\ Cardinality(FramesAt(out'.lane)) <= Cardinality(FramesAt(out.lane))
    PROVE  RoomForPage'
  <1> SUFFICES ASSUME NEW g \in Gens, Reads(g)'
               PROVE  Cardinality(FramesAt(out'.lane)) + PageFrames <= Watermark
    BY DEF RoomForPage, Reads, Watermark
  <1>1. Cardinality(FramesAt(out.lane)) + PageFrames <= Watermark
    BY DEF RoomForPage, Reads
  <1>2. PageFrames \in Nat /\ Watermark \in Nat  BY WatermarkBound
  <1> QED  BY <1>1, <1>2

LEMMA LaneKept ==
    ASSUME Typed, RoomForPage, out'.lane = out.lane, \A g \in Gens : Reads(g)' => Reads(g)
    PROVE  RoomForPage'
  <1>1. Cardinality(FramesAt(out.lane)) \in Nat
    BY OutTyped, QueueTyped, FramesFinite DEF OutputTyped
  <1> QED  BY <1>1, RoomKept

LEMMA NoneReads ==
    ASSUME RoomForPage, \A g \in Gens : ~Reads(g)'
    PROVE  RoomForPage'
  BY RoomKept

\* A session's attachment has no drain.
LEMMA SessionReadsNot ==
    ASSUME Served, session.gen # 0, UNCHANGED <<sub, drains>>
    PROVE  \A g \in Gens : ~Reads(g)'
  BY DEF Served, Servers, Draining, Reads

LEMMA RoomTerminal ==
    ASSUME Served, RoomForPage, Produce \/ Exit
    PROVE  RoomForPage'
  <1>1. Typed /\ Servers  BY DEF Served
  <1>2. CASE Produce
    <2>1. UNCHANGED <<sub, drains>>  BY <1>2 DEF Produce
    <2>2. CASE sub.gen # 0 /\ ~sub.deferred
      <3>1. ~Draining(sub.gen)  BY <1>1, <2>2 DEF Servers
      <3>2. \A g \in Gens : ~Reads(g)'  BY <2>1, <3>1 DEF Reads, Draining
      <3> QED  BY <3>2, NoneReads
    <2>3. CASE ~(sub.gen # 0 /\ ~sub.deferred)
      <3>1. out' = out  BY <1>2, <2>3 DEF Produce
      <3> QED  BY <1>1, <2>1, <3>1, LaneKept DEF Reads
    <2> QED  BY <2>2, <2>3
  <1>3. CASE Exit
    <2>1. drains' = drains  BY <1>3 DEF Exit
    <2>2. CASE sub.deferred
      <3>1. out' = out /\ sub' = [sub EXCEPT !.staged = TRUE]  BY <1>3, <2>2 DEF Exit
      <3>2. sub'.gen = sub.gen  BY <1>1, <3>1, TypedNow DEF TypesNow, Subs
      <3> QED  BY <1>1, <2>1, <3>1, <3>2, LaneKept DEF Reads
    <2>3. CASE ~sub.deferred
      <3>1. sub'.gen = 0  BY <1>3, <2>3 DEF Exit, NoSub
      <3>2. \A g \in Gens : ~Reads(g)'  BY <3>1 DEF Reads, Gens
      <3> QED  BY <3>2, NoneReads
    <2> QED  BY <2>2, <2>3
  <1> QED  BY <1>2, <1>3

LEMMA RoomAttach ==
    ASSUME Served, RoomForPage, AttachRunning \/ AttachExited \/ DetachPane
    PROVE  RoomForPage'
  <1>1. drains' = drains  BY DEF AttachRunning, AttachExited, DetachPane
  <1>2. CASE AttachRunning
    <2>1. Received("attach")  BY <1>2 DEF AttachRunning
    <2>2. drains[Head(up).gen].at = "off"  BY <2>1, NewAttachment
    <2>3. sub'.gen = Head(up).gen  BY <1>2 DEF AttachRunning, NoSub
    <2>4. \A g \in Gens : ~Reads(g)'  BY <1>1, <2>2, <2>3 DEF Reads
    <2> QED  BY <2>4, NoneReads
  <1>3. CASE AttachExited \/ DetachPane
    <2>1. sub'.gen = 0  BY <1>3 DEF AttachExited, DetachPane, NoSub
    <2>2. \A g \in Gens : ~Reads(g)'  BY <2>1 DEF Reads, Gens
    <2> QED  BY <2>2, NoneReads
  <1> QED  BY <1>2, <1>3

LEMMA RoomDispatch ==
    ASSUME Served, RoomForPage,
           StartSession \/ Credit \/ Drive \/ SettleStays \/ SettleGuards \/ SettleTransfers
             \/ NotifyArm
    PROVE  RoomForPage'
  <1>1. Typed /\ Servers  BY DEF Served
  <1>2. CASE Credit \/ SettleStays \/ SettleGuards \/ NotifyArm
    <2>1. UNCHANGED <<sub, drains, out>>
      BY <1>2 DEF Credit, SettleStays, SettleGuards, NotifyArm
    <2> QED  BY <1>1, <2>1, LaneKept DEF Reads
  <1>3. CASE StartSession \/ Drive
    <2>1. UNCHANGED <<sub, drains>> /\ pc # "idle"  BY <1>3 DEF StartSession, Drive
    <2>2. session.gen # 0  BY <1>1, <2>1 DEF Typed
    <2> QED  BY <2>1, <2>2, SessionReadsNot, NoneReads
  <1>4. CASE SettleTransfers
    <2>1. /\ UNCHANGED <<sub, out>>
          /\ drains' = [drains EXCEPT ![session.gen] =
                          [NoDrain EXCEPT !.at = "start", !.cursor = session.pageEnd]]
      BY <1>4 DEF SettleTransfers
    <2>2. \A g \in Gens : drains'[g].at = "read" => drains[g].at = "read"
      BY <1>1, <2>1, TypedNow DEF TypesNow, NoDrain
    <2> QED  BY <1>1, <2>1, <2>2, LaneKept DEF Reads
  <1> QED  BY <1>2, <1>3, <1>4

LEMMA TailWithin ==
    ASSUME NEW S, NEW s \in Seq(S), s # <<>>
    PROVE  Within(Tail(s), s)
  <1> DEFINE f == [i \in 1 .. Len(Tail(s)) |-> i + 1]
  <1>1. /\ Len(Tail(s)) = Len(s) - 1 /\ Len(s) \in Nat
        /\ \A j \in 1 .. (Len(s) - 1) : Tail(s)[j] = s[j + 1]
    BY RangeOfTail
  <1>2. f \in [1 .. Len(Tail(s)) -> 1 .. Len(s)]  BY <1>1
  <1>3. \A i \in 1 .. Len(Tail(s)) : Tail(s)[i] = s[f[i]]  BY <1>1
  <1>4. \A i, j \in 1 .. Len(Tail(s)) : i < j => f[i] < f[j]  BY <1>1
  <1> HIDE DEF f
  <1> QED  BY <1>2, <1>3, <1>4 DEF Within

LEMMA RoomPump ==
    ASSUME Served, RoomForPage, Pump
    PROVE  RoomForPage'
  <1>1. Typed  BY DEF Served
  <1>2. CASE SendControl
    <2>1. UNCHANGED <<sub, drains, out>>  BY <1>2 DEF SendControl
    <2> QED  BY <1>1, <2>1, LaneKept DEF Reads
  <1>3. CASE SendDone
    <2>1. UNCHANGED <<sub, drains>> /\ out' = [out EXCEPT !.wire = <<>>]  BY <1>3 DEF SendDone
    <2>2. out'.lane = out.lane  BY <1>1, <2>1, TypedNow DEF TypesNow, OutputTyped, Queues
    <2> QED  BY <1>1, <2>1, <2>2, LaneKept DEF Reads
  <1>4. CASE Lease
    <2>1. /\ UNCHANGED <<sub, drains>>
          /\ out'.lane = out.lane \/ (out.lane # <<>> /\ out'.lane = Tail(out.lane))
      BY <1>1, <1>4, Leased
    <2>2. out.lane \in Seq(ItemsTo(head))  BY <1>1, OutTyped, QueueTyped DEF OutputTyped
    <2>3. CASE out'.lane = out.lane  BY <1>1, <2>1, <2>3, LaneKept DEF Reads
    <2>4. CASE out.lane # <<>> /\ out'.lane = Tail(out.lane)
      <3>1. Tail(out.lane) \in Seq(ItemsTo(head))  BY <2>2, <2>4
      <3>2. /\ Cardinality(FramesAt(out.lane)) \in Nat
            /\ Cardinality(FramesAt(Tail(out.lane))) \in Nat
        BY <2>2, <3>1, FramesFinite
      <3>3. Cardinality(FramesAt(Tail(out.lane))) <= Cardinality(FramesAt(out.lane))
        <4>1. Within(Tail(out.lane), out.lane)  BY <2>2, <2>4, TailWithin
        <4> QED  BY <2>2, <3>1, <4>1, WithinFewer
      <3>4. \A g \in Gens : Reads(g)' => Reads(g)  BY <2>1 DEF Reads
      <3> QED  BY <2>4, <3>2, <3>3, <3>4, RoomKept
    <2> QED  BY <2>1, <2>3, <2>4
  <1> QED  BY <1>2, <1>3, <1>4 DEF Pump

\* Only the current attachment's drain has to keep its room.
LEMMA RoomDrainTurns ==
    ASSUME Served, RoomForPage, NEW g \in Gens,
           DrainStart(g) \/ Reserve(g) \/ DrainGone(g)
    PROVE  RoomForPage' /\ out' = out
  <1>1. Typed /\ TypesNow  BY TypedNow DEF Served
  <1>2. UNCHANGED <<sub, out>>  BY DEF DrainStart, Reserve, DrainGone
  <1>3. CASE DrainStart(g) \/ DrainGone(g)
    <2>1. \A k \in Gens : drains'[k].at = "read" => drains[k].at = "read"
      BY <1>1, <1>3 DEF DrainStart, DrainGone, TypesNow, DrainTasks, NoDrain
    <2> QED  BY <1>1, <1>2, <2>1, LaneKept DEF Reads
  <1>4. CASE Reserve(g)
    <2>1. Backlog(out) + Reserved + PageFrames <= Watermark
      BY <1>4 DEF Reserve, CanReserve
    <2>2. out.lane \in Seq(ItemsTo(head))
      BY <1>1, OutTyped, QueueTyped DEF OutputTyped
    <2>3. Cardinality(FramesAt(out.lane)) \in Nat  BY <2>2, FramesFinite
    <2>4. Backlog(out) \in Nat /\ Backlog(out) >= Cardinality(FramesAt(out.lane))
      BY <2>3 DEF Backlog, InFlight
    <2>5. Reserved \in Nat
      <3> DEFINE R == {k \in Gens : drains[k].at \in {"read", "gap"}}
      <3>1. R \in SUBSET Gens /\ IsFiniteSet(Gens)
        BY FS_Interval, DeliveryAssumption DEF Gens
      <3>2. IsFiniteSet(R)  BY <3>1, FS_Subset
      <3>3. Cardinality(R) \in Nat  BY <3>2, FS_CardinalityType
      <3> HIDE DEF R
      <3>4. PageFrames * Cardinality(R) \in Nat  BY <3>3, WatermarkBound
      <3> QED  BY <3>4 DEF Reserved, R
    <2>6. Cardinality(FramesAt(out.lane)) + PageFrames <= Watermark
      BY <2>1, <2>3, <2>4, <2>5, WatermarkBound
    <2> QED  BY <1>2, <2>6 DEF RoomForPage, Watermark
  <1> QED  BY <1>2, <1>3, <1>4

LEMMA NoFramesInGap ==
    ASSUME Typed, NEW kind \in {"retention", "residual"}, NEW gen \in Gens,
           NEW from \in Nat \ {0}, NEW to \in Positions
    PROVE  /\ Gap(kind, gen, from, to) \in Seq(ItemsTo(head))
           /\ Cardinality(FramesAt(Gap(kind, gen, from, to))) = 0
  <1> DEFINE s == Gap(kind, gen, from, to)
  <1>1. s \in Seq(ItemsTo(head)) /\ \A e \in Range(s) : e.kind = kind
    BY GapAdmitted
  <1> HIDE DEF s
  <1>2. \A e \in Range(s) : e.kind # "frame"  BY <1>1
  <1>3. Cardinality(FramesAt(s)) = 0  BY <1>1, <1>2, NoFrames
  <1> QED  BY <1>1, <1>3 DEF s

\* What a reservation paid for is admitted whole.
LEMMA PageFits ==
    ASSUME Typed, RoomForPage, NEW g \in Gens, Reads(g), NEW items \in Seq(ItemsTo(head)),
           Cardinality(FramesAt(items)) <= PageFrames
    PROVE  Sink(out, items).spill = out.spill
  <1>1. out \in Queues(head) /\ head \in Nat  BY OutTyped DEF OutputTyped
  <1>2. Cardinality(FramesAt(out.lane)) + PageFrames <= Watermark
    BY DEF RoomForPage, Reads
  <1>3. Cardinality(FramesAt(out.lane)) \in Nat /\ Cardinality(FramesAt(items)) \in Nat
    BY <1>1, QueueTyped, FramesFinite
  <1>4. Cardinality(FramesAt(out.lane)) + Cardinality(FramesAt(items)) <= Watermark
    BY <1>2, <1>3, WatermarkBound
  <1> QED  BY <1>1, <1>4, SinkFits

LEMMA CompletesFits ==
    ASSUME Served, RoomForPage, NEW g \in Gens, Reads(g), NEW items \in Seq(ItemsTo(head)),
           Cardinality(FramesAt(items)) <= PageFrames, Completes(g, items)
    PROVE  out'.spill = out.spill /\ \A k \in Gens : ~Reads(k)'
  <1>1. Typed /\ TypesNow  BY TypedNow DEF Served
  <1>2. out'.spill = out.spill
    <2>1. CASE sub.staged
      <3> DEFINE last == <<ExitItem(g)>>
      <3>1. ExitItem(g) \in ItemsTo(head) /\ ExitItem(g).kind = "exit"
        BY <1>1, ExitItemTyped DEF TypesNow
      <3>2. last \in Seq(ItemsTo(head)) /\ Range(last) = {ExitItem(g)}
        BY <3>1, OneItem
      <3> HIDE DEF last
      <3>3. Cardinality(FramesAt(last)) = 0
        <4>1. \A e \in Range(last) : e.kind # "frame"  BY <3>1, <3>2
        <4> QED  BY <3>2, <4>1, NoFrames
      <3>4. Append(items, ExitItem(g)) = items \o last /\ items \o last \in Seq(ItemsTo(head))
        BY <3>1, <3>2 DEF last
      <3>5. Cardinality(FramesAt(items \o last))
              <= Cardinality(FramesAt(items)) + Cardinality(FramesAt(last))
        BY <3>2, JoinedFrames
      <3>6. Cardinality(FramesAt(items)) \in Nat /\ Cardinality(FramesAt(items \o last)) \in Nat
        BY <3>4, FramesFinite
      <3>7. Cardinality(FramesAt(items \o last)) <= PageFrames
        BY <3>3, <3>5, <3>6, WatermarkBound
      <3>8. Sink(out, items \o last).spill = out.spill
        BY <1>1, <3>4, <3>7, PageFits
      <3> QED  BY <2>1, <3>4, <3>8 DEF Completes
    <2>2. CASE ~sub.staged
      BY <1>1, <2>2, PageFits DEF Completes
    <2> QED  BY <2>1, <2>2
  <1>3. \A k \in Gens : ~Reads(k)'
    <2>1. sub'.gen \in {0, g}  BY <1>1 DEF Completes, TypesNow, Subs, NoSub, Reads
    <2>2. drains'[g].at = "off"  BY <1>1 DEF Completes, TypesNow, NoDrain
    <2> QED  BY <2>1, <2>2 DEF Reads, Gens
  <1> QED  BY <1>2, <1>3

LEMMA DrainsOnFits ==
    ASSUME Served, RoomForPage, NEW g \in Gens, Reads(g), NEW end \in Positions,
           NEW covered \in BOOLEAN,
           Frames(g, drains[g].cursor, end) \in Seq(ItemsTo(head)),
           Cardinality(FramesAt(Frames(g, drains[g].cursor, end))) <= PageFrames,
           DrainsOn(g, end, covered)
    PROVE  out'.spill = out.spill /\ \A k \in Gens : ~Reads(k)'
  <1>1. Typed /\ TypesNow  BY TypedNow DEF Served
  <1>2. out'.spill = out.spill  BY <1>1, PageFits DEF DrainsOn
  <1>3. \A k \in Gens : ~Reads(k)'
    <2>1. sub'.gen = g  BY <1>1 DEF DrainsOn, TypesNow, Subs, Reads
    <2>2. drains'[g].at = "wait"  BY <1>1 DEF DrainsOn, TypesNow, DrainTasks
    <2> QED  BY <2>1, <2>2 DEF Reads
  <1> QED  BY <1>2, <1>3

\* A page and a gap are at most a page's frames.
LEMMA PageIsPage ==
    ASSUME Typed, NEW g \in Gens, NEW to \in {drains[g].target, sub.boundary}
    PROVE  LET page == Frames(g, drains[g].cursor, PageEnd(drains[g].cursor, to))
           IN  page \in Seq(ItemsTo(head)) /\ Cardinality(FramesAt(page)) <= PageFrames
  <1> DEFINE from == drains[g].cursor
             end == PageEnd(from, to)
             page == Frames(g, from, end)
  <1>1. /\ from \in Positions /\ end \in Positions /\ from <= end /\ end <= from + PageFrames
        /\ page \in Seq(ItemsTo(head))
    BY DrainPageTyped
  <1>2. from \in 0 .. head /\ end \in 0 .. head /\ head \in Nat /\ end - from <= PageFrames
    <2>1. head \in Nat  BY OutTyped
    <2> QED  BY <1>1, <2>1, WatermarkBound DEF Positions
  <1> HIDE DEF from, end
  <1>3. Len(page) = IF from <= end THEN end - from ELSE 0
    BY <1>2, FramesTyped
  <1> HIDE DEF page
  <1>4. Len(page) <= PageFrames  BY <1>1, <1>2, <1>3
  <1>5. Cardinality(FramesAt(page)) <= Len(page) /\ Cardinality(FramesAt(page)) \in Nat
    BY <1>1, FramesFew, FramesFinite
  <1>6. Cardinality(FramesAt(page)) <= PageFrames  BY <1>1, <1>4, <1>5, WatermarkBound
  <1> QED  BY <1>1, <1>6 DEF page, from, end

LEMMA FewTogether ==
    ASSUME Typed, NEW s \in Seq(ItemsTo(head)), NEW t \in Seq(ItemsTo(head)),
           Cardinality(FramesAt(s)) <= PageFrames, Cardinality(FramesAt(t)) = 0
    PROVE  s \o t \in Seq(ItemsTo(head)) /\ Cardinality(FramesAt(s \o t)) <= PageFrames
  <1>1. s \o t \in Seq(ItemsTo(head))  OBVIOUS
  <1>2. /\ Cardinality(FramesAt(s)) \in Nat /\ Cardinality(FramesAt(t)) \in Nat
        /\ Cardinality(FramesAt(s \o t)) \in Nat
    BY <1>1, FramesFinite
  <1>3. Cardinality(FramesAt(s \o t))
          <= Cardinality(FramesAt(s)) + Cardinality(FramesAt(t))
    BY JoinedFrames
  <1> QED  BY <1>1, <1>2, <1>3, WatermarkBound

LEMMA RoomDrainPages ==
    ASSUME Served, RoomForPage, NEW g \in Gens, DrainPages(g)
    PROVE  out'.spill = out.spill /\ \A k \in Gens : ~Reads(k)'
  <1>1. Typed /\ TypesNow  BY TypedNow DEF Served
  <1>2. Reads(g)  BY DEF DrainPages, Reads
  <1> DEFINE from == drains[g].cursor
             end == PageEnd(from, drains[g].target)
  <1>3. end \in Positions  BY <1>1, DrainPageTyped
  <1>4. /\ Frames(g, from, end) \in Seq(ItemsTo(head))
        /\ Cardinality(FramesAt(Frames(g, from, end))) <= PageFrames
    BY <1>1, PageIsPage
  <1>5. \/ Completes(g, <<>>)
        \/ /\ drains' = [drains EXCEPT ![g] = [drains[g] EXCEPT !.at = "gap", !.lostTo = Oldest - 1]]
           /\ UNCHANGED <<sub, out, seen>>
        \/ Completes(g, Frames(g, from, end))
        \/ DrainsOn(g, end, end >= drains[g].target)
    BY <1>1 DEF DrainPages, TypesNow
  <1>6. (end >= drains[g].target) \in BOOLEAN  OBVIOUS
  <1>7. CASE Completes(g, <<>>)
    <2>1. <<>> \in Seq(ItemsTo(head))  OBVIOUS
    <2>2. \A e \in Range(<<>>) : e.kind # "frame"  BY DEF Range
    <2>3. Cardinality(FramesAt(<<>>)) = 0  BY <2>1, <2>2, NoFrames
    <2>4. Cardinality(FramesAt(<<>>)) <= PageFrames  BY <2>3, WatermarkBound
    <2> QED  BY <1>2, <1>7, <2>1, <2>4, CompletesFits
  <1>8. CASE /\ drains' = [drains EXCEPT ![g] = [drains[g] EXCEPT !.at = "gap", !.lostTo = Oldest - 1]]
             /\ UNCHANGED <<sub, out, seen>>
    <2>1. drains'[g].at = "gap"  BY <1>1, <1>8 DEF TypesNow, DrainTasks
    <2> QED  BY <1>2, <1>8, <2>1 DEF Reads
  <1>9. CASE Completes(g, Frames(g, from, end))
    BY <1>2, <1>4, <1>9, CompletesFits
  <1>10. CASE DrainsOn(g, end, end >= drains[g].target)
    <2> HIDE DEF end
    <2> QED  BY <1>2, <1>3, <1>4, <1>6, <1>10, DrainsOnFits
  <1> QED  BY <1>5, <1>7, <1>8, <1>9, <1>10

LEMMA RoomDrainHandsOff ==
    ASSUME Served, RoomForPage, NEW g \in Gens, DrainHandsOff(g)
    PROVE  out'.spill = out.spill /\ \A k \in Gens : ~Reads(k)'
  <1>1. Typed /\ TypesNow  BY TypedNow DEF Served
  <1>2. Reads(g)  BY DEF DrainHandsOff, Reads
  <1> DEFINE from == drains[g].cursor
             end == PageEnd(from, sub.boundary)
  <1>3. from \in Positions /\ end \in Positions  BY <1>1, DrainPageTyped
  <1>4. /\ Frames(g, from, end) \in Seq(ItemsTo(head))
        /\ Cardinality(FramesAt(Frames(g, from, end))) <= PageFrames
    BY <1>1, PageIsPage
  <1>5. \/ Completes(g, Gap("retention", g, from + 1, Oldest - 1) \o Gap("residual", g, Oldest, head))
        \/ Completes(g, Frames(g, from, end) \o Gap("residual", g, end + 1, head))
        \/ DrainsOn(g, end, FALSE)
    BY DEF DrainHandsOff
  <1>6. head \in Nat /\ head \in Positions /\ Oldest \in Nat \ {0} /\ Oldest - 1 \in Positions
        /\ from + 1 \in Nat \ {0} /\ end + 1 \in Nat \ {0}
    <2>1. head \in Nat /\ head \in Positions  BY <1>1, OutTyped, EmptyTyped
    <2>2. Oldest \in Nat \ {0} /\ Oldest - 1 \in Positions
      BY <2>1, OldestBounds DEF Positions
    <2> QED  BY <1>3, <2>1, <2>2 DEF Positions
  <1> DEFINE a == Gap("retention", g, from + 1, Oldest - 1)
             b == Gap("residual", g, Oldest, head)
             c == Frames(g, from, end)
             d == Gap("residual", g, end + 1, head)
  <1> HIDE DEF from, end
  <1>7. /\ a \in Seq(ItemsTo(head)) /\ Cardinality(FramesAt(a)) = 0
        /\ b \in Seq(ItemsTo(head)) /\ Cardinality(FramesAt(b)) = 0
        /\ d \in Seq(ItemsTo(head)) /\ Cardinality(FramesAt(d)) = 0
    BY <1>1, <1>6, NoFramesInGap
  <1>8. c \in Seq(ItemsTo(head)) /\ Cardinality(FramesAt(c)) <= PageFrames
    BY <1>4
  <1> HIDE DEF a, b, c, d
  <1>9. Cardinality(FramesAt(a)) <= PageFrames  BY <1>7, WatermarkBound
  <1>10. /\ a \o b \in Seq(ItemsTo(head)) /\ Cardinality(FramesAt(a \o b)) <= PageFrames
         /\ c \o d \in Seq(ItemsTo(head)) /\ Cardinality(FramesAt(c \o d)) <= PageFrames
    BY <1>1, <1>7, <1>8, <1>9, FewTogether
  <1>11. Completes(g, a \o b) \/ Completes(g, c \o d) \/ DrainsOn(g, end, FALSE)
    BY <1>5 DEF a, b, c, d
  <1>12. CASE DrainsOn(g, end, FALSE)
    BY <1>2, <1>3, <1>4, <1>12, DrainsOnFits DEF from
  <1>13. CASE Completes(g, a \o b)
    BY <1>2, <1>10, <1>13, CompletesFits
  <1>14. CASE Completes(g, c \o d)
    BY <1>2, <1>10, <1>14, CompletesFits
  <1> QED  BY <1>11, <1>12, <1>13, <1>14

\* A superseded drain's gap evicts nothing a page was promised.
LEMMA RoomDrainSinksGap ==
    ASSUME Served, RoomForPage, NEW g \in Gens, DrainSinksGap(g)
    PROVE  RoomForPage'
  <1>1. Typed /\ TypesNow  BY TypedNow DEF Served
  <1>2. /\ UNCHANGED <<head, sub>> /\ drains[g].at = "gap"
        /\ \A k \in Gens : drains'[k].at = "read" => drains[k].at = "read"
    BY <1>1 DEF DrainSinksGap, TypesNow, DrainTasks
  <1> DEFINE items == Gap("retention", g, drains[g].cursor + 1, drains[g].lostTo)
  <1>3. items \in Seq(ItemsTo(head)) /\ Cardinality(FramesAt(items)) = 0
    <2> DEFINE from == drains[g].cursor + 1
               to == drains[g].lostTo
    <2>1. from \in Nat \ {0} /\ to \in Positions
      BY <1>1 DEF TypesNow, DrainTasks, Positions
    <2> HIDE DEF from, to
    <2>2. /\ Gap("retention", g, from, to) \in Seq(ItemsTo(head))
          /\ Cardinality(FramesAt(Gap("retention", g, from, to))) = 0
      BY <1>1, <2>1, NoFramesInGap
    <2> QED  BY <2>2 DEF from, to
  <1>4. out' = Sink(out, items)  BY DEF DrainSinksGap
  <1> HIDE DEF items
  <1>5. out \in Queues(head) /\ head \in Nat /\ out.lane \in Seq(ItemsTo(head))
    BY <1>1, OutTyped, QueueTyped DEF OutputTyped
  <1>6. /\ out' \in Queues(head) /\ Within(out'.lane, out.lane \o items)
    BY <1>3, <1>4, <1>5, SinkThins, FullTyped DEF Thinned
  <1>7. out'.lane \in Seq(ItemsTo(head)) /\ out.lane \o items \in Seq(ItemsTo(head))
    BY <1>3, <1>5, <1>6, QueueTyped
  <1>8. /\ Cardinality(FramesAt(out'.lane)) \in Nat /\ Cardinality(FramesAt(out.lane)) \in Nat
        /\ Cardinality(FramesAt(out.lane \o items)) \in Nat
    BY <1>5, <1>7, FramesFinite
  <1>9. Cardinality(FramesAt(out'.lane)) <= Cardinality(FramesAt(out.lane \o items))
    BY <1>6, <1>7, WithinFewer
  <1>10. Cardinality(FramesAt(out.lane \o items)) <= Cardinality(FramesAt(out.lane)) + 0
    <2>1. Cardinality(FramesAt(out.lane \o items))
            <= Cardinality(FramesAt(out.lane)) + Cardinality(FramesAt(items))
      BY <1>3, <1>5, JoinedFrames
    <2> QED  BY <1>3, <2>1
  <1>11. Cardinality(FramesAt(out'.lane)) <= Cardinality(FramesAt(out.lane))
    BY <1>8, <1>9, <1>10
  <1>12. \A k \in Gens : Reads(k)' => Reads(k)  BY <1>2 DEF Reads
  <1> QED  BY <1>8, <1>11, <1>12, RoomKept

LEMMA RoomStep ==
    ASSUME Served, RoomForPage, [Next]_vars
    PROVE  RoomForPage'
  <1>1. Typed  BY DEF Served
  <1>2. ASSUME NEW g \in Gens, Drain(g) PROVE RoomForPage'
    <2>1. CASE DrainPages(g) \/ DrainHandsOff(g)
      BY <2>1, RoomDrainPages, RoomDrainHandsOff, NoneReads
    <2> QED  BY <1>2, <2>1, RoomDrainTurns, RoomDrainSinksGap DEF Drain
  <1>3. CASE Dispatch
    BY <1>3, RoomAttach, RoomDispatch DEF Dispatch
  <1>4. CASE Consume \/ Reattach \/ Refresh \/ Leave
    <2>1. UNCHANGED <<sub, drains, out>>  BY <1>4 DEF Consume, Reattach, Refresh, Leave
    <2> QED  BY <1>1, <2>1, LaneKept DEF Reads
  <1>5. CASE UNCHANGED vars
    <2>1. UNCHANGED <<sub, drains, out>>  BY <1>5 DEF vars
    <2> QED  BY <1>1, <2>1, LaneKept DEF Reads
  <1> QED
    BY <1>2, <1>3, <1>4, <1>5, RoomTerminal, RoomDispatch, RoomPump DEF Next

\* DrainNeverSpills as a property of one step.
LEMMA SpillKept ==
    ASSUME Served, RoomForPage, [Next]_vars, NEW g \in Gens,
           drains[g].at = "read", drains'[g].at # "read"
    PROVE  Len(out'.spill) <= Len(out.spill)
  <1>1. Typed /\ Servers /\ TypesNow  BY TypedNow DEF Served
  <1>2. Len(out.spill) \in Nat
    BY <1>1, OutTyped, QueueTyped DEF OutputTyped
  <1>3. drains' # drains  OBVIOUS
  <1>4. PICK k \in Gens : Drain(k) \/ (SettleTransfers /\ k = session.gen)
    <2>1. CASE SettleTransfers
      <3>1. session.gen \in Gens
        BY <1>1, <2>1 DEF SettleTransfers, Typed, TypesNow, Sessions, Gens
      <3> QED  BY <2>1, <3>1
    <2>2. CASE ~SettleTransfers
      <3>1. \E k \in Gens : Drain(k)
        BY <1>3, <2>2 DEF Next, vars, Produce, Exit, Dispatch, AttachRunning, AttachExited,
           DetachPane, StartSession, Credit, Drive, SettleStays, SettleGuards, NotifyArm,
           Pump, SendControl, Lease, SendDone, Consume, Reattach, Refresh, Leave
      <3> QED  BY <3>1
    <2> QED  BY <2>1, <2>2
  <1>5. CASE SettleTransfers /\ k = session.gen
    <2>1. session.gen # 0 /\ drains[k].at = "off"
      BY <1>1, <1>5 DEF Gens, Servers, Draining
    <2>2. drains'[g] = drains[g]
      BY <1>1, <1>5, <2>1 DEF SettleTransfers, TypesNow
    <2> QED  BY <2>2
  <1>6. CASE Drain(k) /\ k # g
    <2>1. drains'[g] = drains[g]
      <3>1. \E d \in {drains'[k]} : drains' = [drains EXCEPT ![k] = d]
        BY <1>1, <1>6 DEF Drain, DrainStart, Reserve, DrainGone, DrainPages, DrainSinksGap,
           DrainHandsOff, Completes, DrainsOn, TypesNow
      <3> QED  BY <1>1, <1>6, <3>1 DEF TypesNow
    <2> QED  BY <2>1
  <1>7. CASE Drain(g)
    <2>1. CASE DrainPages(g) \/ DrainHandsOff(g)
      BY <1>2, <2>1, RoomDrainPages, RoomDrainHandsOff
    <2>2. CASE DrainStart(g) \/ Reserve(g) \/ DrainGone(g)
      BY <1>2, <2>2, RoomDrainTurns
    <2>3. CASE DrainSinksGap(g)
      BY <2>3 DEF DrainSinksGap
    <2> QED  BY <1>7, <2>1, <2>2, <2>3 DEF Drain
  <1> QED  BY <1>4, <1>5, <1>6, <1>7

LEMMA RoomInit ==
    ASSUME Init
    PROVE  RoomForPage
  BY DEF Init, RoomForPage, NoDrain

(* A reservation counts the queue's backlog and every page already         *)
(* promised (reserve_page, paced_replay.rs), so the page it lets a drain   *)
(* read is admitted whole: a drain never makes the queue spill.            *)
THEOREM DrainsFit == Spec => DrainNeverSpills
  <1>1. Spec => []RoomForPage
    BY RoomInit, RoomStep, AlwaysServed, PTL DEF Spec
  <1>2. Served /\ RoomForPage /\ [Next]_vars
          => [\A g \in Gens : drains[g].at = "read" /\ drains'[g].at # "read" =>
                Len(out'.spill) <= Len(out.spill)]_vars
    BY SpillKept
  <1> QED  BY <1>1, <1>2, AlwaysServed, PTL DEF Spec, DrainNeverSpills

-----------------------------------------------------------------------------
(* The order of a session's frames in the queue.                           *)

LEMMA NumbersTyped ==
    ASSUME NEW h \in Nat, NEW s \in Seq(ItemsTo(h)), NEW g
    PROVE  Numbers(s, g) \subseteq 0 .. h /\ Numbers(s, g) \subseteq Nat
  <1>1. \A e \in Range(s) : e \in ItemsTo(h)  BY DEF Range
  <1>2. \A e \in ItemsTo(h) : e.to \in 0 .. h  BY DEF ItemsTo
  <1>3. Numbers(s, g) \subseteq 0 .. h  BY <1>1, <1>2 DEF Numbers
  <1> QED  BY <1>3

LEMMA NumberAt ==
    ASSUME NEW s, NEW g, NEW i \in DOMAIN s, FrameOf(s[i], g)
    PROVE  s[i].to \in Numbers(s, g)
  <1>1. s[i] \in Range(s)  BY DEF Range
  <1> QED  BY <1>1 DEF Numbers

LEMMA NumbersAt ==
    ASSUME NEW s, NEW g, NEW n \in Numbers(s, g)
    PROVE  \E i \in DOMAIN s : FrameOf(s[i], g) /\ n = s[i].to
  BY DEF Numbers, Range

LEMMA NoNumbers ==
    ASSUME NEW s, NEW g, \A e \in Range(s) : ~FrameOf(e, g)
    PROVE  Numbers(s, g) = {} /\ Rising(s, g)
  <1>1. Numbers(s, g) = {}  BY DEF Numbers
  <1> QED  BY <1>1, NumberAt DEF Rising

LEMMA RisingWithin ==
    ASSUME NEW S, NEW s \in Seq(S), NEW t \in Seq(S), NEW g, Within(s, t), Rising(t, g)
    PROVE  Rising(s, g) /\ Numbers(s, g) \subseteq Numbers(t, g)
  <1>1. PICK f \in [1 .. Len(s) -> 1 .. Len(t)] :
          /\ \A i \in 1 .. Len(s) : s[i] = t[f[i]]
          /\ \A i, j \in 1 .. Len(s) : i < j => f[i] < f[j]
    BY DEF Within
  <1>2. DOMAIN s = 1 .. Len(s) /\ DOMAIN t = 1 .. Len(t)  OBVIOUS
  <1>3. Rising(s, g)  BY <1>1, <1>2 DEF Rising
  <1>4. ASSUME NEW n \in Numbers(s, g) PROVE n \in Numbers(t, g)
    <2>1. PICK i \in 1 .. Len(s) : FrameOf(s[i], g) /\ n = s[i].to  BY <1>2, NumbersAt
    <2>2. f[i] \in DOMAIN t /\ FrameOf(t[f[i]], g) /\ n = t[f[i]].to
      BY <1>1, <1>2, <2>1
    <2> QED  BY <2>2, NumberAt
  <1> QED  BY <1>3, <1>4

LEMMA NumbersJoined ==
    ASSUME NEW S, NEW s \in Seq(S), NEW t \in Seq(S), NEW g
    PROVE  Numbers(s \o t, g) = Numbers(s, g) \cup Numbers(t, g)
  <1>1. Range(s \o t) = Range(s) \cup Range(t)  BY RangeOfJoined
  <1> QED  BY <1>1 DEF Numbers

LEMMA RisingJoined ==
    ASSUME NEW S, NEW s \in Seq(S), NEW t \in Seq(S), NEW g, Rising(s, g), Rising(t, g),
           \A m \in Numbers(s, g), n \in Numbers(t, g) : m < n
    PROVE  Rising(s \o t, g)
  <1>1. /\ DOMAIN (s \o t) = 1 .. (Len(s) + Len(t)) /\ Len(s) \in Nat /\ Len(t) \in Nat
        /\ DOMAIN s = 1 .. Len(s) /\ DOMAIN t = 1 .. Len(t)
    OBVIOUS
  <1> SUFFICES ASSUME NEW i \in DOMAIN (s \o t), NEW j \in DOMAIN (s \o t), i < j,
                      FrameOf((s \o t)[i], g), FrameOf((s \o t)[j], g)
               PROVE  (s \o t)[i].to < (s \o t)[j].to
    BY DEF Rising
  <1>2. i \in 1 .. (Len(s) + Len(t)) /\ j \in 1 .. (Len(s) + Len(t))  BY <1>1
  <1>3. /\ (s \o t)[i] = IF i <= Len(s) THEN s[i] ELSE t[i - Len(s)]
        /\ (s \o t)[j] = IF j <= Len(s) THEN s[j] ELSE t[j - Len(s)]
    BY <1>2, Joined
  <1>4. CASE j <= Len(s)
    <2>1. i \in DOMAIN s /\ j \in DOMAIN s  BY <1>1, <1>2, <1>4
    <2>2. i <= Len(s)  BY <1>1, <1>2, <1>4
    <2> QED  BY <1>3, <1>4, <2>1, <2>2 DEF Rising
  <1>5. CASE ~(i <= Len(s))
    <2>1. i - Len(s) \in DOMAIN t /\ j - Len(s) \in DOMAIN t /\ i - Len(s) < j - Len(s)
          /\ ~(j <= Len(s))
      BY <1>1, <1>2, <1>5
    <2> QED  BY <1>3, <1>5, <2>1 DEF Rising
  <1>6. CASE i <= Len(s) /\ ~(j <= Len(s))
    <2>1. i \in DOMAIN s /\ j - Len(s) \in DOMAIN t  BY <1>1, <1>2, <1>6
    <2>2. s[i].to \in Numbers(s, g)  BY <1>3, <1>6, <2>1, NumberAt
    <2>3. t[j - Len(s)].to \in Numbers(t, g)
      <3> DEFINE k == j - Len(s)
      <3>1. k \in DOMAIN t /\ FrameOf(t[k], g)  BY <1>3, <1>6, <2>1
      <3> HIDE DEF k
      <3>2. t[k].to \in Numbers(t, g)  BY <3>1, NumberAt
      <3> QED  BY <3>2 DEF k
    <2> QED  BY <1>3, <1>6, <2>2, <2>3
  <1> QED  BY <1>4, <1>5, <1>6

\* What an admission does to the frames on their way.
LEMMA SinkInOrder ==
    ASSUME NEW h \in Nat, NEW q \in Queues(h), NEW items \in Seq(ItemsTo(h)), NEW g,
           InOrder(q, g), Rising(items, g),
           \A m \in OnTheWay(q, g), n \in Numbers(items, g) : m < n
    PROVE  /\ InOrder(Sink(q, items), g)
           /\ OnTheWay(Sink(q, items), g) \subseteq OnTheWay(q, g) \cup Numbers(items, g)
  <1> DEFINE r == Sink(q, items)
             lane == q.lane \o items
  <1>1. q.lane \in Seq(ItemsTo(h))  BY QueueTyped
  <1>2. r \in Queues(h) /\ r.wire = q.wire /\ Within(r.lane, lane)
    <2>1. r \in Queues(h) /\ Thinned(Full(q, items), r)  BY SinkThins
    <2>2. Full(q, items).lane = lane /\ Full(q, items).wire = q.wire  BY FullTyped
    <2> HIDE DEF r, lane
    <2> QED  BY <2>1, <2>2 DEF Thinned
  <1>3. r.lane \in Seq(ItemsTo(h))  BY <1>2, QueueTyped
  <1>4. lane \in Seq(ItemsTo(h))  BY <1>1
  <1>5. Numbers(lane, g) = Numbers(q.lane, g) \cup Numbers(items, g)
    BY <1>1, NumbersJoined
  <1>6. Rising(lane, g)
    <2>1. Rising(q.lane, g)  BY DEF InOrder
    <2>2. \A m \in Numbers(q.lane, g), n \in Numbers(items, g) : m < n  BY DEF OnTheWay
    <2> QED  BY <1>1, <2>1, <2>2, RisingJoined
  <1> HIDE DEF r, lane
  <1>7. Rising(r.lane, g) /\ Numbers(r.lane, g) \subseteq Numbers(lane, g)
    BY <1>2, <1>3, <1>4, <1>6, RisingWithin
  <1>8. \A m \in Numbers(q.wire, g), n \in Numbers(lane, g) : m < n
    BY <1>5 DEF InOrder, OnTheWay
  <1>9. InOrder(r, g)  BY <1>2, <1>7, <1>8 DEF InOrder
  <1>10. OnTheWay(r, g) \subseteq OnTheWay(q, g) \cup Numbers(items, g)
    BY <1>2, <1>5, <1>7 DEF OnTheWay
  <1> QED  BY <1>9, <1>10 DEF r

LEMMA FramesRise ==
    ASSUME NEW h \in Nat, NEW gen \in Gens, NEW from \in 0 .. h, NEW to \in 0 .. h
    PROVE  /\ Rising(Frames(gen, from, to), gen)
           /\ \A n \in Numbers(Frames(gen, from, to), gen) : n \in Nat /\ from < n /\ n <= to
  <1> DEFINE s == Frames(gen, from, to)
  <1>1. /\ s \in Seq(ItemsTo(h)) /\ Len(s) = IF from <= to THEN to - from ELSE 0
        /\ \A i \in 1 .. (to - from) : s[i] = Item("frame", gen, from + i, from + i)
    BY FramesTyped
  <1> HIDE DEF s
  <1>2. \A i \in DOMAIN s : i \in 1 .. (to - from) /\ s[i].to = from + i
    <2> TAKE i \in DOMAIN s
    <2>1. DOMAIN s = 1 .. Len(s)  BY <1>1
    <2>2. i \in 1 .. (to - from)  BY <1>1, <2>1
    <2>3. s[i] = Item("frame", gen, from + i, from + i)  BY <1>1, <2>2
    <2> QED  BY <2>2, <2>3 DEF Item
  <1>3. Rising(s, gen)  BY <1>2 DEF Rising
  <1>4. \A n \in Numbers(s, gen) : n \in Nat /\ from < n /\ n <= to
    BY <1>2, NumbersAt
  <1> QED  BY <1>3, <1>4 DEF s

LEMMA TailRises ==
    ASSUME NEW h \in Nat, NEW s \in Seq(ItemsTo(h)), s # <<>>, NEW g, Rising(s, g)
    PROVE  /\ Rising(Tail(s), g)
           /\ Numbers(s, g) = Numbers(<<Head(s)>>, g) \cup Numbers(Tail(s), g)
           /\ \A m \in Numbers(<<Head(s)>>, g), n \in Numbers(Tail(s), g) : m < n
  <1>1. /\ Head(s) \in ItemsTo(h) /\ Tail(s) \in Seq(ItemsTo(h))
        /\ Range(s) = {Head(s)} \cup Range(Tail(s))
        /\ Len(Tail(s)) = Len(s) - 1
        /\ \A j \in 1 .. (Len(s) - 1) : Tail(s)[j] = s[j + 1]
    BY RangeOfTail
  <1>2. Range(<<Head(s)>>) = {Head(s)}  BY <1>1, OneItem
  <1>3. Numbers(s, g) = Numbers(<<Head(s)>>, g) \cup Numbers(Tail(s), g)
    BY <1>1, <1>2 DEF Numbers
  <1>4. Rising(Tail(s), g)
    BY <1>1, TailWithin, RisingWithin
  <1>5. ASSUME NEW m \in Numbers(<<Head(s)>>, g), NEW n \in Numbers(Tail(s), g)
        PROVE  m < n
    <2>1. FrameOf(s[1], g) /\ m = s[1].to /\ 1 \in DOMAIN s
      BY <1>2 DEF Numbers
    <2>2. PICK j \in DOMAIN Tail(s) : FrameOf(Tail(s)[j], g) /\ n = Tail(s)[j].to
      <3> DEFINE t == Tail(s)
      <3> HIDE DEF t
      <3>1. n \in Numbers(t, g)  BY DEF t
      <3>2. \E j \in DOMAIN t : FrameOf(t[j], g) /\ n = t[j].to  BY <3>1, NumbersAt
      <3> QED  BY <3>2 DEF t
    <2>3. j \in 1 .. (Len(s) - 1) /\ j + 1 \in DOMAIN s /\ 1 < j + 1
      BY <1>1, <2>2
    <2>4. FrameOf(s[j + 1], g) /\ n = s[j + 1].to  BY <1>1, <2>2, <2>3
    <2> QED  BY <2>1, <2>3, <2>4 DEF Rising
  <1> QED  BY <1>3, <1>4, <1>5

-----------------------------------------------------------------------------
(* One page of a session at a time.                                        *)

LEMMA CreditsTyped ==
    ASSUME Typed, NEW g
    PROVE  Credits(up, g) \subseteq Nat
  <1>1. up \in Seq(Messages) /\ head \in Nat  BY TypedNow DEF TypesNow
  <1>2. \A m \in Range(up) : m \in Messages  BY <1>1 DEF Range
  <1>3. \A m \in Messages : m.seq \in Nat  BY <1>1 DEF Messages, Positions
  <1> QED  BY <1>2, <1>3 DEF Credits

LEMMA PagedNow ==
    ASSUME Typed, Stretched, Paged, session.gen # 0
    PROVE  /\ session \in Sessions /\ session.gen \in Gens
           /\ session.credited \in Nat /\ session.pageEnd \in Nat
           /\ session.credited <= session.pageEnd
           /\ PageOut(session, pc, OnTheWay(out, session.gen), Inbox(session.gen),
                      Credits(up, session.gen))
           /\ InOrder(out, session.gen)
           /\ OnTheWay(out, session.gen) \subseteq Nat /\ Inbox(session.gen) \subseteq Nat
           /\ Credits(up, session.gen) \subseteq Nat
  <1>1. TypesNow  BY TypedNow
  <1>2. session \in Sessions /\ session.gen \in Gens
        /\ session.credited \in Nat /\ session.pageEnd \in Nat
    BY <1>1 DEF TypesNow, Sessions, Positions, Gens
  <1>3. session.credited <= session.pageEnd  BY DEF Stretched
  <1>4. OnTheWay(out, session.gen) \subseteq Nat
    <2>1. head \in Nat /\ out.lane \in Seq(ItemsTo(head)) /\ out.wire \in Seq(ItemsTo(head))
      BY OutTyped, QueueTyped DEF OutputTyped
    <2> QED  BY <2>1, NumbersTyped DEF OnTheWay
  <1>5. Inbox(session.gen) \subseteq Nat
    BY <1>1 DEF Inbox, TypesNow, Panes
  <1> QED  BY <1>2, <1>3, <1>4, <1>5, CreditsTyped DEF Paged

\* The positions of a page out may only become fewer.
LEMMA PageOutLess ==
    ASSUME NEW s, NEW p, NEW way, NEW inbox, NEW credits, PageOut(s, p, way, inbox, credits),
           NEW s2, NEW p2, NEW way2, NEW inbox2, NEW credits2,
           way2 \subseteq way, inbox2 \subseteq inbox, credits2 \subseteq credits,
           s2.credited = s.credited, s2.pageEnd = s.pageEnd,
           (p2 = p /\ s2 = s) \/ p2 \notin {"start", "guard", "drive"}
    PROVE  PageOut(s2, p2, way2, inbox2, credits2)
  BY DEF PageOut

\* Nothing of the session's page is left anywhere.
LEMMA PageOutNone ==
    ASSUME NEW s, NEW p, NEW credits, \A c \in credits : c <= s.pageEnd,
           p = "start" => s.pageEnd <= s.credited + PageFrames /\ credits = {}
    PROVE  PageOut(s, p, {}, {}, credits)
  BY DEF PageOut

LEMMA PagedLess ==
    ASSUME Typed, Stretched, Paged,
           session'.gen # 0 =>
             /\ session'.gen = session.gen
             /\ session'.credited = session.credited /\ session'.pageEnd = session.pageEnd
             /\ (pc' = pc /\ session' = session) \/ pc' \notin {"start", "guard", "drive"}
             /\ InOrder(out', session.gen)
             /\ OnTheWay(out', session.gen) \subseteq OnTheWay(out, session.gen)
             /\ Inbox(session.gen)' \subseteq Inbox(session.gen)
             /\ Credits(up', session.gen) \subseteq Credits(up, session.gen)
    PROVE  Paged'
  <1> SUFFICES ASSUME session'.gen # 0
               PROVE  /\ PageOut(session', pc', OnTheWay(out', session'.gen),
                                 Inbox(session.gen)', Credits(up', session'.gen))
                      /\ InOrder(out', session'.gen)
    BY DEF Paged, PageOut, PhaseTarget, InOrder, OnTheWay, Numbers, Rising, Credits, FrameOf
  <1> DEFINE g == session.gen
             s == session
             p == pc
             way == OnTheWay(out, g)
             inbox == Inbox(g)
             credits == Credits(up, g)
             s2 == session'
             p2 == pc'
             way2 == OnTheWay(out', g)
             inbox2 == Inbox(g)'
             credits2 == Credits(up', g)
  <1>1. PageOut(s, p, way, inbox, credits)  BY PagedNow
  <1>2. /\ way2 \subseteq way /\ inbox2 \subseteq inbox /\ credits2 \subseteq credits
        /\ s2.credited = s.credited /\ s2.pageEnd = s.pageEnd
        /\ (p2 = p /\ s2 = s) \/ p2 \notin {"start", "guard", "drive"}
    OBVIOUS
  <1> HIDE DEF s, p, way, inbox, credits, s2, p2, way2, inbox2, credits2
  <1>3. PageOut(s2, p2, way2, inbox2, credits2)  BY <1>1, <1>2, PageOutLess
  <1> QED  BY <1>3 DEF s2, p2, way2, inbox2, credits2

LEMMA PagedStays ==
    ASSUME Typed, Stretched, Paged, UNCHANGED <<out, up, pane>>,
           session'.gen # 0 =>
             /\ session'.gen = session.gen
             /\ session'.credited = session.credited /\ session'.pageEnd = session.pageEnd
             /\ (pc' = pc /\ session' = session) \/ pc' \notin {"start", "guard", "drive"}
    PROVE  Paged'
  <1> SUFFICES ASSUME session'.gen # 0 PROVE Paged'
    BY DEF Paged
  <1>1. InOrder(out, session.gen)  BY PagedNow
  <1>2. Inbox(session.gen)' = Inbox(session.gen)  BY DEF Inbox
  <1> QED  BY <1>1, <1>2, PagedLess

LEMMA PagedVoid ==
    ASSUME session'.gen = 0
    PROVE  Paged'
  BY DEF Paged

LEMMA PagedTerminal ==
    ASSUME Served, Stretched, Paged, Produce \/ Exit
    PROVE  Paged'
  <1>1. Typed /\ Servers  BY DEF Served
  <1>2. UNCHANGED <<session, pc, up, pane>>  BY DEF Produce, Exit
  <1>3. CASE session.gen = 0  BY <1>2, <1>3, PagedVoid
  <1>4. CASE session.gen # 0
    <2>1. sub.deferred  BY <1>1, <1>4 DEF Servers
    <2>2. out' = out  BY <2>1 DEF Produce, Exit
    <2> QED  BY <1>1, <1>2, <2>2, PagedStays
  <1> QED  BY <1>3, <1>4

LEMMA PagedAttachRunning ==
    ASSUME Served, AttachRunning
    PROVE  Paged'
  <1>1. Typed /\ Fresh /\ TypesNow  BY TypedNow DEF Served
  <1>2. Received("attach") /\ pc' = "start" /\ pane' = pane  BY DEF AttachRunning
  <1> DEFINE m == Head(up)
             base == Max({m.seq, Oldest - 1})
             lost == Gap("retention", m.gen, m.seq + 1, Oldest - 1)
  <1>3. /\ m.gen \in Gens /\ m.seq \in Positions /\ m \in Messages
        /\ \A e \in Contents(out) : e.gen # m.gen
    BY <1>2, NewAttachment
  <1>4. /\ up' = Tail(up) /\ m.kind = "attach" /\ Len(up) >= 1 /\ m = up[1]
        /\ \A j \in 1 .. (Len(up) - 1) : Tail(up)[j] = up[j + 1]
        /\ Len(Tail(up)) = Len(up) - 1 /\ up \in Seq(Messages) /\ Tail(up) \in Seq(Messages)
    BY <1>1, <1>2, ReceivedTyped DEF TypesNow
  <1>5. /\ session' = [gen |-> m.gen, target |-> head, exitHead |-> 0,
                       credited |-> base, pageEnd |-> PageEnd(base, head)]
        /\ out' = Sink(Discard(out), lost)
    BY DEF AttachRunning
  <1>6. base \in Positions /\ PageEnd(base, head) <= base + PageFrames
    <2>1. head \in Nat /\ head \in Positions  BY <1>1, EmptyTyped DEF TypesNow
    <2>2. Base(m) \in Positions  BY <1>1, <1>3, BaseTyped
    <2>3. base \in Positions  BY <2>2 DEF Base
    <2> HIDE DEF base
    <2> QED  BY <2>1, <2>3, PageEndBounds DEF Positions
  <1> HIDE DEF base
  <1>7. InOrder(out', m.gen) /\ OnTheWay(out', m.gen) = {}
    <2>1. /\ out \in Queues(head) /\ head \in Nat /\ OutputTyped(out, head)
          /\ Oldest - 1 \in Positions
      BY <1>1, OutTyped, OldestBounds DEF OutputTyped, Positions
    <2>2. /\ Discard(out) \in Queues(head) /\ Discard(out).lane = <<>>
          /\ Discard(out).wire = out.wire
      BY <2>1, DiscardTyped DEF OutputTyped
    <2>3. m.seq + 1 \in Nat \ {0}  BY <1>3, <2>1 DEF Positions
    <2>4. lost \in Seq(ItemsTo(head)) /\ \A e \in Range(lost) : e.kind = "retention"
      <3> DEFINE from == m.seq + 1
                 to == Oldest - 1
      <3>1. from \in Nat \ {0} /\ to \in Positions  BY <2>1, <2>3
      <3> HIDE DEF from, to
      <3>2. /\ Gap("retention", m.gen, from, to) \in Seq(ItemsTo(head))
            /\ \A e \in Range(Gap("retention", m.gen, from, to)) : e.kind = "retention"
        BY <1>1, <1>3, <3>1, GapAdmitted
      <3> QED  BY <3>2 DEF from, to
    <2> DEFINE q == Discard(out)
               g == m.gen
    <2>5. \A e \in Range(q.wire) : ~FrameOf(e, g)
      BY <1>3, <2>2 DEF Contents, FrameOf
    <2>6. \A e \in Range(q.lane) : ~FrameOf(e, g)  BY <2>2 DEF Range
    <2>7. \A e \in Range(lost) : ~FrameOf(e, g)  BY <2>4 DEF FrameOf
    <2> HIDE DEF q, g, lost
    <2>8. Numbers(q.wire, g) = {} /\ Numbers(q.lane, g) = {} /\ Rising(q.lane, g)
          /\ Numbers(lost, g) = {} /\ Rising(lost, g)
      BY <2>5, <2>6, <2>7, NoNumbers
    <2>9. OnTheWay(q, g) = {} /\ InOrder(q, g)  BY <2>8 DEF OnTheWay, InOrder
    <2>10. q \in Queues(head)  BY <2>2 DEF q
    <2>11. /\ InOrder(Sink(q, lost), g)
           /\ OnTheWay(Sink(q, lost), g) \subseteq OnTheWay(q, g) \cup Numbers(lost, g)
      BY <2>1, <2>4, <2>8, <2>9, <2>10, SinkInOrder
    <2> QED  BY <1>5, <2>8, <2>9, <2>11 DEF q, g
  <1>8. Credits(up', m.gen) = {}
    <2>1. 1 \in DOMAIN up /\ DOMAIN up = 1 .. Len(up) /\ DOMAIN Tail(up) = 1 .. (Len(up) - 1)
      BY <1>4
    <2>2. \A j \in DOMAIN up : up[j].kind = "credit" => up[j].gen # m.gen
      BY <1>1, <1>4, <2>1 DEF Fresh, Sent
    <2>3. ASSUME NEW c \in Range(up'), c.gen = m.gen, c.kind = "credit" PROVE FALSE
      <3>1. PICK j \in 1 .. (Len(up) - 1) : c = Tail(up)[j]  BY <1>4, <2>1 DEF Range
      <3>2. j + 1 \in DOMAIN up /\ c = up[j + 1]  BY <1>4, <2>1, <3>1
      <3> QED  BY <2>2, <2>3, <3>2
    <2> QED  BY <2>3 DEF Credits
  <1>9. Inbox(session.gen)' = {}
    <2>1. 1 \in DOMAIN up  BY <1>4
    <2>2. m.gen = pane.gen => pane.inbox = {}  BY <1>1, <1>4, <2>1 DEF Fresh, Sent
    <2> QED  BY <1>2, <1>5, <2>2 DEF Inbox
  <1> DEFINE s == session'
             credits == Credits(up', m.gen)
  <1>10. /\ s.gen = m.gen /\ s.pageEnd <= s.credited + PageFrames
         /\ \A c \in credits : c <= s.pageEnd
    BY <1>5, <1>6, <1>8
  <1> HIDE DEF s
  <1>11. PageOut(s, "start", {}, {}, credits)
    BY <1>8, <1>10, PageOutNone
  <1> QED
    BY <1>2, <1>7, <1>9, <1>10, <1>11
    DEF s, Paged, PageOut, PhaseTarget, InOrder, OnTheWay, Numbers, Rising, Credits, FrameOf

LEMMA PagedDetached ==
    ASSUME AttachExited \/ DetachPane \/ SettleTransfers
    PROVE  Paged'
  <1>1. session' = NoSession  BY DEF AttachExited, DetachPane, SettleTransfers
  <1> QED  BY <1>1, PagedVoid DEF NoSession

LEMMA PagedSettles ==
    ASSUME Served, Stretched, Paged, NotifyArm \/ SettleStays
    PROVE  Paged'
  <1>1. Typed  BY DEF Served
  <1>2. UNCHANGED <<out, up, pane>> /\ session' = Arm(session) /\ pc' = "idle"
    BY DEF NotifyArm, SettleStays
  <1>3. /\ session'.gen = session.gen /\ session'.credited = session.credited
        /\ session'.pageEnd = session.pageEnd
    BY <1>1, <1>2, ArmKeeps, TypedNow DEF TypesNow
  <1> QED  BY <1>1, <1>2, <1>3, PagedStays

\* The wedge guard drives on only when the whole page was credited.
LEMMA PagedGuards ==
    ASSUME Served, Stretched, Paged, SettleGuards
    PROVE  Paged'
  <1>1. Typed  BY DEF Served
  <1>2. /\ UNCHANGED <<out, up, pane>> /\ session' = Arm(session) /\ pc' = "guard"
        /\ session.credited = session.pageEnd /\ pc # "idle"
    BY DEF SettleGuards
  <1>3. session.gen # 0  BY <1>1, <1>2 DEF Typed
  <1>4. /\ session'.gen = session.gen /\ session'.credited = session.credited
        /\ session'.pageEnd = session.pageEnd
    BY <1>1, <1>2, ArmKeeps, TypedNow DEF TypesNow
  <1> DEFINE s == session
             way == OnTheWay(out, session.gen)
             inbox == Inbox(session.gen)
             credits == Credits(up, session.gen)
  <1>5. /\ PageOut(s, pc, way, inbox, credits) /\ InOrder(out, session.gen)
        /\ way \subseteq Nat /\ inbox \subseteq Nat /\ s.pageEnd \in Nat
    BY <1>1, <1>3, PagedNow
  <1>6. Inbox(session.gen)' = inbox  BY <1>2, <1>4 DEF Inbox
  <1>7. s.credited = s.pageEnd  BY <1>2
  <1> HIDE DEF s, way, inbox, credits
  <1>8. way = {} /\ inbox = {} /\ \A c \in credits : c <= s.pageEnd
    BY <1>5, <1>7 DEF PageOut
  <1>9. PageOut(session', "guard", {}, {}, credits)
    BY <1>4, <1>8, PageOutNone DEF s
  <1> QED
    BY <1>2, <1>4, <1>5, <1>6, <1>8, <1>9
    DEF way, inbox, credits, Paged, PageOut, PhaseTarget, InOrder, OnTheWay, Numbers,
        Rising, Credits, FrameOf

LEMMA PagedBy ==
    ASSUME NEW g, session'.gen = g, InOrder(out', g), Inbox(session.gen)' = Inbox(g)',
           PageOut(session', pc', OnTheWay(out', g), Inbox(g)', Credits(up', g))
    PROVE  Paged'
  BY DEF Paged, PageOut, PhaseTarget, InOrder, OnTheWay, Numbers, Rising, Credits, FrameOf

\* Items of other attachments, or gaps, add no frame.
LEMMA NoneAdmitted ==
    ASSUME Typed, NEW g, InOrder(out, g), NEW items \in Seq(ItemsTo(head)),
           \A e \in Range(items) : ~FrameOf(e, g), out' = Sink(out, items)
    PROVE  InOrder(out', g) /\ OnTheWay(out', g) \subseteq OnTheWay(out, g)
  <1>1. out \in Queues(head) /\ head \in Nat  BY OutTyped DEF OutputTyped
  <1>2. Numbers(items, g) = {} /\ Rising(items, g)  BY NoNumbers
  <1> QED  BY <1>1, <1>2, SinkInOrder

\* A page follows whatever is left of the one before.
LEMMA NextAdmitted ==
    ASSUME Typed, NEW g \in Gens, InOrder(out, g), OnTheWay(out, g) = {},
           NEW from \in Positions, NEW to \in Positions, out' = Sink(out, Frames(g, from, to))
    PROVE  InOrder(out', g) /\ \A n \in OnTheWay(out', g) : n \in Nat /\ from < n /\ n <= to
  <1>1. out \in Queues(head) /\ head \in Nat  BY OutTyped DEF OutputTyped
  <1> DEFINE items == Frames(g, from, to)
  <1>2. items \in Seq(ItemsTo(head))  BY PageAdmitted
  <1>3. Rising(items, g) /\ \A n \in Numbers(items, g) : n \in Nat /\ from < n /\ n <= to
    BY <1>1, FramesRise DEF Positions
  <1> HIDE DEF items
  <1>4. /\ InOrder(Sink(out, items), g)
        /\ OnTheWay(Sink(out, items), g) \subseteq OnTheWay(out, g) \cup Numbers(items, g)
    BY <1>1, <1>2, <1>3, SinkInOrder
  <1>5. out' = Sink(out, items)  BY DEF items
  <1> QED  BY <1>3, <1>4, <1>5

LEMMA PagedStart ==
    ASSUME Served, Stretched, Paged, StartSession
    PROVE  Paged'
  <1>1. Typed /\ TypesNow  BY TypedNow DEF Served
  <1>2. /\ pc = "start" /\ UNCHANGED <<up, pane>> /\ session' = Arm(session)
        /\ out' = Sink(out, Frames(session.gen, session.credited, session.pageEnd))
        /\ pc' = IF session.credited < session.pageEnd
                      /\ session.pageEnd < PhaseTarget(Arm(session)) THEN "idle" ELSE "drive"
    BY DEF StartSession
  <1>3. session.gen # 0  BY <1>1, <1>2 DEF Typed
  <1> DEFINE g == session.gen
             s == session
             s2 == session'
             way2 == OnTheWay(out', g)
             credits == Credits(up, g)
  <1>4. /\ session \in Sessions /\ g \in Gens /\ session.credited \in Nat
        /\ session.pageEnd \in Nat /\ InOrder(out, g)
        /\ PageOut(session, pc, OnTheWay(out, g), Inbox(g), Credits(up, g))
    BY <1>1, <1>3, PagedNow
  <1>5. session.credited \in Positions /\ session.pageEnd \in Positions
    BY <1>4 DEF Sessions
  <1>6. /\ s2.gen = g /\ s2.credited = s.credited /\ s2.pageEnd = s.pageEnd
        /\ s2 \in Sessions
    BY <1>1, <1>2, <1>4, ArmKeeps
  <1>7. /\ OnTheWay(out, g) = {} /\ Inbox(g) = {} /\ credits = {}
        /\ s.pageEnd <= s.credited + PageFrames
    BY <1>2, <1>4 DEF PageOut
  <1>8. InOrder(out', g) /\ \A n \in way2 : n \in Nat /\ s.credited < n /\ n <= s.pageEnd
    BY <1>1, <1>2, <1>4, <1>5, <1>7, NextAdmitted
  <1>9. Inbox(session.gen)' = {} /\ Inbox(g)' = {}
    BY <1>2, <1>6, <1>7 DEF Inbox
  <1>10. PhaseTarget(s2) \in Nat
    <2>1. Positions \subseteq Nat  BY <1>1 DEF TypesNow, Positions
    <2> QED  BY <1>1, <1>6, <2>1, PhaseTargetTyped
  <1>11. PageOut(s2, pc', way2, {}, {})
    <2>1. \A n \in way2 : s2.credited < n /\ n <= s2.pageEnd /\ s2.pageEnd - PageFrames < n
      <3> TAKE n \in way2
      <3>1. n \in Nat /\ s.credited < n /\ n <= s.pageEnd  BY <1>8
      <3>2. s2.pageEnd - PageFrames <= s.credited
        BY <1>4, <1>6, <1>7, WatermarkBound
      <3> QED  BY <1>4, <1>6, <3>1, <3>2, WatermarkBound
    <2>2. pc' \in {"idle", "drive"}  BY <1>2
    <2>3. pc' = "drive" => way2 = {} \/ s2.pageEnd >= PhaseTarget(s2)
      <3> SUFFICES ASSUME pc' = "drive", NEW n \in way2
                   PROVE  s2.pageEnd >= PhaseTarget(s2)
        OBVIOUS
      <3>1. s.credited < s.pageEnd  BY <1>4, <1>8
      <3>2. ~(s.pageEnd < PhaseTarget(s2))  BY <1>2, <3>1
      <3> QED  BY <1>4, <1>6, <1>10, <3>2
    <2> HIDE DEF s2, way2
    <2> QED  BY <2>1, <2>2, <2>3 DEF PageOut
  <1>12. Credits(up', g) = {}  BY <1>2, <1>7
  <1> QED  BY <1>6, <1>8, <1>9, <1>11, <1>12, PagedBy

\* A credit of the page's end leaves nothing of it unread.
LEMMA PagedCredit ==
    ASSUME Served, Stretched, Paged, Credit
    PROVE  Paged'
  <1>1. Typed /\ TypesNow  BY TypedNow DEF Served
  <1>2. UNCHANGED <<out, pane>> /\ Received("credit")  BY DEF Credit
  <1> DEFINE m == Head(up)
  <1>3. /\ m \in Messages /\ m.kind = "credit" /\ m.seq \in Positions /\ up' = Tail(up)
        /\ pc = "idle"
    BY <1>1, <1>2, ReceivedTyped
  <1>4. up # <<>> /\ Range(up) = {m} \cup Range(up')
    BY <1>1, <1>2, <1>3, RangeOfTail DEF Received, TypesNow
  <1> HIDE DEF m
  <1>5. CASE UNCHANGED <<session, pc>>
    <2>1. CASE session.gen = 0  BY <1>5, <2>1, PagedVoid
    <2>2. CASE session.gen # 0
      <3>1. InOrder(out, session.gen)  BY <1>1, <2>2, PagedNow
      <3>2. Inbox(session.gen)' = Inbox(session.gen)  BY <1>2, <1>5 DEF Inbox
      <3>3. Credits(up', session.gen) \subseteq Credits(up, session.gen)
        BY <1>4 DEF Credits
      <3> QED  BY <1>1, <1>2, <1>5, <3>1, <3>2, <3>3, PagedLess
    <2> QED  BY <2>1, <2>2
  <1>6. CASE CreditAccepted(m) /\ session' = Arm([session EXCEPT !.credited = m.seq]) /\ pc' = "drive"
    <2> DEFINE g == session.gen
               s == session
               s2 == session'
               way == OnTheWay(out, g)
               inbox == Inbox(g)
               credits == Credits(up, g)
    <2>1. m.gen = g /\ m.seq = s.pageEnd  BY <1>6 DEF CreditAccepted
    <2>2. g # 0  BY <1>1, <1>3, <2>1 DEF Messages, Gens
    <2>3. /\ s \in Sessions /\ PageOut(s, pc, way, inbox, credits) /\ InOrder(out, g)
          /\ way \subseteq Nat /\ inbox \subseteq Nat /\ s.pageEnd \in Nat
      BY <1>1, <2>2, PagedNow
    <2>4. [s EXCEPT !.credited = m.seq] \in Sessions
          /\ [s EXCEPT !.credited = m.seq].gen = g
          /\ [s EXCEPT !.credited = m.seq].pageEnd = s.pageEnd
      BY <1>3, <2>3 DEF Sessions
    <2>5. s2.gen = g /\ s2.pageEnd = s.pageEnd
      <3> DEFINE r == [s EXCEPT !.credited = m.seq]
      <3>1. r \in Sessions /\ r.gen = g /\ r.pageEnd = s.pageEnd  BY <2>4
      <3>2. s2 = Arm(r)  BY <1>6
      <3> HIDE DEF r
      <3> QED  BY <1>1, <3>1, <3>2, ArmKeeps
    <2>6. m.seq \in credits  BY <1>3, <1>4, <2>1 DEF Credits
    <2>7. Credits(up', g) \subseteq credits  BY <1>4 DEF Credits
    <2>8. Inbox(session.gen)' = inbox /\ Inbox(g)' = inbox  BY <1>2, <2>5 DEF Inbox
    <2>9. way = {} /\ inbox = {} /\ \A c \in credits : c <= s.pageEnd
      <3> HIDE DEF s, way, inbox, credits
      <3> QED  BY <2>1, <2>3, <2>6 DEF PageOut
    <2>10. PageOut(s2, "drive", {}, {}, Credits(up', g))
      BY <2>5, <2>7, <2>9, PageOutNone
    <2>11. OnTheWay(out', g) = {} /\ InOrder(out', g)
      BY <1>2, <2>3, <2>9
    <2> QED  BY <1>6, <2>5, <2>8, <2>9, <2>10, <2>11, PagedBy
  <1> QED  BY <1>5, <1>6 DEF Credit, m

LEMMA PagedDrive ==
    ASSUME Served, Stretched, Paged, Drive
    PROVE  Paged'
  <1>1. Typed /\ TypesNow  BY TypedNow DEF Served
  <1>2. UNCHANGED <<up, pane>> /\ pc \in {"drive", "guard"}  BY DEF Drive
  <1>3. session.gen # 0  BY <1>1, <1>2 DEF Typed
  <1> DEFINE g == session.gen
             s == session
             s2 == session'
             way == OnTheWay(out, g)
             inbox == Inbox(g)
             credits == Credits(up, g)
             to == PhaseTarget(session)
             end == PageEnd(session.pageEnd, to)
             lost == Gap("retention", session.gen, session.pageEnd + 1, Oldest - 1)
  <1>4. /\ s \in Sessions /\ g \in Gens /\ s.credited \in Nat /\ s.pageEnd \in Nat
        /\ s.credited <= s.pageEnd /\ InOrder(out, g) /\ PageOut(s, pc, way, inbox, credits)
        /\ credits \subseteq Nat
    BY <1>1, <1>3, PagedNow
  <1>5. /\ s.pageEnd \in Positions /\ end \in Positions /\ s.pageEnd <= end
        /\ end <= s.pageEnd + PageFrames /\ to \in Nat /\ head \in Nat
        /\ Oldest - 1 \in Positions /\ end \in Nat
    <2>1. s.pageEnd \in Positions /\ head \in Nat  BY <1>1, <1>4 DEF Sessions, TypesNow
    <2>2. end \in Positions /\ s.pageEnd <= end /\ end <= s.pageEnd + PageFrames
      BY <1>1, <1>4, <2>1, NextPage
    <2>3. to \in Positions  BY <1>1, <1>4, PhaseTargetTyped
    <2>4. Oldest - 1 \in Positions  BY <2>1, OldestBounds DEF Positions
    <2> HIDE DEF to, end
    <2> QED  BY <2>1, <2>2, <2>3, <2>4 DEF Positions
  <1>6. \/ s.pageEnd >= to /\ UNCHANGED <<session, out>> /\ pc' \notin {"start", "guard", "drive"}
        \/ /\ s.pageEnd < to /\ s.pageEnd + 1 < Oldest /\ pc' = pc
           /\ session' = [session EXCEPT !.pageEnd = Oldest - 1] /\ out' = Sink(out, lost)
        \/ /\ s.pageEnd < to /\ pc' \notin {"start", "guard", "drive"}
           /\ session' = [session EXCEPT !.pageEnd = end]
           /\ out' = Sink(out, Frames(g, s.pageEnd, end))
    BY <1>2 DEF Drive
  <1>7. s.pageEnd < to => way = {} /\ inbox = {}
    <2> SUFFICES ASSUME s.pageEnd < to PROVE way = {} /\ inbox = {}
      OBVIOUS
    <2>1. ~(s.pageEnd >= PhaseTarget(s))  BY <1>4, <1>5
    <2> HIDE DEF s, way, inbox, credits
    <2> QED  BY <1>2, <1>4, <2>1 DEF PageOut
  <1>8. \A c \in credits : c <= s.pageEnd
    <2> HIDE DEF s, way, inbox, credits
    <2> QED  BY <1>4 DEF PageOut
  <1>9. CASE s.pageEnd >= to /\ UNCHANGED <<session, out>> /\ pc' \notin {"start", "guard", "drive"}
    BY <1>1, <1>2, <1>9, PagedStays
  <1>10. CASE /\ s.pageEnd < to /\ s.pageEnd + 1 < Oldest /\ pc' = pc
              /\ session' = [session EXCEPT !.pageEnd = Oldest - 1] /\ out' = Sink(out, lost)
    <2>1. s2.gen = g /\ s2.pageEnd = Oldest - 1
      BY <1>4, <1>10 DEF Sessions
    <2>2. lost \in Seq(ItemsTo(head)) /\ \A e \in Range(lost) : ~FrameOf(e, g)
      <3> DEFINE from == session.pageEnd + 1
                 last == Oldest - 1
      <3>1. from \in Nat \ {0} /\ last \in Positions  BY <1>4, <1>5
      <3> HIDE DEF from, last
      <3>2. /\ Gap("retention", g, from, last) \in Seq(ItemsTo(head))
            /\ \A e \in Range(Gap("retention", g, from, last)) : e.kind = "retention"
        BY <1>1, <1>4, <3>1, GapAdmitted
      <3> QED  BY <3>2 DEF from, last, FrameOf
    <2>3. InOrder(out', g) /\ OnTheWay(out', g) \subseteq way
      BY <1>1, <1>4, <1>10, <2>2, NoneAdmitted
    <2>4. way = {} /\ inbox = {}  BY <1>7, <1>10
    <2>5. \A c \in credits : c <= s2.pageEnd
      <3> TAKE c \in credits
      <3>1. c \in Nat /\ c <= s.pageEnd  BY <1>4, <1>8
      <3>2. Oldest \in Int  BY <1>5, OldestBounds
      <3>3. s.pageEnd + 1 < Oldest /\ s.pageEnd \in Nat  BY <1>4, <1>10
      <3>4. c <= Oldest - 1  BY <3>1, <3>2, <3>3
      <3> QED  BY <2>1, <3>4
    <2>6. PageOut(s2, pc', {}, {}, credits)
      <3> DEFINE p == pc'
      <3>1. p # "start"  BY <1>2, <1>10
      <3> HIDE DEF p, s2, credits
      <3>2. PageOut(s2, p, {}, {}, credits)  BY <2>5, <3>1, PageOutNone
      <3> QED  BY <3>2 DEF p
    <2>7. Inbox(session.gen)' = inbox /\ Inbox(g)' = inbox  BY <1>2, <2>1 DEF Inbox
    <2>8. OnTheWay(out', g) = {} /\ Credits(up', g) = credits  BY <1>2, <2>3, <2>4
    <2> QED  BY <2>1, <2>3, <2>4, <2>6, <2>7, <2>8, PagedBy
  <1>11. CASE /\ s.pageEnd < to /\ pc' \notin {"start", "guard", "drive"}
              /\ session' = [session EXCEPT !.pageEnd = end]
              /\ out' = Sink(out, Frames(g, s.pageEnd, end))
    <2> HIDE DEF to, end
    <2>1. s2.gen = g /\ s2.pageEnd = end /\ s2.credited = s.credited
      BY <1>4, <1>11 DEF Sessions
    <2>2. way = {} /\ inbox = {}  BY <1>7, <1>11
    <2> DEFINE way2 == OnTheWay(out', g)
    <2>3. InOrder(out', g) /\ \A n \in way2 : n \in Nat /\ s.pageEnd < n /\ n <= end
      BY <1>1, <1>4, <1>5, <1>11, <2>2, NextAdmitted
    <2>4. PageOut(s2, pc', way2, {}, credits)
      <3>1. \A n \in way2 : s2.credited < n /\ n <= s2.pageEnd /\ s2.pageEnd - PageFrames < n
        <4> TAKE n \in way2
        <4>1. n \in Nat /\ s.pageEnd < n /\ n <= end  BY <2>3
        <4>2. end - PageFrames <= s.pageEnd  BY <1>4, <1>5, WatermarkBound
        <4> QED  BY <1>4, <1>5, <2>1, <4>1, <4>2, WatermarkBound
      <3>2. \A c \in credits : c <= s2.pageEnd /\ \A n \in way2 : c < n
        <4> TAKE c \in credits
        <4>1. c \in Nat /\ c <= s.pageEnd  BY <1>4, <1>8
        <4> QED  BY <1>4, <1>5, <2>1, <2>3, <4>1
      <3> HIDE DEF s2, way2, credits
      <3> QED  BY <1>11, <3>1, <3>2 DEF PageOut
    <2>5. Inbox(session.gen)' = {} /\ Inbox(g)' = {}  BY <1>2, <2>1, <2>2 DEF Inbox
    <2>6. Credits(up', g) = credits  BY <1>2
    <2> QED  BY <2>1, <2>3, <2>4, <2>5, <2>6, PagedBy
  <1> QED  BY <1>6, <1>9, <1>10, <1>11

\* Whatever a drain admits is of its own attachment.
LEMMA DrainAdmits ==
    ASSUME Typed, NEW g \in Gens, Drain(g)
    PROVE  \/ out' = out
           \/ \E items \in Seq(ItemsTo(head)) :
                 out' = Sink(out, items) /\ \A e \in Range(items) : e.gen = g
  <1>1. TypesNow  BY TypedNow
  <1>2. ASSUME NEW items \in Seq(ItemsTo(head)), \A e \in Range(items) : e.gen = g,
               Completes(g, items)
        PROVE  \E all \in Seq(ItemsTo(head)) :
                  out' = Sink(out, all) /\ \A e \in Range(all) : e.gen = g
    <2>1. /\ Append(items, ExitItem(g)) \in Seq(ItemsTo(head))
          /\ \A e \in Range(Append(items, ExitItem(g))) : e.gen = g
      BY OutTyped, <1>2, ExitItemTyped, RangeOfAppended
    <2>2. \/ out' = Sink(out, Append(items, ExitItem(g)))
          \/ out' = Sink(out, items)
      BY <1>2 DEF Completes
    <2> QED  BY <1>2, <2>1, <2>2
  <1>3. CASE DrainStart(g) \/ Reserve(g) \/ DrainGone(g)
    BY <1>3 DEF DrainStart, Reserve, DrainGone
  <1>4. CASE DrainSinksGap(g)
    <2> DEFINE from == drains[g].cursor + 1
               to == drains[g].lostTo
    <2>1. from \in Nat \ {0} /\ to \in Positions
      BY <1>1 DEF TypesNow, DrainTasks, Positions
    <2>2. out' = Sink(out, Gap("retention", g, from, to))  BY <1>4 DEF DrainSinksGap
    <2> HIDE DEF from, to
    <2>3. /\ Gap("retention", g, from, to) \in Seq(ItemsTo(head))
          /\ \A e \in Range(Gap("retention", g, from, to)) : e.gen = g
      BY <2>1, GapAdmitted
    <2> QED  BY <2>2, <2>3
  <1>5. CASE DrainPages(g)
    <2> DEFINE from == drains[g].cursor
               end == PageEnd(from, drains[g].target)
               page == Frames(g, from, end)
    <2>1. from \in Positions /\ end \in Positions  BY DrainPageTyped
    <2>2. page \in Seq(ItemsTo(head)) /\ \A e \in Range(page) : e.gen = g
      <3> HIDE DEF from, end
      <3> QED  BY <2>1, PageAdmitted
    <2>3. <<>> \in Seq(ItemsTo(head)) /\ \A e \in Range(<<>>) : e.gen = g  BY DEF Range
    <2>4. \/ Completes(g, <<>>)
          \/ out' = out
          \/ Completes(g, page)
          \/ DrainsOn(g, end, end >= drains[g].target)
      BY <1>5 DEF DrainPages
    <2>5. DrainsOn(g, end, end >= drains[g].target) => out' = Sink(out, page)
      BY DEF DrainsOn
    <2> HIDE DEF from, end, page
    <2> QED  BY <1>2, <2>2, <2>3, <2>4, <2>5
  <1>6. CASE DrainHandsOff(g)
    <2> DEFINE from == drains[g].cursor
               end == PageEnd(from, sub.boundary)
               gaps == Gap("retention", g, from + 1, Oldest - 1) \o Gap("residual", g, Oldest, head)
               tail == Frames(g, from, end) \o Gap("residual", g, end + 1, head)
               page == Frames(g, from, end)
    <2>1. from \in Positions /\ end \in Positions  BY DrainPageTyped
    <2>2. /\ page \in Seq(ItemsTo(head)) /\ \A e \in Range(page) : e.gen = g
          /\ gaps \in Seq(ItemsTo(head)) /\ \A e \in Range(gaps) : e.gen = g
          /\ tail \in Seq(ItemsTo(head)) /\ \A e \in Range(tail) : e.gen = g
      <3> HIDE DEF from, end
      <3> QED  BY <2>1, PageAdmitted, HandoffTyped, HandoffGens
    <2>3. Completes(g, gaps) \/ Completes(g, tail) \/ DrainsOn(g, end, FALSE)
      BY <1>6 DEF DrainHandsOff
    <2>4. DrainsOn(g, end, FALSE) => out' = Sink(out, page)  BY DEF DrainsOn
    <2> HIDE DEF from, end, page, gaps, tail
    <2> QED  BY <1>2, <2>2, <2>3, <2>4
  <1> QED  BY <1>3, <1>4, <1>5, <1>6 DEF Drain

LEMMA PagedDrain ==
    ASSUME Served, Stretched, Paged, NEW g \in Gens, Drain(g)
    PROVE  Paged'
  <1>1. Typed /\ Servers  BY DEF Served
  <1>2. UNCHANGED <<session, pc, up, pane>> /\ drains[g].at # "off"
    BY DEF Drain, DrainStart, Reserve, DrainGone, DrainPages, DrainSinksGap, DrainHandsOff
  <1>3. CASE session.gen = 0  BY <1>2, <1>3, PagedVoid
  <1>4. CASE session.gen # 0
    <2>1. session.gen # g  BY <1>1, <1>2, <1>4 DEF Servers, Draining
    <2>2. InOrder(out, session.gen)  BY <1>1, <1>4, PagedNow
    <2>3. InOrder(out', session.gen) /\ OnTheWay(out', session.gen) \subseteq OnTheWay(out, session.gen)
      <3>1. CASE out' = out  BY <2>2, <3>1
      <3>2. CASE ~(out' = out)
        <4>1. PICK items \in Seq(ItemsTo(head)) :
                out' = Sink(out, items) /\ \A e \in Range(items) : e.gen = g
          BY <1>1, <3>2, DrainAdmits
        <4>2. \A e \in Range(items) : ~FrameOf(e, session.gen)
          BY <2>1, <4>1 DEF FrameOf
        <4> QED  BY <1>1, <2>2, <4>1, <4>2, NoneAdmitted
      <3> QED  BY <3>1, <3>2
    <2>4. Inbox(session.gen)' = Inbox(session.gen)  BY <1>2 DEF Inbox
    <2> QED  BY <1>1, <1>2, <2>3, <2>4, PagedLess
  <1> QED  BY <1>3, <1>4

\* The frame being written reaches the pane before those still queued.
LEMMA PageOutMoves ==
    ASSUME NEW s, NEW p, NEW a, NEW b, NEW inbox, NEW credits,
           PageOut(s, p, a \cup b, inbox, credits), \A m \in b, n \in a : m < n,
           NEW inbox2, inbox2 \subseteq inbox \cup b,
           NEW credits2, credits2 \subseteq credits
    PROVE  PageOut(s, p, a, inbox2, credits2)
  BY DEF PageOut

\* The pane applies what it received and credits no more.
LEMMA PageOutReads ==
    ASSUME NEW s, NEW p, NEW way, NEW inbox, NEW credits, PageOut(s, p, way, inbox, credits),
           way \subseteq Nat, inbox \subseteq Nat, s.pageEnd \in Nat, NEW n \in inbox,
           NEW inbox2, \A m \in inbox2 : m \in inbox /\ n < m,
           NEW credits2, \A c \in credits2 : c \in credits \/ (c \in Nat /\ c <= n)
    PROVE  PageOut(s, p, way, inbox2, credits2)
  <1>1. n <= s.pageEnd /\ n \in Nat  BY DEF PageOut
  <1>2. \A k \in way \cup inbox2 : k \in Nat /\ n < k  BY DEF PageOut
  <1>3. \A c \in credits2 : c <= s.pageEnd /\ \A k \in way \cup inbox2 : c < k
    <2> TAKE c \in credits2
    <2>1. CASE c \in credits  BY <2>1 DEF PageOut
    <2>2. CASE c \in Nat /\ c <= n  BY <1>1, <1>2, <2>2
    <2> QED  BY <2>1, <2>2
  <1>4. p \notin {"start", "guard"}  BY DEF PageOut
  <1>5. inbox2 \subseteq inbox  OBVIOUS
  <1>6. p = "drive" => way \cup inbox2 = {} \/ s.pageEnd >= PhaseTarget(s)
    BY DEF PageOut
  <1> QED  BY <1>3, <1>4, <1>5, <1>6 DEF PageOut

\* Only a credit of the attachment counts.
LEMMA CreditsKept ==
    ASSUME Typed, NEW m \in Messages, NEW g, m.kind # "credit" \/ m.gen # g
    PROVE  Credits(Append(up, m), g) \subseteq Credits(up, g)
  <1>1. up \in Seq(Messages)  BY TypedNow DEF TypesNow
  <1>2. Range(Append(up, m)) = Range(up) \cup {m}  BY <1>1, RangeOfAppended
  <1> QED  BY <1>2 DEF Credits

LEMMA PagedLease ==
    ASSUME Served, Stretched, Paged, Lease
    PROVE  Paged'
  <1>1. Typed  BY DEF Served
  <1>2. /\ out.wire = <<>> /\ UNCHANGED <<session, pc, up, pane>>
        /\ \/ out'.wire = <<Head(out.spill)>> /\ out.spill # <<>> /\ out'.lane = out.lane
           \/ /\ out'.wire = <<Head(out.lane)>> /\ out.lane # <<>>
              /\ out'.lane = Tail(out.lane)
    BY <1>1, Leased
  <1>3. CASE session.gen = 0  BY <1>2, <1>3, PagedVoid
  <1>4. CASE session.gen # 0
    <2> DEFINE g == session.gen
    <2>1. InOrder(out, g)  BY <1>1, <1>4, PagedNow
    <2>2. /\ head \in Nat /\ out.lane \in Seq(ItemsTo(head))
          /\ out.spill \in Seq(ItemsTo(head)) /\ IsOverflow(out.spill)
      BY <1>1, OutTyped, QueueTyped DEF OutputTyped
    <2> HIDE DEF g
    <2>3. InOrder(out', g) /\ OnTheWay(out', g) \subseteq OnTheWay(out, g)
      <3>1. CASE out'.wire = <<Head(out.spill)>> /\ out.spill # <<>> /\ out'.lane = out.lane
        <4>1. Head(out.spill) \in ItemsTo(head) /\ Head(out.spill).kind = "overflow"
          <5>1. Head(out.spill) = out.spill[1] /\ 1 \in DOMAIN out.spill
            BY <2>2, <3>1
          <5> QED  BY <2>2, <3>1, <5>1, RangeOfTail DEF IsOverflow
        <4>2. \A e \in Range(out'.wire) : ~FrameOf(e, g)
          BY <3>1, <4>1, OneItem DEF FrameOf
        <4>3. Numbers(out'.wire, g) = {}
          <5> DEFINE w == out'.wire
          <5> HIDE DEF w
          <5>1. \A e \in Range(w) : ~FrameOf(e, g)  BY <4>2 DEF w
          <5>2. Numbers(w, g) = {}  BY <5>1, NoNumbers
          <5> QED  BY <5>2 DEF w
        <4> QED  BY <2>1, <3>1, <4>3 DEF InOrder, OnTheWay
      <3>2. CASE /\ out'.wire = <<Head(out.lane)>> /\ out.lane # <<>>
                 /\ out'.lane = Tail(out.lane)
        <4>1. Rising(out.lane, g)  BY <2>1 DEF InOrder
        <4>2. /\ Rising(Tail(out.lane), g)
              /\ Numbers(out.lane, g) = Numbers(<<Head(out.lane)>>, g) \cup Numbers(Tail(out.lane), g)
              /\ \A m \in Numbers(<<Head(out.lane)>>, g), n \in Numbers(Tail(out.lane), g) : m < n
          BY <2>2, <3>2, <4>1, TailRises
        <4> QED  BY <3>2, <4>2 DEF InOrder, OnTheWay
      <3> QED  BY <1>2, <3>1, <3>2
    <2>4. Inbox(session.gen)' = Inbox(session.gen)  BY <1>2 DEF Inbox
    <2> QED  BY <1>1, <1>2, <2>3, <2>4, PagedLess DEF g
  <1> QED  BY <1>3, <1>4

LEMMA PagedSendDone ==
    ASSUME Served, Stretched, Paged, SendDone
    PROVE  Paged'
  <1>1. Typed  BY DEF Served
  <1>2. /\ out.wire # <<>> /\ out'.wire = <<>> /\ Range(out'.wire) = {}
        /\ out'.lane = out.lane /\ Handle(out.wire[1]) /\ UNCHANGED <<session, pc>>
    BY <1>1, Flushed
  <1>3. CASE session.gen = 0  BY <1>2, <1>3, PagedVoid
  <1>4. CASE session.gen # 0
    <2> DEFINE g == session.gen
               s == session
               e == out.wire[1]
               a == Numbers(out.lane, g)
               b == Numbers(out.wire, g)
               inbox == Inbox(g)
               credits == Credits(up, g)
    <2>1. /\ PageOut(s, pc, OnTheWay(out, g), inbox, credits) /\ InOrder(out, g)
      BY <1>1, <1>4, PagedNow
    <2>2. /\ e \in ItemsTo(head) /\ Range(out.wire) = {e}
      BY <1>1, <1>2, WireTyped
    <2>3. FrameOf(e, g) => e.from \in b
      BY <2>2 DEF Numbers, FrameOf, ItemsTo
    <2>4. Inbox(session.gen)' \subseteq inbox \cup b /\ Credits(up', g) \subseteq credits
      <3>1. CASE /\ up' = up /\ pane'.gen = pane.gen
                 /\ pane'.inbox = pane.inbox \/ pane'.inbox = {}
        BY <1>2, <3>1 DEF Inbox
      <3>2. CASE /\ up' = up /\ pane'.gen = pane.gen
                 /\ e.kind = "frame" /\ e.gen = pane.gen
                 /\ pane'.inbox = pane.inbox \cup {e.from}
        BY <1>2, <2>3, <3>2 DEF Inbox, FrameOf
      <3>3. CASE /\ pane.gen < MaxGens /\ pane' = BeginAttach(pane, pane.applied)
                 /\ up' = Append(up, Message("attach", pane.gen + 1, pane.applied))
        <4>1. pane.applied \in Positions  BY <1>1, TypedNow DEF TypesNow, Panes
        <4>2. Message("attach", pane.gen + 1, pane.applied) \in Messages
          BY <1>1, <3>3, <4>1, BeginTyped
        <4>3. Message("attach", pane.gen + 1, pane.applied).kind # "credit"  BY DEF Message
        <4>4. pane'.inbox = {}  BY <3>3 DEF BeginAttach
        <4> QED  BY <1>1, <3>3, <4>2, <4>3, <4>4, CreditsKept DEF Inbox
      <3> HIDE DEF e
      <3> QED  BY <1>1, <1>2, <2>2, <3>1, <3>2, <3>3, HandleCases DEF e
    <2>5. \A m \in b, n \in a : m < n  BY <2>1 DEF InOrder
    <2>6. Numbers(out'.wire, g) = {}  BY <1>2 DEF Numbers
    <2>7. OnTheWay(out', g) = a /\ InOrder(out', g)
      BY <1>2, <2>1, <2>6 DEF OnTheWay, InOrder
    <2> DEFINE p == pc
               inbox2 == Inbox(session.gen)'
               credits2 == Credits(up', g)
    <2>8. PageOut(s, p, a \cup b, inbox, credits)  BY <2>1 DEF OnTheWay
    <2>9. inbox2 \subseteq inbox \cup b /\ credits2 \subseteq credits  BY <2>4
    <2> HIDE DEF s, p, a, b, inbox, credits, inbox2, credits2
    <2>10. PageOut(s, p, a, inbox2, credits2)
      BY <2>5, <2>8, <2>9, PageOutMoves
    <2>11. Inbox(g)' = inbox2  BY <1>2 DEF inbox2, Inbox
    <2> QED  BY <1>2, <2>7, <2>10, <2>11, PagedBy DEF s, p, a, inbox2, credits2
  <1> QED  BY <1>3, <1>4

LEMMA PagedConsume ==
    ASSUME Served, Stretched, Paged, Consume
    PROVE  Paged'
  <1>1. Typed /\ TypesNow  BY TypedNow DEF Served
  <1>2. UNCHANGED <<session, pc, out>> /\ pane.open  BY DEF Consume
  <1>3. PICK n \in pane.inbox : ConsumesAt(n)  BY DEF Consume, ConsumesAt
  <1>4. /\ pane'.gen = pane.gen /\ pane'.inbox = {m \in pane.inbox : m > n}
        /\ \/ up' = up
           \/ \E c \in Positions :
                /\ up' = Append(up, Message("credit", pane.gen, c))
                /\ Message("credit", pane.gen, c) \in Messages
                /\ c <= n
    BY <1>1, <1>2, <1>3, Consumed
  <1>5. CASE session.gen = 0  BY <1>2, <1>5, PagedVoid
  <1>6. CASE session.gen # 0
    <2> DEFINE g == session.gen
               s == session
               p == pc
               way == OnTheWay(out, g)
               inbox == Inbox(g)
               credits == Credits(up, g)
               credits2 == Credits(up', g)
    <2>1. /\ PageOut(s, p, way, inbox, credits) /\ InOrder(out, g) /\ s.pageEnd \in Nat
          /\ way \subseteq Nat /\ inbox \subseteq Nat
      BY <1>1, <1>6, PagedNow
    <2>2. CASE pane.gen # g
      <3>1. Inbox(session.gen)' \subseteq inbox  BY <1>2, <1>4, <2>2 DEF Inbox
      <3>2. credits2 \subseteq credits
        <4>1. \A c \in Positions : Message("credit", pane.gen, c).gen # g
          BY <2>2 DEF Message
        <4> QED  BY <1>1, <1>4, <4>1, CreditsKept
      <3> QED  BY <1>1, <1>2, <2>1, <3>1, <3>2, PagedLess
    <2>3. CASE pane.gen = g
      <3>1. inbox = pane.inbox /\ n \in inbox  BY <2>3 DEF Inbox
      <3>2. \E c \in Nat : c <= n /\ credits2 \subseteq credits \cup {c}
        <4>1. CASE up' = up
          <5>1. 0 <= n  BY <2>1, <3>1
          <5> QED  BY <4>1, <5>1
        <4>2. CASE up' # up
          <5>1. PICK c \in Positions : /\ up' = Append(up, Message("credit", pane.gen, c))
                                       /\ Message("credit", pane.gen, c) \in Messages
                                       /\ c <= n
            BY <1>4, <4>2
          <5>2. up \in Seq(Messages) /\ c \in Nat  BY <1>1 DEF TypesNow, Positions
          <5> DEFINE m == Message("credit", pane.gen, c)
          <5>3. m.seq = c  BY DEF Message
          <5> HIDE DEF m
          <5>4. Range(up') = Range(up) \cup {m}
            BY <5>1, <5>2, RangeOfAppended DEF m
          <5>5. credits2 \subseteq credits \cup {c}  BY <5>3, <5>4 DEF Credits
          <5> QED  BY <5>1, <5>2, <5>5
        <4> QED  BY <4>1, <4>2
      <3>3. PICK c \in Nat : c <= n /\ credits2 \subseteq credits \cup {c}  BY <3>2
      <3>4. Inbox(g)' = {m \in inbox : m > n} /\ Inbox(session.gen)' = Inbox(g)'
        BY <1>2, <1>4, <2>3, <3>1 DEF Inbox
      <3> DEFINE inbox2 == {m \in inbox : m > n}
      <3> HIDE DEF s, p, way, inbox, credits, credits2
      <3>5. PageOut(s, p, way, inbox2, credits2)
        <4>1. \A m \in inbox2 : m \in inbox /\ n < m  BY <2>1, <3>1
        <4>2. \A k \in credits2 : k \in credits \/ (k \in Nat /\ k <= n)  BY <3>3
        <4> HIDE DEF inbox2
        <4>3. n \in inbox  BY <3>1
        <4>4. /\ PageOut(s, p, way, inbox, credits) /\ s.pageEnd \in Nat
              /\ way \subseteq Nat /\ inbox \subseteq Nat
          BY <2>1
        <4> QED  BY <4>1, <4>2, <4>3, <4>4, PageOutReads
      <3>6. PageOut(session', pc', OnTheWay(out', g), Inbox(g)', Credits(up', g))
        BY <1>2, <3>4, <3>5 DEF s, p, way, credits2
      <3>7. session'.gen = g /\ InOrder(out', g)  BY <1>2, <2>1
      <3> HIDE DEF g
      <3> QED  BY <3>4, <3>6, <3>7, PagedBy
    <2> QED  BY <2>2, <2>3
  <1> QED  BY <1>5, <1>6

\* Any other step of the pane leaves it nothing of the session's page.
LEMMA PagedPane ==
    ASSUME Served, Stretched, Paged, SendControl \/ Reattach \/ Refresh \/ Leave
    PROVE  Paged'
  <1>1. Typed /\ TypesNow  BY TypedNow DEF Served
  <1>2. UNCHANGED <<session, pc, out>>  BY DEF SendControl, Reattach, Refresh, Leave
  <1>3. CASE session.gen = 0  BY <1>2, <1>3, PagedVoid
  <1>4. CASE session.gen # 0
    <2> DEFINE g == session.gen
    <2>1. InOrder(out, g)  BY <1>1, <1>4, PagedNow
    <2>2. pane.gen \in 0 .. MaxGens /\ pane.applied \in Positions /\ 0 \in Positions
      BY <1>1, EmptyTyped DEF TypesNow, Panes
    <2>3. Inbox(g)' \subseteq Inbox(g) /\ Credits(up', g) \subseteq Credits(up, g)
      <3>1. CASE SendControl
        <4>1. up' = up /\ pane'.gen = pane.gen /\ pane'.inbox = pane.inbox
          BY <1>1, <3>1 DEF SendControl, TypesNow, Panes
        <4> QED  BY <1>2, <4>1 DEF Inbox
      <3>2. CASE Reattach
        <4>1. PICK since \in {0, pane.applied} :
                 /\ pane' = BeginAttach(pane, since)
                 /\ up' = Append(up, Message("attach", pane.gen + 1, since))
          BY <3>2 DEF Reattach
        <4> DEFINE m == Message("attach", pane.gen + 1, since)
        <4>2. m \in Messages /\ m.kind # "credit"
          BY <1>1, <2>2, <3>2, <4>1, BeginTyped DEF Reattach, Message
        <4> HIDE DEF m
        <4>3. Credits(Append(up, m), g) \subseteq Credits(up, g)
          BY <1>1, <4>2, CreditsKept
        <4> QED  BY <4>1, <4>3 DEF m, Inbox, BeginAttach
      <3>3. CASE Leave
        <4>1. pane.gen # 0 /\ pane' = [NoPane EXCEPT !.gen = pane.gen]
              /\ up' = Append(up, Message("detach", pane.gen, 0))
          BY <1>1, <3>3 DEF Leave, TypesNow
        <4> DEFINE m == Message("detach", pane.gen, 0)
        <4>2. m \in Messages /\ m.kind # "credit"
          BY <2>2, <4>1 DEF Message, Messages, Gens
        <4> HIDE DEF m
        <4>3. Credits(Append(up, m), g) \subseteq Credits(up, g)
          BY <1>1, <4>2, CreditsKept
        <4>4. pane'.inbox = {}  BY <4>1 DEF NoPane
        <4> QED  BY <4>1, <4>3, <4>4 DEF m, Inbox
      <3>4. CASE Refresh
        <4> DEFINE d == Message("detach", pane.gen, 0)
                   m == Message("attach", pane.gen + 1, 0)
        <4>1. up' = up \o <<d, m>> /\ pane' = BeginAttach(pane, 0) /\ pane.gen # 0
          BY <1>1, <3>4 DEF Refresh, TypesNow
        <4>2. d \in Messages /\ m \in Messages /\ d.kind # "credit" /\ m.kind # "credit"
          <5>1. d \in Messages  BY <2>2, <4>1 DEF Message, Messages, Gens
          <5>2. m \in Messages  BY <1>1, <2>2, <3>4, BeginTyped DEF Refresh
          <5> QED  BY <5>1, <5>2 DEF Message
        <4> HIDE DEF d, m
        <4>3. up \in Seq(Messages) /\ <<d, m>> \in Seq(Messages)
          BY <1>1, <4>2 DEF TypesNow
        <4>4. Range(up') = Range(up) \cup Range(<<d, m>>)
          BY <4>1, <4>3, RangeOfJoined
        <4>5. Range(<<d, m>>) = {d, m}  BY DEF Range
        <4>6. Credits(up', g) \subseteq Credits(up, g)
          BY <4>2, <4>4, <4>5 DEF Credits
        <4> QED  BY <4>1, <4>6 DEF Inbox, BeginAttach
      <3> QED  BY <3>1, <3>2, <3>3, <3>4
    <2>4. Inbox(session.gen)' = Inbox(g)'  OBVIOUS
    <2> QED  BY <1>1, <1>2, <2>1, <2>3, <2>4, PagedLess
  <1> QED  BY <1>3, <1>4

LEMMA PagedStep ==
    ASSUME Served, Stretched, Paged, [Next]_vars
    PROVE  Paged'
  <1>1. Typed  BY DEF Served
  <1>2. CASE Dispatch
    BY <1>2, PagedAttachRunning, PagedDetached, PagedStart, PagedCredit, PagedDrive,
       PagedSettles, PagedGuards DEF Dispatch
  <1>3. CASE Pump
    BY <1>3, PagedPane, PagedLease, PagedSendDone DEF Pump
  <1>4. CASE UNCHANGED vars
    <2>1. UNCHANGED <<out, up, pane, session, pc>>  BY <1>4 DEF vars
    <2> QED  BY <1>1, <2>1, PagedStays
  <1> QED
    BY <1>2, <1>3, <1>4, PagedTerminal, PagedSettles, PagedDrain, PagedConsume, PagedPane
    DEF Next

LEMMA PagedInit == Init => Paged
  BY DEF Init, Paged, NoSession

LEMMA OneToOne ==
    ASSUME NEW S, NEW T, IsFiniteSet(T), NEW f, \A x \in S : f[x] \in T,
           \A x, y \in S : f[x] = f[y] => x = y
    PROVE  IsFiniteSet(S) /\ Cardinality(S) <= Cardinality(T)
  <1> DEFINE g == [x \in S |-> f[x]]
  <1>1. g \in [S -> T]  OBVIOUS
  <1>2. \A x, y \in S : g[x] = g[y] => x = y  OBVIOUS
  <1> HIDE DEF g
  <1> QED  BY <1>1, <1>2, NoMoreThan

\* A frame is known by its attachment and its number.
LEMMA FramesNumbered ==
    ASSUME Typed, NEW g
    PROVE  LET F == {e \in InPipe(g) : e.kind = "frame"}
           IN  /\ \A e \in F : e.to \in OnTheWay(out, g)
               /\ \A d, e \in F : d.to = e.to => d = e
  <1> DEFINE F == {e \in InPipe(g) : e.kind = "frame"}
  <1>1. /\ out \in Queues(head) /\ IsOverflow(out.spill)
        /\ \A e \in Contents(out) : e \in ItemsTo(head)
    BY OutTyped, QueueTyped DEF OutputTyped
  <1>2. ASSUME NEW e \in F PROVE e \in ItemsTo(head) /\ e.gen = g /\ e.kind = "frame"
    BY <1>1 DEF InPipe, Contents
  <1>3. ASSUME NEW e \in F PROVE e.to \in OnTheWay(out, g)
    <2>1. e \notin Range(out.spill)  BY <1>1, <1>2 DEF IsOverflow, Range
    <2>2. e \in Range(out.lane) \/ e \in Range(out.wire)  BY <2>1 DEF InPipe
    <2> QED  BY <1>2, <2>2 DEF OnTheWay, Numbers, FrameOf
  <1>4. ASSUME NEW d \in F, NEW e \in F, d.to = e.to PROVE d = e
    <2>1. d \in ItemsTo(head) /\ e \in ItemsTo(head)  BY <1>2
    <2>2. d.kind = e.kind /\ d.gen = e.gen /\ d.from = d.to /\ e.from = e.to
      BY <1>2, <2>1 DEF ItemsTo
    <2>3. d.from = e.from  BY <1>4, <2>2
    <2>4. /\ d = [kind |-> d.kind, gen |-> d.gen, from |-> d.from, to |-> d.to]
          /\ e = [kind |-> e.kind, gen |-> e.gen, from |-> e.from, to |-> e.to]
      BY <2>1 DEF ItemsTo
    <2> QED  BY <1>4, <2>2, <2>3, <2>4
  <1> QED  BY <1>3, <1>4

LEMMA PageBounds ==
    ASSUME Typed, Stretched, Paged
    PROVE  ReplayBounded
  <1> SUFFICES ASSUME session.gen # 0
               PROVE  Cardinality({e \in InPipe(session.gen) : e.kind = "frame"})
                        + (IF pane.gen = session.gen THEN Cardinality(pane.inbox) ELSE 0)
                      <= PageFrames
    BY DEF ReplayBounded
  <1> DEFINE g == session.gen
             F == {e \in InPipe(g) : e.kind = "frame"}
             way == OnTheWay(out, g)
             inbox == Inbox(g)
             last == session.pageEnd
             page == (last - PageFrames + 1) .. last
             credits == Credits(up, g)
  <1>1. /\ PageOut(session, pc, way, inbox, credits) /\ last \in Nat
        /\ way \subseteq Nat /\ inbox \subseteq Nat
    BY PagedNow
  <1>2. PageFrames \in Nat  BY WatermarkBound
  <1>3. way \cup inbox \in SUBSET page /\ way \cap inbox = {}
    <2>1. /\ \A n \in way \cup inbox : n <= session.pageEnd /\ session.pageEnd - PageFrames < n
          /\ \A n \in inbox : \A k \in way : n < k
      <3> HIDE DEF way, inbox, credits
      <3> QED  BY <1>1 DEF PageOut
    <2>2. \A n \in way \cup inbox : n \in page  BY <1>1, <1>2, <2>1
    <2>3. \A n \in inbox : n \notin way  BY <1>1, <2>1
    <2> HIDE DEF way, inbox, page
    <2> QED  BY <2>2, <2>3
  <1>4. IsFiniteSet(page) /\ Cardinality(page) = PageFrames
    <2> DEFINE a == last - PageFrames + 1
    <2>1. a \in Int /\ last \in Int /\ last - a + 1 = PageFrames /\ (a > last => PageFrames = 0)
      BY <1>1, <1>2
    <2> HIDE DEF a, last
    <2>2. IsFiniteSet(a .. last)
          /\ Cardinality(a .. last) = IF a > last THEN 0 ELSE last - a + 1
      BY <2>1, FS_Interval
    <2> QED  BY <2>1, <2>2 DEF a
  <1> HIDE DEF page
  <1>5. /\ IsFiniteSet(way \cup inbox) /\ Cardinality(way \cup inbox) <= PageFrames
    BY <1>3, <1>4, FS_Subset
  <1>6. IsFiniteSet(way) /\ IsFiniteSet(inbox)
    <2>1. way \in SUBSET (way \cup inbox) /\ inbox \in SUBSET (way \cup inbox)  OBVIOUS
    <2> HIDE DEF way, inbox
    <2> QED  BY <1>5, <2>1, FS_Subset
  <1>7. \A e \in F : e.to \in way
    BY FramesNumbered
  <1>8. \A d, e \in F : d.to = e.to => d = e
    BY FramesNumbered
  <1> HIDE DEF F, way, inbox
  <1>9. IsFiniteSet(F) /\ Cardinality(F) <= Cardinality(way)
    <2> DEFINE f == [e \in F |-> e.to]
    <2>1. \A e \in F : f[e] \in way  BY <1>7
    <2>2. \A d, e \in F : f[d] = f[e] => d = e  BY <1>8
    <2> HIDE DEF f
    <2> QED  BY <1>6, <2>1, <2>2, OneToOne
  <1>10. Cardinality(way \cup inbox) = Cardinality(way) + Cardinality(inbox)
    <2>1. Cardinality(way \cup inbox)
            = Cardinality(way) + Cardinality(inbox) - Cardinality(way \cap inbox)
      BY <1>6, FS_Union
    <2>2. Cardinality(way \cap inbox) = 0
      <3>1. Cardinality({}) = 0  BY FS_EmptySet
      <3> QED  BY <1>3, <3>1
    <2>3. Cardinality(way) \in Nat /\ Cardinality(inbox) \in Nat
      BY <1>6, FS_CardinalityType
    <2> QED  BY <2>1, <2>2, <2>3
  <1>11. /\ Cardinality(F) \in Nat /\ Cardinality(way) \in Nat /\ Cardinality(inbox) \in Nat
         /\ Cardinality(way \cup inbox) \in Nat
    BY <1>5, <1>6, <1>9, FS_CardinalityType
  <1>12. Cardinality(F) + Cardinality(inbox) <= PageFrames
    BY <1>2, <1>5, <1>9, <1>10, <1>11
  <1>13. Cardinality(inbox) = IF pane.gen = session.gen THEN Cardinality(pane.inbox) ELSE 0
    <2>1. CASE pane.gen = session.gen  BY <2>1 DEF inbox, Inbox
    <2>2. CASE pane.gen # session.gen
      <3>1. inbox = {}  BY <2>2 DEF inbox, Inbox
      <3>2. Cardinality({}) = 0  BY FS_EmptySet
      <3> QED  BY <2>2, <3>1, <3>2
    <2> QED  BY <2>1, <2>2
  <1> QED  BY <1>12, <1>13 DEF F

LEMMA AlwaysInOrder == Spec => []DeliveryInv
  <1>1. Init => DeliveryInv
    BY ServedInit, StretchedInit, PagedInit, RoomInit DEF DeliveryInv, Served
  <1>2. DeliveryInv /\ [Next]_vars => DeliveryInv'
    BY ServedStep, StretchedStep, PagedStep, RoomStep DEF DeliveryInv, Served
  <1> QED  BY <1>1, <1>2, PTL DEF Spec

(* validate_credit grants the next page only for the end of the last one   *)
(* (paced_replay.rs), so what a pane of a session has not applied, queued, *)
(* on the wire or in its inbox, is never more than one page.               *)
THEOREM OnePageIsOut == Spec => []ReplayBounded
  <1>1. DeliveryInv => ReplayBounded  BY PageBounds DEF DeliveryInv
  <1> QED  BY <1>1, AlwaysInOrder, PTL

=============================================================================
