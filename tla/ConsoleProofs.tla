---------------------------- MODULE ConsoleProofs ----------------------------
(***************************************************************************)
(* The ring buffer of Console implements LogTail for every size, only      *)
(* commands send on a closed queue, and no page misses a line or gets one  *)
(* three times, for any number of connections, lines and commands.  No run *)
(* of a process has two readers, and the lines of a run reach the master   *)
(* in order, once, and all of them if nothing was cut, for any number of   *)
(* forwarders, runs, lines and failures and channels of any capacity.      *)
(***************************************************************************)
EXTENDS Console, LogForwarder, SequenceTheorems, FiniteSetTheorems, NaturalsInduction,
        WellFoundedInduction, TLAPS

-----------------------------------------------------------------------------
(* Occurrences in a sequence.                                              *)

Places(s, l) == {k \in DOMAIN s : s[k] = l}
Occ(s, l) == Cardinality(Places(s, l))

LEMMA PlacesFinite ==
    ASSUME NEW s \in Seq(Int), NEW l
    PROVE  IsFiniteSet(Places(s, l)) /\ Occ(s, l) \in Nat
<1>1. Places(s, l) \in SUBSET (1 .. Len(s)) /\ Len(s) \in Int
  BY DEF Places
<1>2. IsFiniteSet(1 .. Len(s))
  BY <1>1, FS_Interval
<1>3. IsFiniteSet(Places(s, l))
  BY <1>1, <1>2, FS_Subset
<1> QED
  BY <1>3, FS_CardinalityType DEF Occ

LEMMA OccAppend ==
    ASSUME NEW s \in Seq(Int), NEW x \in Int, NEW l
    PROVE  Occ(Append(s, x), l) = Occ(s, l) + (IF x = l THEN 1 ELSE 0)
<1> DEFINE n == Len(s) + 1
<1>1. /\ DOMAIN s = 1 .. Len(s) /\ DOMAIN Append(s, x) = 1 .. n /\ Len(s) \in Nat
      /\ \A k \in 1 .. Len(s) : Append(s, x)[k] = s[k]
      /\ Append(s, x)[n] = x
  OBVIOUS
<1>2. CASE x = l
  <2>1. Places(Append(s, x), l) = Places(s, l) \cup {n}
    BY <1>1, <1>2 DEF Places
  <2>2. n \notin Places(s, l)
    BY <1>1 DEF Places
  <2> QED
    BY <1>2, <2>1, <2>2, PlacesFinite, FS_AddElement DEF Occ
<1>3. CASE x # l
  <2>1. Places(Append(s, x), l) = Places(s, l)
    BY <1>1, <1>3 DEF Places
  <2> QED
    BY <1>3, <2>1, PlacesFinite DEF Occ
<1> QED
  BY <1>2, <1>3

LEMMA OccOther ==
    ASSUME NEW s \in Seq(Int), NEW x \in Int, NEW l, x # l
    PROVE  Occ(Append(s, x), l) = Occ(s, l)
<1>1. Occ(Append(s, x), l) = Occ(s, l) + 0
  BY OccAppend
<1>2. Occ(s, l) \in Nat
  BY PlacesFinite
<1> QED
  BY <1>1, <1>2

LEMMA OccTail ==
    ASSUME NEW s \in Seq(Int), s # <<>>, NEW l
    PROVE  Occ(s, l) = Occ(Tail(s), l) + (IF Head(s) = l THEN 1 ELSE 0)
<1> DEFINE P == Places(s, l)
           Q == Places(Tail(s), l)
           R == P \ {1}
<1>1. /\ DOMAIN s = 1 .. Len(s) /\ Len(s) \in Nat /\ Len(s) >= 1
      /\ Tail(s) \in Seq(Int) /\ DOMAIN Tail(s) = 1 .. Len(s) - 1
      /\ \A k \in 1 .. Len(s) - 1 : Tail(s)[k] = s[k + 1]
      /\ Head(s) = s[1]
  OBVIOUS
<1>2. Cardinality(R) = Cardinality(Q)
  <2> DEFINE f == [k \in Q |-> k + 1]
  <2>1. \A k : k \in Q <=> k \in 1 .. Len(s) - 1 /\ s[k + 1] = l
    <3>1. Q = {k \in 1 .. Len(s) - 1 : Tail(s)[k] = l}
      BY <1>1, Zenon DEF Places
    <3> QED
      BY <1>1, <3>1
  <2>2. \A k : k \in R <=> k \in 2 .. Len(s) /\ s[k] = l
    BY <1>1 DEF Places
  <2> HIDE DEF Q, R
  <2>3. f \in Injection(Q, R)
    <3>1. \A k \in Q : k \in Int /\ k + 1 \in R
      BY <1>1, <2>1, <2>2
    <3>2. f \in [Q -> R]
      BY <3>1
    <3>3. \A a, b \in Q : f[a] = f[b] => a = b
      BY <3>1
    <3> QED
      BY <3>2, <3>3 DEF Injection, IsInjective
  <2>4. ASSUME NEW k \in R PROVE \E j \in Q : f[j] = k
    <3>1. k - 1 \in Q /\ k - 1 + 1 = k
      BY <2>1, <2>2, SMTT(30)
    <3> QED
      BY <3>1
  <2>5. f \in Bijection(Q, R)
    BY <2>3, <2>4 DEF Bijection, Surjection, Injection
  <2>6. ExistsBijection(Q, R)
    BY <2>5 DEF ExistsBijection
  <2>7. IsFiniteSet(Q)
    BY <1>1, PlacesFinite DEF Q
  <2> QED
    BY <2>6, <2>7, FS_Bijection
<1>3. 1 \in P <=> Head(s) = l
  BY <1>1 DEF Places
<1>4. Cardinality(R) = IF Head(s) = l THEN Cardinality(P) - 1 ELSE Cardinality(P)
  BY <1>3, PlacesFinite, FS_RemoveElement
<1>5. Cardinality(P) \in Nat /\ Cardinality(Q) \in Nat
  BY <1>1, PlacesFinite DEF Occ
<1> HIDE DEF P, Q, R
<1>6. Cardinality(P) = Cardinality(Q) + (IF Head(s) = l THEN 1 ELSE 0)
  BY <1>2, <1>4, <1>5
<1> QED
  BY <1>6 DEF Occ, P, Q

LEMMA SetAppend ==
    ASSUME NEW s \in Seq(Int), NEW x \in Int
    PROVE  ToSet(Append(s, x)) = ToSet(s) \cup {x}
  BY DEF ToSet

LEMMA SetTail ==
    ASSUME NEW s \in Seq(Int), s # <<>>
    PROVE  ToSet(s) = ToSet(Tail(s)) \cup {Head(s)}
<1>1. /\ DOMAIN s = 1 .. Len(s) /\ Len(s) \in Nat /\ Len(s) >= 1
      /\ Tail(s) \in Seq(Int) /\ DOMAIN Tail(s) = 1 .. Len(s) - 1
      /\ \A k \in 1 .. Len(s) - 1 : Tail(s)[k] = s[k + 1]
      /\ Head(s) = s[1]
  OBVIOUS
<1>2. \A k \in 1 .. Len(s) - 1 : k + 1 \in 1 .. Len(s)
  BY <1>1
<1>3. \A k \in 1 .. Len(s) : k = 1 \/ (k - 1 \in 1 .. Len(s) - 1 /\ k - 1 + 1 = k)
  BY <1>1
<1>4. ToSet(s) = {s[k] : k \in 1 .. Len(s)} /\ ToSet(Tail(s)) = {s[k + 1] : k \in 1 .. Len(s) - 1}
  <2>1. ToSet(s) = {s[k] : k \in 1 .. Len(s)} /\ ToSet(Tail(s)) = {Tail(s)[k] : k \in 1 .. Len(s) - 1}
    BY <1>1, Zenon DEF ToSet
  <2> QED
    BY <1>1, <2>1
<1>5. ASSUME NEW x \in ToSet(s) PROVE x \in ToSet(Tail(s)) \cup {Head(s)}
  <2>1. PICK k \in 1 .. Len(s) : x = s[k]
    BY <1>4
  <2>2. k = 1 \/ x = s[k - 1 + 1]
    BY <1>3, <2>1
  <2> QED
    BY <1>1, <1>3, <1>4, <2>1, <2>2
<1>6. ASSUME NEW x \in ToSet(Tail(s)) \cup {Head(s)} PROVE x \in ToSet(s)
  <2>1. CASE x = Head(s)
    BY <1>1, <1>4, <2>1
  <2>2. CASE x \in ToSet(Tail(s))
    BY <1>2, <1>4, <2>2
  <2> QED
    BY <2>1, <2>2
<1> QED
  BY <1>5, <1>6

-----------------------------------------------------------------------------
(* The ring buffer.                                                        *)

USE RingAssumption, LinesAssumption DEF Slots

Ring == [lines : [Slots -> Int], pos : Slots, full : BOOLEAN]

Count(rb) == IF rb.full THEN RingSize ELSE rb.pos

\* The slot of the i-th line of the history.
Slot(rb, i) ==
    IF ~rb.full THEN i - 1
    ELSE IF rb.pos + i - 1 < RingSize THEN rb.pos + i - 1 ELSE rb.pos + i - 1 - RingSize

\* Lines lists the slots from the oldest one on.
LEMMA LinesAt ==
    ASSUME NEW rb \in Ring
    PROVE  /\ Lines(rb) \in Seq(Int)
           /\ Len(Lines(rb)) = Count(rb)
           /\ \A i \in 1 .. Count(rb) : Lines(rb)[i] = rb.lines[Slot(rb, i)]
<1> DEFINE part(a, b) == [k \in 1 .. b - a |-> rb.lines[a + k - 1]]
<1> USE DEF Ring
<1>1. ASSUME NEW a \in 0 .. RingSize, NEW b \in 0 .. RingSize, a <= b
      PROVE  part(a, b) \in Seq(Int) /\ Len(part(a, b)) = b - a
  <2>1. \A k \in 1 .. b - a : rb.lines[a + k - 1] \in Int
    BY <1>1
  <2>2. b - a \in Nat
    BY <1>1
  <2>3. part(a, b) \in [1 .. b - a -> Int]
    BY <2>1
  <2>4. part(a, b) \in Seq(Int)
    BY <2>2, <2>3, SeqDef
  <2> QED
    BY <2>2, <2>3, <2>4, LenProperties
<1>2. CASE rb.full
  <2> DEFINE s == part(rb.pos, RingSize)
             t == part(0, rb.pos)
  <2>1. s \in Seq(Int) /\ Len(s) = RingSize - rb.pos /\ t \in Seq(Int) /\ Len(t) = rb.pos
    <3>1. rb.pos \in 0 .. RingSize /\ RingSize \in 0 .. RingSize /\ 0 \in 0 .. RingSize
          /\ rb.pos - 0 = rb.pos /\ 0 <= rb.pos /\ rb.pos <= RingSize
      OBVIOUS
    <3> HIDE DEF part
    <3> QED
      BY <1>1, <3>1
  <2>2. Lines(rb) = s \o t
    BY <1>2 DEF Lines
  <2>3. /\ s \o t \in Seq(Int)
        /\ Len(s \o t) = RingSize
        /\ \A i \in 1 .. RingSize :
              (s \o t)[i] = IF i <= RingSize - rb.pos THEN s[i] ELSE t[i - (RingSize - rb.pos)]
    <3> HIDE DEF s, t
    <3>1. rb.pos \in 0 .. RingSize - 1
      OBVIOUS
    <3>2. Len(s) + Len(t) = RingSize
      BY <2>1, <3>1
    <3>3. /\ s \o t \in Seq(Int)
          /\ Len(s \o t) = Len(s) + Len(t)
          /\ \A i \in 1 .. Len(s) + Len(t) :
                (s \o t)[i] = IF i <= Len(s) THEN s[i] ELSE t[i - Len(s)]
      <4>1. s \in Seq(Int) /\ t \in Seq(Int)
        BY <2>1
      <4>2. s \o t \in Seq(Int)
        BY <4>1
      <4>3. Len(s \o t) = Len(s) + Len(t)
        BY <4>1
      <4>4. \A i \in 1 .. Len(s) + Len(t) :
                (s \o t)[i] = IF i <= Len(s) THEN s[i] ELSE t[i - Len(s)]
        BY <4>1, ConcatProperties
      <4> QED
        BY <4>2, <4>3, <4>4
    <3>4. Len(s \o t) = RingSize /\ Len(s) = RingSize - rb.pos
      BY <2>1, <3>2, <3>3
    <3>5. \A i \in 1 .. RingSize :
             (s \o t)[i] = IF i <= RingSize - rb.pos THEN s[i] ELSE t[i - (RingSize - rb.pos)]
      BY <3>2, <3>3, <3>4
    <3> QED
      BY <3>3, <3>4, <3>5
  <2>4. ASSUME NEW i \in 1 .. RingSize PROVE (s \o t)[i] = rb.lines[Slot(rb, i)]
    <3>1. CASE i <= RingSize - rb.pos
      <4>1. s[i] = rb.lines[rb.pos + i - 1]
        BY <3>1
      <4> HIDE DEF s, t
      <4> QED
        BY <2>3, <3>1, <4>1, <1>2, SMTT(30) DEF Slot
    <3>2. CASE i > RingSize - rb.pos
      <4>1. t[i - (RingSize - rb.pos)] = rb.lines[i - (RingSize - rb.pos) - 1]
        BY <3>2, SMTT(30)
      <4>2. Slot(rb, i) = i - (RingSize - rb.pos) - 1
        BY <3>2, <1>2 DEF Slot
      <4> HIDE DEF s, t
      <4>3. ~(i <= RingSize - rb.pos)
        BY <3>2
      <4> QED
        BY <2>3, <4>1, <4>2, <4>3
    <3>3. i <= RingSize - rb.pos \/ i > RingSize - rb.pos
      OBVIOUS
    <3> HIDE DEF s, t
    <3> QED
      BY <3>1, <3>2, <3>3
  <2> HIDE DEF s, t
  <2> QED
    BY <1>2, <2>2, <2>3, <2>4 DEF Count
<1>3. CASE ~rb.full
  <2>1. Lines(rb) = part(0, rb.pos)
    BY <1>3 DEF Lines
  <2>2. part(0, rb.pos) \in Seq(Int) /\ Len(part(0, rb.pos)) = rb.pos
    BY <1>1
  <2>3. \A i \in 1 .. rb.pos : part(0, rb.pos)[i] = rb.lines[i - 1]
    OBVIOUS
  <2> HIDE DEF part
  <2> QED
    BY <1>3, <2>1, <2>2, <2>3 DEF Count, Slot
<1> QED
  BY <1>2, <1>3

\* Adding a line to the buffer appends it to the history and drops the oldest
\* line when there is no room: whether the position has just come round, the
\* buffer becomes full with this line or it has been full for long.
LEMMA AddIsLatest ==
    ASSUME NEW rb \in Ring, NEW x \in Int
    PROVE  /\ Add(rb, x) \in Ring
           /\ Lines(Add(rb, x)) = Abstract!Latest(Append(Lines(rb), x))
<1> DEFINE ra == Add(rb, x)
           s == Lines(rb)
           t == Append(s, x)
           u == Abstract!Latest(t)
<1>1. ra \in Ring
  BY DEF Add, Ring
<1>2. /\ ra.lines = [rb.lines EXCEPT ![rb.pos] = x]
      /\ ra.pos = IF rb.pos + 1 >= RingSize THEN 0 ELSE rb.pos + 1
      /\ ra.full <=> rb.full \/ rb.pos + 1 >= RingSize
  BY DEF Add
<1>3. /\ s \in Seq(Int) /\ Len(s) = Count(rb)
      /\ \A i \in 1 .. Count(rb) : s[i] = rb.lines[Slot(rb, i)]
  BY LinesAt
<1>4. /\ Lines(ra) \in Seq(Int) /\ Len(Lines(ra)) = Count(ra)
      /\ \A i \in 1 .. Count(ra) : Lines(ra)[i] = ra.lines[Slot(ra, i)]
  BY <1>1, LinesAt
<1>5. Count(rb) \in 0 .. RingSize
  BY DEF Ring, Count
<1> HIDE DEF ra, s
<1>6. /\ t \in Seq(Int) /\ Len(t) = Count(rb) + 1
      /\ \A i \in 1 .. Count(rb) : t[i] = s[i]
      /\ t[Count(rb) + 1] = x
  BY <1>3, <1>5, AppendProperties
<1> HIDE DEF t
<1> DEFINE n == Count(rb)
<1>7. ASSUME rb.full PROVE Lines(ra) = u
  <2>1. n = RingSize /\ Count(ra) = RingSize
    BY <1>2, <1>7 DEF Count
  <2>2. u = SubSeq(t, 2, RingSize + 1)
    BY <1>6, <2>1 DEF Abstract!Latest
  <2>3. \A i \in 2 .. RingSize + 1 : t[i] \in Int
    BY <1>6, <2>1, LenProperties
  <2>4. /\ u \in Seq(Int) /\ Len(u) = RingSize
        /\ \A i \in 1 .. RingSize : u[i] = t[2 + i - 1]
    <3> HIDE DEF u
    <3>1. /\ u \in Seq(Int) /\ Len(u) = IF 2 <= RingSize + 1 THEN RingSize + 1 - 2 + 1 ELSE 0
          /\ \A i \in 1 .. RingSize + 1 - 2 + 1 : u[i] = t[2 + i - 1]
      BY <2>2, <2>3, SubSeqProperties
    <3> QED
      BY <3>1
  <2> HIDE DEF u
  <2>5. ASSUME NEW i \in 1 .. RingSize PROVE Lines(ra)[i] = u[i]
    <3>1. Lines(ra)[i] = ra.lines[Slot(ra, i)]
      BY <1>4, <2>1
    <3>2. CASE i = RingSize
      <4>1. Slot(ra, i) = rb.pos
        BY <1>2, <1>7, <3>2, SMTT(30) DEF Slot, Ring
      <4>2. u[i] = x
        BY <1>6, <2>1, <2>4, <3>2
      <4> QED
        BY <1>2, <3>1, <4>1, <4>2 DEF Ring
    <3>3. CASE i # RingSize
      <4>1. /\ Slot(ra, i) = Slot(rb, i + 1) /\ Slot(ra, i) # rb.pos
            /\ Slot(ra, i) \in Slots
        <5>1. /\ Slot(rb, i + 1) = IF rb.pos + i < RingSize THEN rb.pos + i
                                   ELSE rb.pos + i - RingSize
              /\ Slot(ra, i) = IF ra.pos + i - 1 < RingSize THEN ra.pos + i - 1
                               ELSE ra.pos + i - 1 - RingSize
          BY <1>1, <1>2, <1>7 DEF Slot, Ring
        <5>2. rb.pos \in Slots /\ i \in 1 .. RingSize - 1
          BY <3>3 DEF Ring
        <5>3. CASE rb.pos + 1 >= RingSize
          BY <1>2, <5>1, <5>2, <5>3
        <5>4. CASE ~(rb.pos + 1 >= RingSize)
          BY <1>2, <5>1, <5>2, <5>4
        <5> QED
          BY <5>3, <5>4
      <4>2. u[i] = t[i + 1] /\ i + 1 \in 1 .. n
        BY <2>1, <2>4, <3>3
      <4>3. u[i] = rb.lines[Slot(rb, i + 1)]
        BY <1>3, <1>6, <4>2
      <4> QED
        BY <1>2, <3>1, <4>1, <4>3 DEF Ring
    <3> QED
      BY <3>2, <3>3
  <2> QED
    BY <1>4, <2>1, <2>4, <2>5, SeqEqual
<1>8. ASSUME ~rb.full PROVE Lines(ra) = u
  <2>1. n = rb.pos /\ Count(ra) = n + 1 /\ n \in 0 .. RingSize - 1
    BY <1>2, <1>8 DEF Count, Ring
  <2>2. u = t
    BY <1>6, <2>1 DEF Abstract!Latest
  <2> HIDE DEF u
  <2>3. ASSUME NEW i \in 1 .. n + 1 PROVE Lines(ra)[i] = t[i]
    <3>1. Lines(ra)[i] = ra.lines[Slot(ra, i)]
      BY <1>4, <2>1
    <3>2. Slot(ra, i) = i - 1
      BY <1>2, <1>8, <2>1 DEF Slot, Ring
    <3>3. CASE i = n + 1
      BY <1>2, <1>6, <2>1, <3>1, <3>2, <3>3 DEF Ring
    <3>4. CASE i # n + 1
      <4>1. i \in 1 .. n /\ Slot(rb, i) = i - 1 /\ i - 1 # rb.pos /\ i - 1 \in Slots
        BY <1>8, <2>1, <3>4 DEF Slot
      <4> QED
        BY <1>2, <1>3, <1>6, <3>1, <3>2, <4>1, SMTT(30) DEF Ring
    <3> QED
      BY <3>3, <3>4
  <2> QED
    BY <1>4, <1>6, <2>1, <2>2, <2>3, SeqEqual
<1>9. Lines(ra) = u
  BY <1>7, <1>8
<1> QED
  BY <1>1, <1>9 DEF ra, u, t, s
-----------------------------------------------------------------------------
(* Types.                                                                  *)

Histories == {h \in Seq(Int) : Len(h) <= RingSize}

Conn == [step : 0 .. 5, open : BOOLEAN, closed : BOOLEAN, pumping : BOOLEAN,
         alias : BOOLEAN, history : Histories, k : Nat,
         at : Nat, taken : SUBSET Nat, lossy : BOOLEAN]

TypeInv ==
    /\ ring \in Ring /\ lines \in Nat /\ adding \subseteq 1 .. lines
    /\ logBroadcast \in Seq(Int) /\ broadcast \in Seq(Int)
    /\ clients \subseteq Clients
    /\ conn \in [Clients -> Conn]
    /\ send \in [Clients -> Seq(Int)] /\ shown \in [Clients -> Seq(Int)]
    /\ panic \in {"nobody", "hub", "command"}

\* Where a handler is, as a number.
LEMMA StepOf ==
    ASSUME TypeInv, NEW c \in Clients
    PROVE  /\ At(c, "register") <=> conn[c].step = 1
           /\ At(c, "history") <=> conn[c].step = 2
           /\ At(c, "read") <=> conn[c].step = 3
           /\ At(c, "unregister") <=> conn[c].step = 4
           /\ At(c, "done") <=> conn[c].step = 5
<1>1. conn[c].step \in 0 .. 5
  BY DEF TypeInv, Conn
<1> QED
  BY <1>1 DEF At, handleWSLogs

LEMMA EmptyHistory == <<>> \in Histories
  BY DEF Histories

LEMMA LinesAre == ring \in Ring => Lines(ring) \in Histories
  BY LinesAt DEF Histories, Count, Ring

\* The changes the steps make to a connection.
LEMMA ConnStep ==
    ASSUME NEW r \in Conn, NEW n \in 0 .. 5, NEW a \in BOOLEAN
    PROVE  /\ [r EXCEPT !.step = n] \in Conn
           /\ [r EXCEPT !.step = n, !.pumping = a] \in Conn
           /\ [r EXCEPT !.step = n, !.closed = a] \in Conn
           /\ [r EXCEPT !.step = n, !.open = a] \in Conn
  BY DEF Conn

LEMMA ConnFlag ==
    ASSUME NEW r \in Conn, NEW a \in BOOLEAN
    PROVE  /\ [r EXCEPT !.open = a] \in Conn
           /\ [r EXCEPT !.pumping = a] \in Conn
           /\ [r EXCEPT !.lossy = a] \in Conn
  BY DEF Conn

LEMMA ConnHistory ==
    ASSUME NEW r \in Conn, NEW a \in BOOLEAN, NEW h \in Histories, NEW k \in Nat, NEW m \in Nat
    PROVE  [r EXCEPT !.alias = a, !.history = h, !.k = k, !.at = m] \in Conn
  BY DEF Conn

LEMMA ConnTaken ==
    ASSUME NEW r \in Conn, NEW k \in Nat, NEW T \in SUBSET Nat, NEW a \in BOOLEAN
    PROVE  [r EXCEPT !.k = k, !.taken = T, !.lossy = a] \in Conn
  BY DEF Conn

LEMMA ConnSent ==
    ASSUME NEW r \in Conn, NEW n \in 0 .. 5, NEW a \in BOOLEAN, NEW h \in Histories
    PROVE  [r EXCEPT !.step = n, !.alias = a, !.history = h] \in Conn
  BY DEF Conn

LEMMA LossyConn ==
    ASSUME TypeInv, NEW C PROVE Lossy(C) \in [Clients -> Conn]
<1>1. ASSUME NEW c \in Clients PROVE [conn[c] EXCEPT !.lossy = TRUE] \in Conn
  <2>1. conn[c] \in Conn
    BY DEF TypeInv
  <2> QED
    BY <2>1 DEF Conn
<1> QED
  BY <1>1 DEF TypeInv, Lossy

LEMMA ReadsInt ==
    ASSUME TypeInv, NEW c \in Clients, conn[c].k \in DOMAIN conn[c].history
    PROVE  Reads(c, conn[c].k) \subseteq Int
<1>1. /\ conn[c].history \in Seq(Int) /\ Len(conn[c].history) <= RingSize
      /\ conn[c].k \in Nat
  BY DEF TypeInv, Conn, Histories
<1>2. conn[c].k - 1 \in Slots /\ conn[c].history[conn[c].k] \in Int
  BY <1>1
<1>3. ring.lines[conn[c].k - 1] \in Int
  BY <1>2 DEF TypeInv, Ring
<1> QED
  BY <1>2, <1>3 DEF Reads, Torn

\* Every step keeps the types.
LEMMA TypeStep ==
    ASSUME TypeInv, [Next]_vars PROVE TypeInv'
<1> USE DEF TypeInv, source, hub, pages
<1>1. ASSUME StoreLine PROVE TypeInv'
  <2>1. lines + 1 \in Int
    OBVIOUS
  <2>2. ring' \in Ring
    BY <1>1, <2>1, AddIsLatest DEF StoreLine
  <2> QED
    BY <1>1, <2>2 DEF StoreLine
<1>2. ASSUME Broadcast PROVE TypeInv'
  BY <1>2 DEF Broadcast
<1>3. ASSUME Distribute PROVE TypeInv'
  <2>1. \A c \in Clients : Append(send[c], Head(broadcast)) \in Seq(Int)
    BY <1>3 DEF Distribute
  <2>2. send' \in [Clients -> Seq(Int)]
    BY <1>3, <2>1 DEF Distribute
  <2>3. conn' \in [Clients -> Conn]
    BY <1>3, LossyConn DEF Distribute
  <2> QED
    BY <1>3, <2>2, <2>3 DEF Distribute
<1>4. ASSUME NEW line \in adding, BroadcastLog(line) PROVE TypeInv'
  <2>1. conn' \in [Clients -> Conn]
    BY <1>4, LossyConn DEF BroadcastLog
  <2>2. line \in Int /\ Append(logBroadcast, line) \in Seq(Int)
    OBVIOUS
  <2>3. logBroadcast' \in Seq(Int)
    BY <1>4, <2>2 DEF BroadcastLog
  <2> QED
    BY <1>4, <2>1, <2>3 DEF BroadcastLog
<1>5. ASSUME NEW c \in Clients, Connect(c) PROVE TypeInv'
  <2>1. NoConn \in Conn /\ 1 \in 0 .. 5 /\ TRUE \in BOOLEAN
    BY EmptyHistory DEF NoConn, Conn
  <2>2. [NoConn EXCEPT !.step = 1, !.open = TRUE] \in Conn
    BY <2>1, ConnStep, Zenon
  <2> QED
    BY <1>5, <2>2 DEF Connect
<1>6. ASSUME NEW c \in Clients, Disconnect(c) PROVE TypeInv'
  <2>1. conn' = [conn EXCEPT ![c] = [conn[c] EXCEPT !.open = FALSE]]
    BY <1>6 DEF Disconnect
  <2>2. conn[c] \in Conn /\ FALSE \in BOOLEAN
    BY <1>6 DEF Disconnect, Conn
  <2>3. [conn[c] EXCEPT !.open = FALSE] \in Conn
    BY <2>2, ConnFlag, Zenon
  <2> QED
    BY <1>6, <2>1, <2>3 DEF Disconnect
<1>7. ASSUME NEW c \in Clients, Register(c) PROVE TypeInv'
  <2>1. conn' = [conn EXCEPT ![c] = [conn[c] EXCEPT !.step = conn[c].step + 1, !.pumping = TRUE]]
    BY <1>7 DEF Register
  <2>2. conn[c] \in Conn /\ conn[c].step + 1 \in 0 .. 5 /\ TRUE \in BOOLEAN
    BY <1>7, StepOf DEF Register, Conn
  <2>3. [conn[c] EXCEPT !.step = conn[c].step + 1, !.pumping = TRUE] \in Conn
    BY <2>2, ConnStep
  <2> QED
    BY <1>7, <2>1, <2>3 DEF Register
<1>8. ASSUME NEW c \in Clients, Unregister(c) PROVE TypeInv'
  <2>1. conn' = [conn EXCEPT ![c] = [conn[c] EXCEPT !.step = conn[c].step + 1,
                                                !.closed = conn[c].closed \/ c \in clients]]
    BY <1>8 DEF Unregister
  <2>2. conn[c] \in Conn /\ conn[c].step + 1 \in 0 .. 5
        /\ (conn[c].closed \/ c \in clients) \in BOOLEAN
    BY <1>8, StepOf DEF Unregister, Conn
  <2>3. [conn[c] EXCEPT !.step = conn[c].step + 1,
                                                !.closed = conn[c].closed \/ c \in clients] \in Conn
    BY <2>2, ConnStep
  <2> QED
    BY <1>8, <2>1, <2>3 DEF Unregister
<1>9. ASSUME NEW c \in Clients, GetLogHistory(c) PROVE TypeInv'
  <2>1. conn' = [conn EXCEPT ![c] = [conn[c] EXCEPT !.alias = ~ring.full, !.history = Lines(ring),
                                                !.k = 1, !.at = lines]]
    BY <1>9 DEF GetLogHistory
  <2>2. conn[c] \in Conn /\ (~ring.full) \in BOOLEAN /\ Lines(ring) \in Histories
        /\ 1 \in Nat /\ lines \in Nat
    BY <1>9, LinesAre DEF GetLogHistory, Conn
  <2>3. [conn[c] EXCEPT !.alias = ~ring.full, !.history = Lines(ring),
                                                !.k = 1, !.at = lines] \in Conn
    BY <2>2, ConnHistory, Zenon
  <2> QED
    BY <1>9, <2>1, <2>3 DEF GetLogHistory
<1>10. ASSUME NEW c \in Clients, SendHistory(c) PROVE TypeInv'
  <2> DEFINE k == conn[c].k
             room == Len(send[c]) < SendCap
  <2>1. PICK line \in Reads(c, k) :
           /\ send' = IF room THEN [send EXCEPT ![c] = Append(@, line)] ELSE send
           /\ conn' = [conn EXCEPT ![c].k = k + 1,
                                   ![c].taken = IF room THEN @ \cup {k} ELSE @,
                                   ![c].lossy = @ \/ ~room \/ line # conn[c].history[k]]
    BY <1>10 DEF SendHistory
  <2>2. line \in Int
    BY <1>10, <2>1, ReadsInt DEF SendHistory
  <2> DEFINE taken == IF room THEN conn[c].taken \cup {k} ELSE conn[c].taken
             lossy == conn[c].lossy \/ ~room \/ line # conn[c].history[k]
  <2>3. conn[c] \in Conn /\ k + 1 \in Nat /\ taken \in SUBSET Nat /\ lossy \in BOOLEAN
    BY DEF Conn
  <2>4. conn' = [conn EXCEPT ![c] = [conn[c] EXCEPT !.k = k + 1, !.taken = taken, !.lossy = lossy]]
    BY <2>1
  <2>5. [conn[c] EXCEPT !.k = k + 1, !.taken = taken, !.lossy = lossy] \in Conn
    <3> HIDE DEF taken, lossy, k
    <3> QED
      BY <2>3, ConnTaken, Zenon
  <2>6. Append(send[c], line) \in Seq(Int)
    BY <2>2
  <2>7. send' \in [Clients -> Seq(Int)]
    BY <2>1, <2>6
  <2> QED
    BY <1>10, <2>4, <2>5, <2>7 DEF SendHistory
<1>11. ASSUME NEW c \in Clients, HistorySent(c) PROVE TypeInv'
  <2>1. conn' = [conn EXCEPT ![c] = [conn[c] EXCEPT !.step = conn[c].step + 1, !.alias = FALSE, !.history = <<>>]]
    BY <1>11 DEF HistorySent
  <2>2. conn[c] \in Conn /\ conn[c].step + 1 \in 0 .. 5 /\ FALSE \in BOOLEAN
        /\ <<>> \in Histories
    BY <1>11, StepOf, EmptyHistory, SMTT(30) DEF HistorySent, Conn
  <2>3. [conn[c] EXCEPT !.step = conn[c].step + 1, !.alias = FALSE, !.history = <<>>] \in Conn
    BY <2>2, ConnSent, Zenon
  <2> QED
    BY <1>11, <2>1, <2>3 DEF HistorySent
<1>12. ASSUME NEW c \in Clients, WritePump(c) PROVE TypeInv'
  <2>1. conn' = [conn EXCEPT ![c] = [conn[c] EXCEPT !.pumping = conn[c].open]]
    BY <1>12 DEF WritePump
  <2>2. conn[c] \in Conn /\ conn[c].open \in BOOLEAN
    BY DEF Conn
  <2>3. [conn[c] EXCEPT !.pumping = conn[c].open] \in Conn
    BY <2>2, ConnFlag
  <2>4. send[c] \in Seq(Int) /\ shown[c] \in Seq(Int) /\ send[c] # <<>>
    BY <1>12 DEF WritePump
  <2>5. Tail(send[c]) \in Seq(Int) /\ Append(shown[c], Head(send[c])) \in Seq(Int)
    BY <2>4
  <2>6. send' \in [Clients -> Seq(Int)] /\ shown' \in [Clients -> Seq(Int)]
    BY <1>12, <2>5 DEF WritePump
  <2> QED
    BY <1>12, <2>1, <2>3, <2>6 DEF WritePump
<1>13. ASSUME NEW c \in Clients, ReadCommand(c) PROVE TypeInv'
  BY <1>13 DEF ReadCommand
<1>14. ASSUME NEW c \in Clients, ReadFails(c) PROVE TypeInv'
  <2>1. conn' = [conn EXCEPT ![c] = [conn[c] EXCEPT !.step = conn[c].step + 1]]
    BY <1>14 DEF ReadFails
  <2>2. conn[c] \in Conn /\ conn[c].step + 1 \in 0 .. 5
    BY <1>14, StepOf DEF ReadFails, Conn
  <2>3. [conn[c] EXCEPT !.step = conn[c].step + 1] \in Conn
    BY <2>2, ConnStep
  <2> QED
    BY <1>14, <2>1, <2>3 DEF ReadFails
<1>15. ASSUME NEW c \in Clients, AgentSendCommand(c) PROVE TypeInv'
  BY <1>15 DEF AgentSendCommand
<1>16. ASSUME NEW c \in Clients, SendAgain(c) PROVE TypeInv'
  BY <1>16 DEF SendAgain
<1>17. ASSUME NEW c \in Clients, SendCommand(c) PROVE TypeInv'
  BY <1>17 DEF SendCommand
<1>18. ASSUME NEW c \in Clients, CommandFails(c) PROVE TypeInv'
  <2>1. Append(send[c], Message) \in Seq(Int)
    BY DEF Message
  <2>2. send' \in [Clients -> Seq(Int)]
    BY <1>18, <2>1 DEF CommandFails
  <2> QED
    BY <1>18, <2>2 DEF CommandFails
<1>19. ASSUME UNCHANGED vars PROVE TypeInv'
  BY <1>19 DEF vars
<1> QED
  BY <1>1, <1>2, <1>3, <1>4, <1>5, <1>6, <1>7, <1>8, <1>9, <1>10, <1>11,
     <1>12, <1>13, <1>14, <1>15, <1>16, <1>17, <1>18, <1>19 DEF Next, Page

\* The types hold in every reachable state.
LEMMA TypeInvariance == Spec => []TypeInv
<1>1. Init => TypeInv
  <2> SUFFICES ASSUME Init PROVE TypeInv
    OBVIOUS
  <2>1. NoConn \in Conn
    BY EmptyHistory DEF NoConn, Conn
  <2>2. ring \in Ring
    BY DEF Init, Ring
  <2> QED
    BY <2>1, <2>2 DEF Init, TypeInv
<1> QED
  BY <1>1, TypeStep, PTL DEF Spec

\* The ring buffer implements the history: in every behaviour, with any number
\* of agents that broadcast and pages that read, what Lines returns are the
\* latest lines in the order in which Add got them.
THEOREM RingImplementsTail == Spec => RingIsTail
<1>1. Init => Abstract!Init
  <2> SUFFICES ASSUME Init PROVE Lines(ring) = <<>>
    BY DEF Abstract!Init
  <2>1. ring \in Ring /\ Count(ring) = 0
    BY DEF Init, Ring, Count
  <2>2. Lines(ring) \in Seq(Int) /\ Len(Lines(ring)) = 0
    BY <2>1, LinesAt
  <2> QED
    BY <2>2, EmptySeq
<1>2. TypeInv /\ [Next]_vars => [Abstract!Next]_(Lines(ring))
  <2> SUFFICES ASSUME TypeInv, [Next]_vars PROVE Abstract!Next \/ UNCHANGED Lines(ring)
    OBVIOUS
  <2>1. CASE StoreLine
    <3>1. ring' = Add(ring, lines + 1) /\ lines + 1 \in 1 .. MaxLines
      BY <2>1 DEF StoreLine, TypeInv
    <3>2. Lines(ring)' = Abstract!Latest(Append(Lines(ring), lines + 1))
      BY <3>1, AddIsLatest DEF TypeInv
    <3> QED
      BY <3>1, <3>2 DEF Abstract!Next
  <2>2. CASE UNCHANGED ring
    BY <2>2 DEF Lines
  <2>3. StoreLine \/ UNCHANGED ring
    BY DEF Next, Page, vars, source, Broadcast, Distribute, BroadcastLog, Connect, Disconnect,
       Register, Unregister, GetLogHistory, SendHistory, HistorySent, WritePump, ReadCommand,
       ReadFails, AgentSendCommand, SendAgain, SendCommand, CommandFails
  <2> QED
    BY <2>1, <2>2, <2>3
<1> QED
  BY <1>1, <1>2, TypeInvariance, PTL DEF Spec, RingIsTail, Abstract!Spec

-----------------------------------------------------------------------------
(* What a step does to the connections.                                    *)

LEMMA ConnectEffect ==
    ASSUME TypeInv, NEW c \in Clients, Connect(c)
    PROVE  /\ conn[c].step = 0
           /\ \A d \in Clients \ {c} : conn'[d] = conn[d]
           /\ conn'[c].step = 1 /\ conn'[c].k = 0 /\ conn'[c].at = 0
           /\ conn'[c].history = <<>>
           /\ ~conn'[c].closed /\ ~conn'[c].alias
  BY DEF TypeInv, Conn, Connect, NoConn

LEMMA DisconnectEffect ==
    ASSUME TypeInv, NEW c \in Clients, Disconnect(c)
    PROVE  /\ \A d \in Clients \ {c} : conn'[d] = conn[d]
           /\ ~conn'[c].open
           /\ conn'[c].step = conn[c].step /\ conn'[c].closed = conn[c].closed /\ conn'[c].alias = conn[c].alias
           /\ conn'[c].history = conn[c].history /\ conn'[c].k = conn[c].k /\ conn'[c].at = conn[c].at
           /\ conn'[c].lossy = conn[c].lossy
<1>1. conn' = [conn EXCEPT ![c] = [conn[c] EXCEPT !.open = FALSE]]
  BY DEF TypeInv, Disconnect
<1> QED
  BY <1>1 DEF TypeInv, Conn

LEMMA RegisterEffect ==
    ASSUME TypeInv, NEW c \in Clients, Register(c)
    PROVE  /\ conn[c].step = 1
           /\ \A d \in Clients \ {c} : conn'[d] = conn[d]
           /\ conn'[c].step = 2
           /\ conn'[c].open = conn[c].open /\ conn'[c].closed = conn[c].closed /\ conn'[c].alias = conn[c].alias
           /\ conn'[c].history = conn[c].history /\ conn'[c].k = conn[c].k /\ conn'[c].at = conn[c].at
           /\ conn'[c].lossy = conn[c].lossy
<1>1. conn[c].step = 1
  BY StepOf DEF Register
<1>2. conn' = [conn EXCEPT ![c] = [conn[c] EXCEPT !.step = conn[c].step + 1, !.pumping = TRUE]]
  BY DEF TypeInv, Register
<1> QED
  BY <1>1, <1>2 DEF TypeInv, Conn

LEMMA UnregisterEffect ==
    ASSUME TypeInv, NEW c \in Clients, Unregister(c)
    PROVE  /\ conn[c].step = 4
           /\ \A d \in Clients \ {c} : conn'[d] = conn[d]
           /\ conn'[c].step = 5
           /\ conn'[c].closed <=> conn[c].closed \/ c \in clients
           /\ conn'[c].k = conn[c].k /\ conn'[c].history = conn[c].history
<1> DEFINE b == conn[c].closed \/ c \in clients
<1>1. conn[c].step = 4
  BY StepOf DEF Unregister
<1>2. conn' = [conn EXCEPT ![c] = [conn[c] EXCEPT !.step = conn[c].step + 1, !.closed = b]]
  BY DEF TypeInv, Unregister
<1>3. b <=> conn[c].closed \/ c \in clients
  OBVIOUS
<1>4. b \in BOOLEAN
  OBVIOUS
<1> HIDE DEF b
<1>5. conn'[c].closed = b
  BY <1>2, <1>4 DEF TypeInv, Conn
<1>6. /\ \A d \in Clients \ {c} : conn'[d] = conn[d]
      /\ conn'[c].step = 5
      /\ conn'[c].k = conn[c].k /\ conn'[c].history = conn[c].history
  BY <1>1, <1>2 DEF TypeInv, Conn
<1> QED
  BY <1>1, <1>3, <1>5, <1>6

LEMMA GetLogHistoryEffect ==
    ASSUME TypeInv, NEW c \in Clients, GetLogHistory(c)
    PROVE  /\ conn[c].step = 2
           /\ \A d \in Clients \ {c} : conn'[d] = conn[d]
           /\ conn'[c].history = Lines(ring)
           /\ conn'[c].k = 1
           /\ conn'[c].at = lines
           /\ (conn'[c].alias <=> ~ring.full)
           /\ conn'[c].step = conn[c].step /\ conn'[c].open = conn[c].open /\ conn'[c].closed = conn[c].closed
           /\ conn'[c].lossy = conn[c].lossy
<1>1. conn[c].step = 2
  BY StepOf DEF GetLogHistory
<1>2. conn' = [conn EXCEPT ![c] = [conn[c] EXCEPT !.alias = ~ring.full, !.history = Lines(ring),
                                                !.k = 1, !.at = lines]]
  BY DEF TypeInv, GetLogHistory
<1> QED
  BY <1>1, <1>2 DEF TypeInv, Conn

LEMMA HistorySentEffect ==
    ASSUME TypeInv, NEW c \in Clients, HistorySent(c)
    PROVE  /\ conn[c].step = 2
           /\ \A d \in Clients \ {c} : conn'[d] = conn[d]
           /\ conn'[c].step = 3
           /\ ~conn'[c].alias
           /\ conn'[c].history = <<>>
           /\ conn'[c].open = conn[c].open /\ conn'[c].closed = conn[c].closed /\ conn'[c].k = conn[c].k
           /\ conn'[c].at = conn[c].at /\ conn'[c].lossy = conn[c].lossy
<1>1. conn[c].step = 2
  BY StepOf DEF HistorySent
<1>2. conn' = [conn EXCEPT ![c] = [conn[c] EXCEPT !.step = conn[c].step + 1, !.alias = FALSE, !.history = <<>>]]
  BY DEF TypeInv, HistorySent
<1> QED
  BY <1>1, <1>2 DEF TypeInv, Conn

LEMMA ReadFailsEffect ==
    ASSUME TypeInv, NEW c \in Clients, ReadFails(c)
    PROVE  /\ conn[c].step = 3
           /\ \A d \in Clients \ {c} : conn'[d] = conn[d]
           /\ conn'[c].step = 4
           /\ conn'[c].open = conn[c].open /\ conn'[c].closed = conn[c].closed /\ conn'[c].alias = conn[c].alias
           /\ conn'[c].history = conn[c].history /\ conn'[c].k = conn[c].k /\ conn'[c].at = conn[c].at
           /\ conn'[c].lossy = conn[c].lossy
<1>1. conn[c].step = 3
  BY StepOf DEF ReadFails
<1>2. conn' = [conn EXCEPT ![c] = [conn[c] EXCEPT !.step = conn[c].step + 1]]
  BY DEF TypeInv, ReadFails
<1> QED
  BY <1>1, <1>2 DEF TypeInv, Conn

LEMMA WritePumpEffect ==
    ASSUME TypeInv, NEW c \in Clients, WritePump(c)
    PROVE  /\ \A d \in Clients \ {c} : conn'[d] = conn[d]
           /\ conn'[c].step = conn[c].step /\ conn'[c].open = conn[c].open /\ conn'[c].closed = conn[c].closed
           /\ conn'[c].alias = conn[c].alias /\ conn'[c].history = conn[c].history /\ conn'[c].k = conn[c].k
           /\ conn'[c].at = conn[c].at /\ conn'[c].lossy = conn[c].lossy
<1>1. conn' = [conn EXCEPT ![c] = [conn[c] EXCEPT !.pumping = conn[c].open]]
  BY DEF TypeInv, WritePump
<1> QED
  BY <1>1 DEF TypeInv, Conn

LEMMA SendHistoryEffect ==
    ASSUME TypeInv, NEW c \in Clients, SendHistory(c)
    PROVE  /\ conn[c].step = 2 /\ conn[c].k \in 1 .. Len(conn[c].history)
           /\ \A d \in Clients \ {c} : conn'[d] = conn[d] /\ send'[d] = send[d]
           /\ conn'[c].k = conn[c].k + 1
           /\ conn'[c].step = conn[c].step /\ conn'[c].open = conn[c].open
           /\ conn'[c].closed = conn[c].closed /\ conn'[c].alias = conn[c].alias
           /\ conn'[c].history = conn[c].history /\ conn'[c].at = conn[c].at
           /\ \E line \in Reads(c, conn[c].k) :
                 /\ \/ send'[c] = Append(send[c], line)
                    \/ send'[c] = send[c] /\ conn'[c].lossy
                 /\ ~conn'[c].lossy => ~conn[c].lossy /\ line = conn[c].history[conn[c].k]
<1> DEFINE k == conn[c].k
           room == Len(send[c]) < SendCap
<1>1. conn[c].step = 2
  BY StepOf DEF SendHistory
<1>2. conn[c].history \in Seq(Int) /\ k \in Nat /\ k \in DOMAIN conn[c].history
  BY DEF SendHistory, TypeInv, Conn, Histories
<1>3. k \in 1 .. Len(conn[c].history)
  BY <1>2
<1>4. PICK line \in Reads(c, k) :
         /\ send' = IF room THEN [send EXCEPT ![c] = Append(@, line)] ELSE send
         /\ conn' = [conn EXCEPT ![c].k = k + 1,
                                 ![c].taken = IF room THEN @ \cup {k} ELSE @,
                                 ![c].lossy = @ \/ ~room \/ line # conn[c].history[k]]
  BY DEF SendHistory
<1> DEFINE taken == IF room THEN conn[c].taken \cup {k} ELSE conn[c].taken
           lossy == conn[c].lossy \/ ~room \/ line # conn[c].history[k]
<1>5. conn' = [conn EXCEPT ![c] = [conn[c] EXCEPT !.k = k + 1, !.taken = taken, !.lossy = lossy]]
  BY <1>4 DEF TypeInv
<1>6. lossy \in BOOLEAN /\ (lossy <=> conn[c].lossy \/ ~room \/ line # conn[c].history[k])
  OBVIOUS
<1> HIDE DEF lossy, taken
<1>7. conn'[c].lossy = lossy
  BY <1>5, <1>6 DEF TypeInv, Conn
<1>8. /\ \A d \in Clients \ {c} : conn'[d] = conn[d]
      /\ conn'[c].k = conn[c].k + 1
      /\ conn'[c].step = conn[c].step /\ conn'[c].open = conn[c].open
      /\ conn'[c].closed = conn[c].closed /\ conn'[c].alias = conn[c].alias
      /\ conn'[c].history = conn[c].history /\ conn'[c].at = conn[c].at
  BY <1>5 DEF TypeInv, Conn
<1>9. /\ \A d \in Clients \ {c} : send'[d] = send[d]
      /\ IF room THEN send'[c] = Append(send[c], line) ELSE send'[c] = send[c]
  BY <1>4 DEF TypeInv
<1>10. /\ \/ send'[c] = Append(send[c], line)
          \/ send'[c] = send[c] /\ conn'[c].lossy
       /\ ~conn'[c].lossy => ~conn[c].lossy /\ line = conn[c].history[conn[c].k]
  BY <1>6, <1>7, <1>9
<1> HIDE DEF room
<1> QED
  BY <1>1, <1>3, <1>4, <1>8, <1>9, <1>10

LEMMA LossyEffect ==
    ASSUME TypeInv, NEW C, conn' = Lossy(C)
    PROVE  \A c \in Clients :
              /\ conn'[c].step = conn[c].step /\ conn'[c].open = conn[c].open
              /\ conn'[c].closed = conn[c].closed /\ conn'[c].alias = conn[c].alias
              /\ conn'[c].history = conn[c].history
              /\ conn'[c].k = conn[c].k /\ conn'[c].at = conn[c].at
              /\ ~conn'[c].lossy => ~conn[c].lossy /\ c \notin C
  BY DEF Lossy, TypeInv, Conn

-----------------------------------------------------------------------------
(* Closed queues.                                                          *)

\* The hub knows the connections between their registration and their end,
\* and a queue is closed when the hub has forgotten it.
HubInv ==
    /\ \A c \in Clients : c \in clients <=> conn[c].step \in 2 .. 4
    /\ \A c \in Clients : conn[c].closed => conn[c].step = 5
    /\ panic # "hub"
    /\ panic = "command" => \E c \in Clients : conn[c].step = 5 /\ conn[c].closed

\* Every step keeps it.
LEMMA HubStep ==
    ASSUME TypeInv, HubInv, [Next]_vars PROVE HubInv'
<1> USE DEF HubInv
<1>1. ASSUME StoreLine PROVE HubInv'
  BY <1>1 DEF StoreLine, hub
<1>2. ASSUME Broadcast PROVE HubInv'
  BY <1>2 DEF Broadcast
<1>3. ASSUME Distribute PROVE HubInv'
  <2>1. clients' = clients /\ \E C : conn' = Lossy(C)
    BY <1>3 DEF Distribute
  <2>2. panic' = panic
    <3>1. ASSUME NEW c \in clients PROVE ~conn[c].closed
      <4>1. c \in Clients
        BY DEF TypeInv
      <4> QED
        BY <4>1
    <3> QED
      BY <1>3, <3>1 DEF Distribute
  <2> QED
    BY <2>1, <2>2, LossyEffect
<1>4. ASSUME NEW line \in adding, BroadcastLog(line) PROVE HubInv'
  <2>1. clients' = clients /\ panic' = panic /\ (conn' = conn \/ conn' = Lossy(Clients))
    BY <1>4 DEF BroadcastLog, hub
  <2> QED
    BY <2>1, LossyEffect
<1>5. ASSUME NEW c \in Clients, Connect(c) PROVE HubInv'
  <2>1. clients' = clients /\ panic' = panic
    BY <1>5 DEF Connect, hub
  <2> QED
    BY <1>5, <2>1, ConnectEffect
<1>6. ASSUME NEW c \in Clients, Disconnect(c) PROVE HubInv'
  <2>1. clients' = clients /\ panic' = panic
    BY <1>6 DEF Disconnect, hub
  <2> QED
    BY <1>6, <2>1, DisconnectEffect
<1>7. ASSUME NEW c \in Clients, Register(c) PROVE HubInv'
  <2>1. clients' = clients \cup {c} /\ panic' = panic
    BY <1>7 DEF Register, hub
  <2> QED
    BY <1>7, <2>1, RegisterEffect
<1>8. ASSUME NEW c \in Clients, Unregister(c) PROVE HubInv'
  <2>1. clients' = clients \ {c} /\ panic' = panic
    BY <1>8 DEF Unregister, hub
  <2> QED
    BY <1>8, <2>1, UnregisterEffect
<1>9. ASSUME NEW c \in Clients, GetLogHistory(c) PROVE HubInv'
  <2>1. clients' = clients /\ panic' = panic
    BY <1>9 DEF GetLogHistory, hub
  <2> QED
    BY <1>9, <2>1, GetLogHistoryEffect
<1>10. ASSUME NEW c \in Clients, SendHistory(c) PROVE HubInv'
  <2>1. clients' = clients /\ panic' = panic
    BY <1>10 DEF SendHistory, hub
  <2> QED
    BY <1>10, <2>1, SendHistoryEffect
<1>11. ASSUME NEW c \in Clients, HistorySent(c) PROVE HubInv'
  <2>1. clients' = clients /\ panic' = panic
    BY <1>11 DEF HistorySent, hub
  <2> QED
    BY <1>11, <2>1, HistorySentEffect
<1>12. ASSUME NEW c \in Clients, WritePump(c) PROVE HubInv'
  <2>1. clients' = clients /\ panic' = panic
    BY <1>12 DEF WritePump, hub
  <2> QED
    BY <1>12, <2>1, WritePumpEffect
<1>13. ASSUME NEW c \in Clients, ReadCommand(c) PROVE HubInv'
  BY <1>13 DEF ReadCommand, hub
<1>14. ASSUME NEW c \in Clients, ReadFails(c) PROVE HubInv'
  <2>1. clients' = clients /\ panic' = panic
    BY <1>14 DEF ReadFails, hub
  <2> QED
    BY <1>14, <2>1, ReadFailsEffect
<1>15. ASSUME NEW c \in Clients, AgentSendCommand(c) PROVE HubInv'
  BY <1>15 DEF AgentSendCommand, hub
<1>16. ASSUME NEW c \in Clients, SendAgain(c) PROVE HubInv'
  BY <1>16 DEF SendAgain, hub
<1>17. ASSUME NEW c \in Clients, SendCommand(c) PROVE HubInv'
  BY <1>17 DEF SendCommand, hub
<1>18. ASSUME NEW c \in Clients, CommandFails(c) PROVE HubInv'
  BY <1>18 DEF CommandFails, hub
<1>19. ASSUME UNCHANGED vars PROVE HubInv'
  BY <1>19 DEF vars
<1> QED
  BY <1>1, <1>2, <1>3, <1>4, <1>5, <1>6, <1>7, <1>8, <1>9, <1>10, <1>11,
     <1>12, <1>13, <1>14, <1>15, <1>16, <1>17, <1>18, <1>19 DEF Next, Page

\* The hub's invariant holds in every reachable state.
LEMMA HubInvariance == Spec => []HubInv
<1>1. Init => HubInv
  BY DEF Init, HubInv, NoConn
<1> QED
  BY <1>1, HubStep, TypeInvariance, PTL DEF Spec

\* Neither the hub nor a handler ever sends on a closed queue, for any number
\* of pages that come and go; if the master is down, a command did.
THEOREM OnlyCommandsSendOnClosed == Spec => []OnlyCommandsPanic
<1>1. TypeInv /\ HubInv => OnlyCommandsPanic
  BY StepOf DEF HubInv, OnlyCommandsPanic
<1> QED
  BY <1>1, TypeInvariance, HubInvariance, PTL

-----------------------------------------------------------------------------
(* No line is missed.                                                      *)

\* What the ring buffer holds: the latest lines, each in one slot.
RingInv ==
    /\ Count(ring) = IF lines < RingSize THEN lines ELSE RingSize
    /\ \A i \in 1 .. Count(ring) : Lines(ring)[i] = lines - Count(ring) + i
    /\ \A s \in Slots : ring.lines[s] \in 0 .. lines
    /\ \A s, t \in Slots : ring.lines[s] = ring.lines[t] /\ ring.lines[s] # 0 => s = t

\* What a handler has got of the history at each of its steps.
Knows(c) ==
    /\ conn[c].step \in 0 .. 1 => conn[c].k = 0
    /\ conn[c].step \in 3 .. 5 => conn[c].k >= 1 /\ conn[c].history = <<>>
    /\ conn[c].step = 2 /\ conn[c].k >= 1 =>
          /\ conn[c].at <= lines /\ Len(conn[c].history) <= conn[c].at
          /\ \A j \in 1 .. Len(conn[c].history) :
                conn[c].history[j] = conn[c].at - Len(conn[c].history) + j

HistoryInv == \A c \in Clients : Knows(c)

\* Where a line is on its way to a page, and what of the history is to be sent.
Way(c) == adding \cup ToSet(logBroadcast) \cup ToSet(broadcast) \cup ToSet(send[c]) \cup ToSet(shown[c])
Rest(c) == {conn[c].history[j] : j \in conn[c].k .. Len(conn[c].history)}

\* A page that may rely on its lines: it has got the history, and lost nothing.
Served(c) == conn[c].open /\ ~conn[c].lossy /\ conn[c].step \in 2 .. 3 /\ conn[c].k >= 1

\* Every line since the oldest one of the history is on its way to it.
Covered ==
    \A c \in Clients :
       Served(c) => \A l \in 1 .. lines : l > conn[c].at - RingSize => l \in Way(c) \cup Rest(c)

\* How often a page has got a line or will get it from the queues, and what it
\* may still read of the history.
Sum(c, l) ==
    Occ(shown[c], l) + Occ(send[c], l) + Occ(broadcast, l) + Occ(logBroadcast, l)
    + (IF l \in adding THEN 1 ELSE 0)

Readable(c) ==
    IF conn[c].step = 2 /\ conn[c].k >= 1
    THEN IF conn[c].alias THEN {ring.lines[s] : s \in conn[c].k - 1 .. RingSize - 1} ELSE Rest(c)
    ELSE {}

\* A line comes once through the queues and once from the history: one that has
\* come both ways is not read again, whatever slot the reader is at.
Twice(c, l) ==
    /\ Sum(c, l) <= 2
    /\ l > lines => Sum(c, l) = 0
    /\ Sum(c, l) = 2 => conn[c].k >= 1 /\ l \notin Readable(c)

TwiceAtMost == \A c \in Clients, l \in Int \ {Torn, Message} : Twice(c, l)

\* Only StoreLine writes the buffer.
LEMMA RingStays ==
    ASSUME [Next]_vars PROVE StoreLine \/ UNCHANGED <<ring, lines>>
  BY ZenonT(60) DEF Next, Page, vars, source, Broadcast, Distribute, BroadcastLog, Connect, Disconnect,
     Register, Unregister, GetLogHistory, SendHistory, HistorySent, WritePump, ReadCommand,
     ReadFails, AgentSendCommand, SendAgain, SendCommand, CommandFails

\* A new line takes one slot and is in no other.
LEMMA BufferKept ==
    ASSUME TypeInv, RingInv, ring' = Add(ring, lines + 1), lines' = lines + 1
    PROVE  /\ \A s \in Slots : ring'.lines[s] \in 0 .. lines'
           /\ \A s, t \in Slots : ring'.lines[s] = ring'.lines[t] /\ ring'.lines[s] # 0 => s = t
<1>1. ring'.lines = [ring.lines EXCEPT ![ring.pos] = lines + 1]
  BY DEF Add
<1>2. \A s \in Slots : ring'.lines[s] = IF s = ring.pos THEN lines + 1 ELSE ring.lines[s]
  BY <1>1 DEF TypeInv, Ring
<1>3. lines \in Nat /\ \A s \in Slots : ring.lines[s] \in 0 .. lines
  BY DEF RingInv, TypeInv
<1>4. \A s \in Slots : ring'.lines[s] \in 0 .. lines'
  BY <1>2, <1>3
<1>5. ASSUME NEW s \in Slots, NEW t \in Slots, ring'.lines[s] = ring'.lines[t], ring'.lines[s] # 0
      PROVE  s = t
  <2>1. ring.lines[s] # lines + 1 /\ ring.lines[t] # lines + 1
    BY <1>3
  <2> QED
    BY <1>2, <1>5, <2>1 DEF RingInv
<1> QED
  BY <1>4, <1>5

\* Every step keeps the contents of the buffer in order.
LEMMA RingStep ==
    ASSUME TypeInv, RingInv, [Next]_vars PROVE RingInv'
<1>1. ASSUME StoreLine PROVE RingInv'
  <2> DEFINE x == lines + 1
             n == Count(ring)
             s == Lines(ring)
             t == Append(s, x)
  <2>1. ring \in Ring /\ x \in Int /\ lines \in Nat /\ lines' = x /\ ring' = Add(ring, x)
    BY <1>1 DEF StoreLine, TypeInv
  <2>2. /\ s \in Seq(Int) /\ Len(s) = n /\ n \in 0 .. RingSize
        /\ \A i \in 1 .. n : s[i] = lines - n + i
    BY <2>1, LinesAt DEF RingInv, Count, Ring
  <2>3. ring' \in Ring /\ Lines(ring') = Abstract!Latest(t)
    BY <2>1, AddIsLatest
  <2>4. /\ Lines(ring') \in Seq(Int) /\ Len(Lines(ring')) = Count(ring')
    BY <2>3, LinesAt
  <2> HIDE DEF x, n, s
  <2>5. /\ t \in Seq(Int) /\ Len(t) = n + 1
        /\ \A i \in 1 .. n : t[i] = s[i]
        /\ t[n + 1] = x
    BY <2>1, <2>2, AppendProperties
  <2> HIDE DEF t
  <2>6. \A i \in 1 .. n + 1 : t[i] = lines - n + i
    BY <2>1, <2>2, <2>5 DEF x
  <2>7. CASE n = RingSize
    <3>1. Abstract!Latest(t) = SubSeq(t, 2, RingSize + 1)
      BY <2>5, <2>7 DEF Abstract!Latest
    <3>2. \A i \in 2 .. RingSize + 1 : t[i] \in Int
      BY <2>5, <2>7, LenProperties
    <3>3. /\ Len(SubSeq(t, 2, RingSize + 1)) = IF 2 <= RingSize + 1 THEN RingSize + 1 - 2 + 1 ELSE 0
          /\ \A i \in 1 .. RingSize + 1 - 2 + 1 : SubSeq(t, 2, RingSize + 1)[i] = t[2 + i - 1]
      BY <3>2, SubSeqProperties
    <3>4. Count(ring') = RingSize
      BY <2>3, <2>4, <3>1, <3>3
    <3>5. ASSUME NEW i \in 1 .. RingSize PROVE Lines(ring')[i] = x - RingSize + i
      <4>1. Lines(ring')[i] = t[i + 1]
        BY <2>3, <3>1, <3>3
      <4> QED
        BY <2>1, <2>6, <2>7, <4>1 DEF x
    <3>6. lines >= RingSize
      BY <2>1, <2>7 DEF RingInv, n
    <3> QED
      BY <2>1, <3>4, <3>5, <3>6, BufferKept DEF RingInv, x
  <2>8. CASE n # RingSize
    <3>1. Abstract!Latest(t) = t
      BY <2>2, <2>5, <2>8 DEF Abstract!Latest
    <3>2. Count(ring') = n + 1
      BY <2>3, <2>4, <2>5, <3>1
    <3>3. lines < RingSize /\ n = lines
      BY <2>1, <2>8 DEF RingInv, n
    <3>4. ASSUME NEW i \in 1 .. n + 1 PROVE Lines(ring')[i] = x - (n + 1) + i
      BY <2>1, <2>2, <2>3, <2>6, <3>1 DEF x
    <3> QED
      BY <2>1, <3>2, <3>3, <3>4, BufferKept DEF RingInv, x
  <2> QED
    BY <2>7, <2>8
<1>2. ASSUME UNCHANGED <<ring, lines>> PROVE RingInv'
  BY <1>2 DEF RingInv, Count, Lines
<1> QED
  BY <1>1, <1>2, RingStays

\* A handler that is not at work keeps what it knows.
LEMMA KnowsKept ==
    ASSUME TypeInv, NEW c \in Clients, Knows(c), lines' \in {lines, lines + 1},
           conn'[c].step = conn[c].step, conn'[c].k = conn[c].k, conn'[c].at = conn[c].at,
           conn'[c].history = conn[c].history
    PROVE  Knows(c)'
<1>1. lines \in Nat /\ conn[c].at \in Nat
  BY DEF TypeInv, Conn
<1>2. conn[c].at <= lines => conn[c].at <= lines'
  BY <1>1
<1> QED
  BY <1>2 DEF Knows

\* Every step keeps what the handlers know of the history.
LEMMA HistoryStep ==
    ASSUME TypeInv, RingInv, HistoryInv, [Next]_vars PROVE HistoryInv'
<1>0. SUFFICES ASSUME NEW d \in Clients PROVE Knows(d)'
  BY DEF HistoryInv
<1>a. /\ lines \in Nat /\ Knows(d)
      /\ conn[d].step \in 0 .. 5 /\ conn[d].k \in Nat /\ conn[d].at \in Nat
  BY DEF TypeInv, Conn, HistoryInv
<1>1. ASSUME StoreLine PROVE Knows(d)'
  <2>1. lines' \in {lines, lines + 1} /\ conn' = conn
    BY <1>1 DEF StoreLine, source
  <2> QED
    BY <1>a, <2>1, KnowsKept
<1>2. ASSUME Broadcast PROVE Knows(d)'
  <2>1. lines' \in {lines, lines + 1} /\ conn' = conn
    BY <1>2 DEF Broadcast, source
  <2> QED
    BY <1>a, <2>1, KnowsKept
<1>3. ASSUME Distribute PROVE Knows(d)'
  <2>1. lines' = lines /\ \E C : conn' = Lossy(C)
    BY <1>3 DEF Distribute, source
  <2> QED
    BY <1>a, <2>1, LossyEffect, KnowsKept
<1>4. ASSUME NEW line \in adding, BroadcastLog(line) PROVE Knows(d)'
  <2>1. lines' = lines /\ (conn' = conn \/ conn' = Lossy(Clients))
    BY <1>4 DEF BroadcastLog
  <2> QED
    BY <1>a, <2>1, LossyEffect, KnowsKept
<1>5. ASSUME NEW c \in Clients, Connect(c) PROVE Knows(d)'
  <2>1. lines' = lines
    BY <1>5 DEF Connect, source
  <2>2. CASE d # c
    BY <1>5, <1>a, <2>1, <2>2, ConnectEffect, KnowsKept
  <2>3. CASE d = c
    BY <1>5, <1>a, <2>1, <2>3, ConnectEffect DEF Knows
  <2> QED
    BY <2>2, <2>3
<1>6. ASSUME NEW c \in Clients, Disconnect(c) PROVE Knows(d)'
  <2>1. lines' = lines
    BY <1>6 DEF Disconnect, source
  <2> QED
    BY <1>6, <1>a, <2>1, DisconnectEffect, KnowsKept
<1>7. ASSUME NEW c \in Clients, Register(c) PROVE Knows(d)'
  <2>1. lines' = lines
    BY <1>7 DEF Register, source
  <2>2. CASE d # c
    BY <1>7, <1>a, <2>1, <2>2, RegisterEffect, KnowsKept
  <2>3. CASE d = c
    BY <1>7, <1>a, <2>1, <2>3, RegisterEffect DEF Knows
  <2> QED
    BY <2>2, <2>3
<1>8. ASSUME NEW c \in Clients, Unregister(c) PROVE Knows(d)'
  <2>1. lines' = lines
    BY <1>8 DEF Unregister, source
  <2>2. CASE d # c
    BY <1>8, <1>a, <2>1, <2>2, UnregisterEffect, KnowsKept
  <2>3. CASE d = c
    BY <1>8, <1>a, <2>1, <2>3, UnregisterEffect DEF Knows
  <2> QED
    BY <2>2, <2>3
<1>9. ASSUME NEW c \in Clients, GetLogHistory(c) PROVE Knows(d)'
  <2>1. lines' = lines
    BY <1>9 DEF GetLogHistory, source
  <2>2. CASE d # c
    BY <1>9, <1>a, <2>1, <2>2, GetLogHistoryEffect, KnowsKept
  <2>3. CASE d = c
    <3>1. Len(Lines(ring)) = Count(ring) /\ Count(ring) <= lines
      BY <1>a, LinesAt DEF TypeInv, RingInv
    <3>2. \A j \in 1 .. Len(Lines(ring)) : Lines(ring)[j] = lines - Len(Lines(ring)) + j
      BY <3>1 DEF RingInv
    <3>3. conn'[c].at <= lines' /\ Len(conn'[c].history) <= conn'[c].at
      BY <1>9, <2>1, <3>1, <1>a, GetLogHistoryEffect
    <3>4. \A j \in 1 .. Len(conn'[c].history) :
             conn'[c].history[j] = conn'[c].at - Len(conn'[c].history) + j
      BY <1>9, <3>2, GetLogHistoryEffect
    <3> QED
      BY <1>9, <2>3, <3>3, <3>4, GetLogHistoryEffect DEF Knows
  <2> QED
    BY <2>2, <2>3
<1>10. ASSUME NEW c \in Clients, SendHistory(c) PROVE Knows(d)'
  <2>1. lines' = lines
    BY <1>10 DEF SendHistory, source
  <2>2. CASE d # c
    BY <1>10, <1>a, <2>1, <2>2, SendHistoryEffect, KnowsKept
  <2>3. CASE d = c
    <3>1. /\ conn[c].step = 2 /\ conn[c].k >= 1
          /\ conn'[c].k = conn[c].k + 1 /\ conn'[c].step = conn[c].step
          /\ conn'[c].history = conn[c].history /\ conn'[c].at = conn[c].at
      BY <1>10, SendHistoryEffect
    <3> QED
      BY <1>a, <2>1, <2>3, <3>1, SMTT(30) DEF Knows
  <2> QED
    BY <2>2, <2>3
<1>11. ASSUME NEW c \in Clients, HistorySent(c) PROVE Knows(d)'
  <2>1. lines' = lines
    BY <1>11 DEF HistorySent, source
  <2>2. CASE d # c
    BY <1>11, <1>a, <2>1, <2>2, HistorySentEffect, KnowsKept
  <2>3. CASE d = c
    <3>1. Len(conn[c].history) \in Nat /\ conn[c].k > Len(conn[c].history)
      BY <1>11 DEF HistorySent, TypeInv, Conn, Histories
    <3>2. conn[c].k >= 1
      BY <1>a, <2>3, <3>1
    <3> QED
      BY <1>11, <2>3, <3>2, HistorySentEffect DEF Knows
  <2> QED
    BY <2>2, <2>3
<1>12. ASSUME NEW c \in Clients, WritePump(c) PROVE Knows(d)'
  <2>1. lines' = lines
    BY <1>12 DEF WritePump, source
  <2> QED
    BY <1>12, <1>a, <2>1, WritePumpEffect, KnowsKept
<1>13. ASSUME NEW c \in Clients, ReadCommand(c) PROVE Knows(d)'
  <2>1. lines' \in {lines, lines + 1} /\ conn' = conn
    BY <1>13 DEF ReadCommand, source
  <2> QED
    BY <1>a, <2>1, KnowsKept
<1>14. ASSUME NEW c \in Clients, ReadFails(c) PROVE Knows(d)'
  <2>1. lines' = lines
    BY <1>14 DEF ReadFails, source
  <2>2. CASE d # c
    BY <1>14, <1>a, <2>1, <2>2, ReadFailsEffect, KnowsKept
  <2>3. CASE d = c
    BY <1>14, <1>a, <2>1, <2>3, ReadFailsEffect DEF Knows
  <2> QED
    BY <2>2, <2>3
<1>15. ASSUME NEW c \in Clients, AgentSendCommand(c) PROVE Knows(d)'
  <2>1. lines' \in {lines, lines + 1} /\ conn' = conn
    BY <1>15 DEF AgentSendCommand, source
  <2> QED
    BY <1>a, <2>1, KnowsKept
<1>16. ASSUME NEW c \in Clients, SendAgain(c) PROVE Knows(d)'
  <2>1. lines' \in {lines, lines + 1} /\ conn' = conn
    BY <1>16 DEF SendAgain, source
  <2> QED
    BY <1>a, <2>1, KnowsKept
<1>17. ASSUME NEW c \in Clients, SendCommand(c) PROVE Knows(d)'
  <2>1. lines' \in {lines, lines + 1} /\ conn' = conn
    BY <1>17 DEF SendCommand, source
  <2> QED
    BY <1>a, <2>1, KnowsKept
<1>18. ASSUME NEW c \in Clients, CommandFails(c) PROVE Knows(d)'
  <2>1. lines' \in {lines, lines + 1} /\ conn' = conn
    BY <1>18 DEF CommandFails, source
  <2> QED
    BY <1>a, <2>1, KnowsKept
<1>19. ASSUME UNCHANGED vars PROVE Knows(d)'
  BY <1>a, <1>19, KnowsKept DEF vars
<1> QED
  BY <1>1, <1>2, <1>3, <1>4, <1>5, <1>6, <1>7, <1>8, <1>9, <1>10, <1>11,
     <1>12, <1>13, <1>14, <1>15, <1>16, <1>17, <1>18, <1>19 DEF Next, Page

\* A page stays served with what it has, if nothing is taken from it.
LEMMA CoveredKept ==
    ASSUME Covered, NEW c \in Clients, Served(c)' => Served(c), conn'[c].at = conn[c].at, lines' = lines,
           Way(c) \cup Rest(c) \subseteq (Way(c) \cup Rest(c))'
    PROVE  Served(c)' => \A l \in 1 .. lines' : l > conn'[c].at - RingSize => l \in (Way(c) \cup Rest(c))'
  BY DEF Covered

\* Nothing changes for a page when other pages move.
LEMMA OthersCovered ==
    ASSUME Covered, NEW c \in Clients, conn'[c] = conn[c], send'[c] = send[c], shown'[c] = shown[c],
           UNCHANGED <<lines, adding, logBroadcast, broadcast>>
    PROVE  Served(c)' => \A l \in 1 .. lines' : l > conn'[c].at - RingSize => l \in (Way(c) \cup Rest(c))'
<1>1. (Served(c)' <=> Served(c)) /\ Way(c)' = Way(c) /\ Rest(c)' = Rest(c)
  BY DEF Served, Way, Rest
<1> QED
  BY <1>1, CoveredKept

\* Every step keeps the lines of every served page on their way.
LEMMA CoveredStep ==
    ASSUME TypeInv, HubInv, RingInv, HistoryInv, Covered, [Next]_vars PROVE Covered'
<1> DEFINE Goal(d) == Served(d)' => \A l \in 1 .. lines' : l > conn'[d].at - RingSize
                                                         => l \in (Way(d) \cup Rest(d))'
<1>0. SUFFICES ASSUME NEW d \in Clients PROVE Goal(d)
  BY DEF Covered
<1>a. /\ lines \in Nat /\ logBroadcast \in Seq(Int) /\ broadcast \in Seq(Int)
      /\ send[d] \in Seq(Int) /\ shown[d] \in Seq(Int)
      /\ conn[d].step \in 0 .. 5 /\ conn[d].k \in Nat /\ conn[d].at \in Nat
      /\ conn[d].history \in Seq(Int)
  BY DEF TypeInv, Conn, Histories
<1>1. ASSUME StoreLine PROVE Goal(d)
  <2>1. lines' = lines + 1 /\ adding' = adding \cup {lines + 1}
        /\ UNCHANGED <<conn, send, shown, logBroadcast, broadcast>>
    BY <1>1 DEF StoreLine, hub
  <2>2. (Served(d)' <=> Served(d)) /\ Way(d)' = Way(d) \cup {lines + 1} /\ Rest(d)' = Rest(d)
    BY <2>1 DEF Served, Way, Rest
  <2>3. \A l \in 1 .. lines' : l \in 1 .. lines \/ l = lines + 1
    BY <1>a, <2>1
  <2> QED
    BY <2>1, <2>2, <2>3 DEF Covered
<1>2. ASSUME Broadcast PROVE Goal(d)
  <2>1. /\ ToSet(logBroadcast) = ToSet(logBroadcast') \cup {Head(logBroadcast)}
        /\ ToSet(broadcast') = ToSet(broadcast) \cup {Head(logBroadcast)}
    <3>1. logBroadcast # <<>> /\ Head(logBroadcast) \in Int
      BY <1>2, <1>a DEF Broadcast
    <3> QED
      BY <1>2, <1>a, <3>1, SetTail, SetAppend DEF Broadcast
  <2>2. UNCHANGED <<lines, adding, conn, send, shown>>
    BY <1>2 DEF Broadcast
  <2>3. (Served(d)' <=> Served(d)) /\ Way(d)' = Way(d) /\ Rest(d)' = Rest(d)
    BY <2>1, <2>2 DEF Served, Way, Rest
  <2> QED
    BY <2>2, <2>3, CoveredKept
<1>3. ASSUME Distribute PROVE Goal(d)
  <2> DEFINE room == {c \in clients : Len(send[c]) < SendCap}
  <2>1. /\ UNCHANGED <<lines, adding, logBroadcast, shown>> /\ conn' = Lossy(clients \ room)
        /\ send'[d] = IF d \in room THEN Append(send[d], Head(broadcast)) ELSE send[d]
    BY <1>3 DEF Distribute, source
  <2>2. ToSet(broadcast) = ToSet(broadcast') \cup {Head(broadcast)} /\ Head(broadcast) \in Int
    <3>1. broadcast # <<>> /\ broadcast' = Tail(broadcast)
      BY <1>3 DEF Distribute
    <3> QED
      BY <1>a, <3>1, SetTail
  <2>3. /\ conn'[d].at = conn[d].at /\ (Served(d)' => Served(d) /\ d \notin clients \ room)
        /\ Rest(d)' = Rest(d)
    <3> HIDE DEF room
    <3>1. /\ conn'[d].step = conn[d].step /\ conn'[d].open = conn[d].open
          /\ conn'[d].history = conn[d].history
          /\ conn'[d].k = conn[d].k /\ conn'[d].at = conn[d].at
          /\ ~conn'[d].lossy => ~conn[d].lossy /\ d \notin clients \ room
      BY <2>1, LossyEffect
    <3> QED
      BY <3>1 DEF Served, Rest
  <2>4. CASE Served(d)'
    <3>1. d \in room
      BY <2>3, <2>4 DEF Served, HubInv
    <3>2. ToSet(send'[d]) = ToSet(send[d]) \cup {Head(broadcast)}
      BY <1>a, <2>1, <2>2, <3>1, SetAppend
    <3> HIDE DEF room
    <3>3. Way(d) \subseteq Way(d)'
      BY <2>1, <2>2, <3>2 DEF Way
    <3> QED
      BY <2>1, <2>3, <3>3, CoveredKept
  <2> QED
    BY <2>4
<1>4. ASSUME NEW line \in adding, BroadcastLog(line) PROVE Goal(d)
  <2>1. UNCHANGED <<lines, broadcast, send, shown>> /\ adding' = adding \ {line}
    BY <1>4 DEF BroadcastLog, hub
  <2>2. CASE Len(logBroadcast) < BroadcastCap
    <3>1. logBroadcast' = Append(logBroadcast, line) /\ conn' = conn
      BY <1>4, <2>2 DEF BroadcastLog
    <3>2. ToSet(logBroadcast') = ToSet(logBroadcast) \cup {line}
      <4>1. line \in Int
        BY DEF TypeInv
      <4> QED
        BY <1>a, <3>1, <4>1, SetAppend
    <3>3. (Served(d)' <=> Served(d)) /\ Way(d) \subseteq Way(d)' /\ Rest(d)' = Rest(d)
      BY <2>1, <3>1, <3>2 DEF Served, Way, Rest
    <3> QED
      BY <2>1, <3>1, <3>3, CoveredKept
  <2>3. CASE ~(Len(logBroadcast) < BroadcastCap)
    <3>1. conn' = Lossy(Clients)
      BY <1>4, <2>3 DEF BroadcastLog
    <3> QED
      BY <3>1, LossyEffect DEF Served
  <2> QED
    BY <2>2, <2>3
<1>5. ASSUME NEW c \in Clients, Connect(c) PROVE Goal(d)
  <2>1. UNCHANGED <<lines, adding, logBroadcast, broadcast, shown, send>>
    BY <1>5 DEF Connect, source, hub, pages
  <2>2. CASE d # c
    BY <1>5, <2>1, <2>2, ConnectEffect, OthersCovered
  <2>3. CASE d = c
    BY <1>5, <2>3, ConnectEffect DEF Served
  <2> QED
    BY <2>2, <2>3
<1>6. ASSUME NEW c \in Clients, Disconnect(c) PROVE Goal(d)
  <2>1. UNCHANGED <<lines, adding, logBroadcast, broadcast, shown, send>>
    BY <1>6 DEF Disconnect, source, hub, pages
  <2>2. CASE d # c
    BY <1>6, <2>1, <2>2, DisconnectEffect, OthersCovered
  <2>3. CASE d = c
    BY <1>6, <2>3, DisconnectEffect DEF Served
  <2> QED
    BY <2>2, <2>3
<1>7. ASSUME NEW c \in Clients, Register(c) PROVE Goal(d)
  <2>1. UNCHANGED <<lines, adding, logBroadcast, broadcast, shown, send>>
    BY <1>7 DEF Register, source, hub, pages
  <2>2. CASE d # c
    BY <1>7, <2>1, <2>2, RegisterEffect, OthersCovered
  <2>3. CASE d = c
    <3>1. conn[c].k = 0
      BY <1>7, RegisterEffect DEF HistoryInv, Knows
    <3> QED
      BY <1>7, <2>3, <3>1, RegisterEffect DEF Served
  <2> QED
    BY <2>2, <2>3
<1>8. ASSUME NEW c \in Clients, Unregister(c) PROVE Goal(d)
  <2>1. UNCHANGED <<lines, adding, logBroadcast, broadcast, shown, send>>
    BY <1>8 DEF Unregister, source, hub, pages
  <2>2. CASE d # c
    BY <1>8, <2>1, <2>2, UnregisterEffect, OthersCovered
  <2>3. CASE d = c
    BY <1>8, <2>3, UnregisterEffect DEF Served
  <2> QED
    BY <2>2, <2>3
<1>9. ASSUME NEW c \in Clients, GetLogHistory(c) PROVE Goal(d)
  <2>1. UNCHANGED <<lines, adding, logBroadcast, broadcast, shown, send>>
    BY <1>9 DEF GetLogHistory, source, hub, pages
  <2>2. CASE d # c
    BY <1>9, <2>1, <2>2, GetLogHistoryEffect, OthersCovered
  <2>3. CASE d = c
    <3>1. conn'[c].at = lines /\ conn'[c].k = 1 /\ conn'[c].history = Lines(ring)
      BY <1>9, GetLogHistoryEffect
    <3>2. ASSUME NEW l \in 1 .. lines, l > lines - RingSize PROVE l \in Rest(c)'
      <4> DEFINE n == Count(ring)
      <4>1. n = (IF lines < RingSize THEN lines ELSE RingSize) /\ Len(Lines(ring)) = n
        BY LinesAt DEF TypeInv, RingInv
      <4> HIDE DEF n
      <4>2. l - lines + n \in 1 .. n /\ lines - n + (l - lines + n) = l
        BY <1>a, <3>2, <4>1, SMTT(30)
      <4>3. Lines(ring)[l - lines + n] = l
        BY <4>2 DEF RingInv, n
      <4> QED
        BY <3>1, <4>1, <4>2, <4>3 DEF Rest
    <3> QED
      BY <2>1, <2>3, <3>1, <3>2
  <2> QED
    BY <2>2, <2>3
<1>10. ASSUME NEW c \in Clients, SendHistory(c) PROVE Goal(d)
  <2>1. UNCHANGED <<lines, adding, logBroadcast, broadcast, shown>>
    BY <1>10 DEF SendHistory, source, hub, pages
  <2>2. CASE d # c
    BY <1>10, <2>1, <2>2, SendHistoryEffect, OthersCovered
  <2>3. CASE d = c
    <3>1. PICK line \in Reads(c, conn[c].k) :
             /\ \/ send'[c] = Append(send[c], line)
                \/ send'[c] = send[c] /\ conn'[c].lossy
             /\ ~conn'[c].lossy => ~conn[c].lossy /\ line = conn[c].history[conn[c].k]
      BY <1>10, SendHistoryEffect
    <3>2. /\ conn[c].k \in 1 .. Len(conn[c].history) /\ conn'[c].k = conn[c].k + 1
          /\ conn'[c].step = conn[c].step /\ conn'[c].open = conn[c].open
          /\ conn'[c].history = conn[c].history /\ conn'[c].at = conn[c].at
      BY <1>10, SendHistoryEffect
    <3>3. CASE Served(c)'
      <4>1. send'[c] = Append(send[c], line) /\ line = conn[c].history[conn[c].k] /\ Served(c)
        BY <1>a, <2>3, <3>1, <3>2, <3>3 DEF Served
      <4>2. line \in Int
        BY <1>a, <2>3, <3>2, <4>1
      <4>3. ToSet(send'[c]) = ToSet(send[c]) \cup {line}
        BY <1>a, <2>3, <4>1, <4>2, SetAppend, SMTT(30)
      <4>4. Rest(c) \subseteq Rest(c)' \cup {line}
        <5>1. \A j \in conn[c].k .. Len(conn[c].history) :
                 j = conn[c].k \/ j \in conn[c].k + 1 .. Len(conn[c].history)
          BY <1>a, <2>3
        <5> QED
          BY <3>2, <4>1, <5>1 DEF Rest
      <4>5. Way(c)' = Way(c) \cup {line}
        BY <2>1, <4>3 DEF Way
      <4> QED
        BY <2>1, <2>3, <3>2, <4>1, <4>4, <4>5, CoveredKept
    <3> QED
      BY <2>3, <3>3
  <2> QED
    BY <2>2, <2>3
<1>11. ASSUME NEW c \in Clients, HistorySent(c) PROVE Goal(d)
  <2>1. UNCHANGED <<lines, adding, logBroadcast, broadcast, shown, send>>
    BY <1>11 DEF HistorySent, source, hub, pages
  <2>2. CASE d # c
    BY <1>11, <2>1, <2>2, HistorySentEffect, OthersCovered
  <2>3. CASE d = c
    <3>1. conn[c].k > Len(conn[c].history) /\ conn[c].step = 2
      BY <1>11, HistorySentEffect DEF HistorySent
    <3>2. conn[c].k >= 1 /\ conn[c].k .. Len(conn[c].history) = {}
      BY <1>a, <2>3, <3>1
    <3>3. Rest(c) = {} /\ Way(c)' = Way(c)
      BY <2>1, <3>2 DEF Rest, Way
    <3>4. Served(c)' => Served(c)
      BY <1>11, <3>1, <3>2, HistorySentEffect DEF Served
    <3> QED
      BY <1>11, <2>1, <2>3, <3>3, <3>4, HistorySentEffect, CoveredKept
  <2> QED
    BY <2>2, <2>3
<1>12. ASSUME NEW c \in Clients, WritePump(c) PROVE Goal(d)
  <2>1. /\ UNCHANGED <<lines, adding, logBroadcast, broadcast>> /\ send[c] # <<>>
        /\ send' = [send EXCEPT ![c] = Tail(@)]
        /\ shown' = IF conn[c].open THEN [shown EXCEPT ![c] = Append(@, Head(send[c]))] ELSE shown
    BY <1>12 DEF WritePump, source, hub
  <2>2. CASE d # c
    <3>1. send'[d] = send[d] /\ shown'[d] = shown[d]
      BY <2>1, <2>2 DEF TypeInv
    <3> QED
      BY <1>12, <2>1, <2>2, <3>1, WritePumpEffect, OthersCovered
  <2>3. CASE d = c
    <3>1. CASE conn[c].open
      <4>1. send'[c] = Tail(send[c]) /\ shown'[c] = Append(shown[c], Head(send[c]))
        BY <2>1, <3>1 DEF TypeInv
      <4>2. Head(send[c]) \in Int
        BY <1>a, <2>1, <2>3
      <4>3. /\ ToSet(send[c]) = ToSet(send'[c]) \cup {Head(send[c])}
            /\ ToSet(shown'[c]) = ToSet(shown[c]) \cup {Head(send[c])}
        BY <1>a, <2>1, <2>3, <4>1, <4>2, SetTail, SetAppend, SMTT(30)
      <4>4. Way(c)' = Way(c)
        BY <2>1, <4>3 DEF Way
      <4>5. Rest(c)' = Rest(c) /\ (Served(c)' => Served(c)) /\ conn'[c].at = conn[c].at
        BY <1>12, WritePumpEffect DEF Rest, Served
      <4> QED
        BY <2>1, <2>3, <4>4, <4>5, CoveredKept
    <3>2. CASE ~conn[c].open
      BY <1>12, <2>3, <3>2, WritePumpEffect DEF Served
    <3> QED
      BY <3>1, <3>2
  <2> QED
    BY <2>2, <2>3
<1>13. ASSUME NEW c \in Clients, ReadCommand(c) PROVE Goal(d)
  <2>1. UNCHANGED <<lines, adding, logBroadcast, broadcast, shown, send, conn>>
    BY <1>13 DEF ReadCommand, source, hub
  <2> QED
    BY <2>1, OthersCovered
<1>14. ASSUME NEW c \in Clients, ReadFails(c) PROVE Goal(d)
  <2>1. UNCHANGED <<lines, adding, logBroadcast, broadcast, shown, send>>
    BY <1>14 DEF ReadFails, source, hub, pages
  <2>2. CASE d # c
    BY <1>14, <2>1, <2>2, ReadFailsEffect, OthersCovered
  <2>3. CASE d = c
    BY <1>14, <2>3, ReadFailsEffect DEF Served
  <2> QED
    BY <2>2, <2>3
<1>15. ASSUME NEW c \in Clients, AgentSendCommand(c) PROVE Goal(d)
  <2>1. UNCHANGED <<lines, adding, logBroadcast, broadcast, shown, send, conn>>
    BY <1>15 DEF AgentSendCommand, source, hub
  <2> QED
    BY <2>1, OthersCovered
<1>16. ASSUME NEW c \in Clients, SendAgain(c) PROVE Goal(d)
  <2>1. UNCHANGED <<lines, adding, logBroadcast, broadcast, shown, send, conn>>
    BY <1>16 DEF SendAgain, source, hub
  <2> QED
    BY <2>1, OthersCovered
<1>17. ASSUME NEW c \in Clients, SendCommand(c) PROVE Goal(d)
  <2>1. UNCHANGED <<lines, adding, logBroadcast, broadcast, shown, send, conn>>
    BY <1>17 DEF SendCommand, source, hub
  <2> QED
    BY <2>1, OthersCovered
<1>18. ASSUME NEW c \in Clients, CommandFails(c) PROVE Goal(d)
  <2>1. UNCHANGED <<lines, adding, logBroadcast, broadcast, shown, conn>>
    BY <1>18 DEF CommandFails, source, hub
  <2>2. send'[d] = send[d] \/ send'[d] = Append(send[d], Message)
    BY <1>18 DEF CommandFails, TypeInv
  <2>3. ToSet(send[d]) \subseteq ToSet(send'[d])
    <3>1. Message \in Int
      BY DEF Message
    <3>2. ToSet(Append(send[d], Message)) = ToSet(send[d]) \cup {Message}
      BY <1>a, <3>1, SetAppend
    <3> QED
      BY <2>2, <3>2
  <2>4. (Served(d)' <=> Served(d)) /\ Way(d) \subseteq Way(d)' /\ Rest(d)' = Rest(d)
    BY <2>1, <2>3 DEF Served, Way, Rest
  <2> QED
    BY <2>1, <2>4, CoveredKept
<1>19. ASSUME UNCHANGED vars PROVE Goal(d)
  BY <1>19, OthersCovered DEF vars
<1> HIDE DEF Goal
<1> QED
  BY <1>1, <1>2, <1>3, <1>4, <1>5, <1>6, <1>7, <1>8, <1>9, <1>10, <1>11,
     <1>12, <1>13, <1>14, <1>15, <1>16, <1>17, <1>18, <1>19 DEF Next, Page

\* Nothing changes for a line of a page that comes no nearer and is not read.
LEMMA TwiceKept ==
    ASSUME NEW c \in Clients, NEW l \in Int, Twice(c, l),
           Sum(c, l) \in Nat, Sum(c, l)' \in Nat, Sum(c, l)' <= Sum(c, l), lines' = lines,
           conn[c].k >= 1 => conn'[c].k >= 1, l \in Readable(c)' => l \in Readable(c)
    PROVE  Twice(c, l)'
<1>1. Sum(c, l)' <= 2 /\ (Sum(c, l)' = 2 => Sum(c, l) = 2) /\ (Sum(c, l) = 0 => Sum(c, l)' = 0)
  BY DEF Twice
<1> QED
  BY <1>1 DEF Twice

LEMMA SumNat ==
    ASSUME TypeInv, NEW c \in Clients, NEW l \in Int
    PROVE  Sum(c, l) \in Nat
<1>1. /\ Occ(shown[c], l) \in Nat /\ Occ(send[c], l) \in Nat
      /\ Occ(broadcast, l) \in Nat /\ Occ(logBroadcast, l) \in Nat
  BY PlacesFinite DEF TypeInv
<1> QED
  BY <1>1 DEF Sum

\* Nothing changes for a page when other pages move.
LEMMA OthersTwice ==
    ASSUME TypeInv, NEW c \in Clients, NEW l \in Int, Twice(c, l),
           conn'[c].step = conn[c].step, conn'[c].k = conn[c].k, conn'[c].alias = conn[c].alias,
           conn'[c].history = conn[c].history,
           send'[c] = send[c], shown'[c] = shown[c],
           UNCHANGED <<ring, lines, adding, logBroadcast, broadcast>>
    PROVE  Twice(c, l)'
<1>1. Sum(c, l)' = Sum(c, l)
  BY DEF Sum
<1>2. Readable(c)' = Readable(c)
  BY DEF Readable, Rest
<1> QED
  BY <1>1, <1>2 DEF Twice

\* Every step keeps the lines from coming a third time.
LEMMA TwiceStep ==
    ASSUME TypeInv, RingInv, HistoryInv, TwiceAtMost, [Next]_vars PROVE TwiceAtMost'
<1>0. SUFFICES ASSUME NEW d \in Clients, NEW l \in Int, l # Torn, l # Message PROVE Twice(d, l)'
  BY DEF TwiceAtMost
<1>a. /\ lines \in Nat /\ logBroadcast \in Seq(Int) /\ broadcast \in Seq(Int)
      /\ send[d] \in Seq(Int) /\ shown[d] \in Seq(Int)
      /\ conn[d].step \in 0 .. 5 /\ conn[d].k \in Nat /\ conn[d].history \in Seq(Int)
      /\ Len(conn[d].history) <= RingSize /\ adding \subseteq 1 .. lines
  BY DEF TypeInv, Conn, Histories
<1>b. Twice(d, l) /\ Sum(d, l) \in Nat /\ Knows(d)
  <2>1. Twice(d, l)
    BY <1>0 DEF TwiceAtMost
  <2>2. Sum(d, l) \in Nat
    BY SumNat
  <2>3. Knows(d)
    BY DEF HistoryInv
  <2> QED
    BY <2>1, <2>2, <2>3
<1>c. TypeInv'
  BY TypeStep
<1>d. Sum(d, l)' \in Nat
  <2>1. /\ Occ(shown'[d], l) \in Nat /\ Occ(send'[d], l) \in Nat
        /\ Occ(broadcast', l) \in Nat /\ Occ(logBroadcast', l) \in Nat
    BY <1>c, PlacesFinite DEF TypeInv
  <2> QED
    BY <2>1 DEF Sum
<1>e. /\ Occ(shown[d], l) \in Nat /\ Occ(send[d], l) \in Nat
      /\ Occ(broadcast, l) \in Nat /\ Occ(logBroadcast, l) \in Nat
  BY <1>a, PlacesFinite
<1>1. ASSUME StoreLine PROVE Twice(d, l)'
  <2>1. /\ lines' = lines + 1 /\ adding' = adding \cup {lines + 1} /\ ring' = Add(ring, lines + 1)
        /\ UNCHANGED <<conn, send, shown, logBroadcast, broadcast>>
    BY <1>1 DEF StoreLine, hub
  <2>2. CASE l = lines + 1
    <3>1. Sum(d, l) = 0
      BY <1>a, <1>b, <2>2 DEF Twice
    <3>2. l \notin adding
      BY <1>a, <2>2
    <3>3. Sum(d, l)' = 1
      BY <1>e, <2>1, <2>2, <3>1, <3>2 DEF Sum
    <3> QED
      BY <1>a, <2>1, <2>2, <3>3 DEF Twice
  <2>3. CASE l # lines + 1
    <3>1. Sum(d, l)' = Sum(d, l)
      BY <2>1, <2>3 DEF Sum
    <3>2. l \in Readable(d)' => l \in Readable(d)
      <4>1. \A s \in Slots : ring'.lines[s] = ring.lines[s] \/ ring'.lines[s] = lines + 1
        BY <2>1 DEF Add, TypeInv, Ring
      <4>2. CASE conn[d].step = 2 /\ conn[d].k >= 1 /\ conn[d].alias
        <5>1. /\ Readable(d) = {ring.lines[s] : s \in conn[d].k - 1 .. RingSize - 1}
              /\ Readable(d)' = {ring'.lines[s] : s \in conn[d].k - 1 .. RingSize - 1}
          BY <2>1, <4>2 DEF Readable
        <5>2. conn[d].k - 1 .. RingSize - 1 \subseteq Slots
          BY <1>a, <4>2
        <5> QED
          BY <2>3, <4>1, <5>1, <5>2
      <4>3. CASE ~(conn[d].step = 2 /\ conn[d].k >= 1 /\ conn[d].alias)
        BY <2>1, <4>3 DEF Readable, Rest
      <4> QED
        BY <4>2, <4>3
    <3>3. l > lines' => l > lines
      BY <1>a, <2>1
    <3> QED
      BY <1>b, <2>1, <3>1, <3>2, <3>3 DEF Twice
  <2> QED
    BY <2>2, <2>3
<1>2. ASSUME Broadcast PROVE Twice(d, l)'
  <2>1. UNCHANGED <<ring, lines, adding, conn, send, shown>>
    BY <1>2 DEF Broadcast
  <2>2. /\ Occ(logBroadcast, l) = Occ(logBroadcast', l) + (IF Head(logBroadcast) = l THEN 1 ELSE 0)
        /\ Occ(broadcast', l) = Occ(broadcast, l) + (IF Head(logBroadcast) = l THEN 1 ELSE 0)
    <3>1. logBroadcast # <<>> /\ Head(logBroadcast) \in Int
      BY <1>2, <1>a DEF Broadcast
    <3> QED
      BY <1>2, <1>a, <3>1, OccTail, OccAppend DEF Broadcast
  <2>3. Occ(logBroadcast', l) \in Nat
    BY <1>c, PlacesFinite DEF TypeInv
  <2>4. Sum(d, l)' = Sum(d, l)
    BY <1>e, <2>1, <2>2, <2>3 DEF Sum
  <2>5. Readable(d)' = Readable(d)
    BY <2>1 DEF Readable, Rest
  <2> QED
    BY <1>b, <2>1, <2>4, <2>5, TwiceKept
<1>3. ASSUME Distribute PROVE Twice(d, l)'
  <2> DEFINE room == {c \in clients : Len(send[c]) < SendCap}
  <2>1. /\ UNCHANGED <<ring, lines, adding, logBroadcast, shown>> /\ conn' = Lossy(clients \ room)
        /\ send'[d] = IF d \in room THEN Append(send[d], Head(broadcast)) ELSE send[d]
    BY <1>3 DEF Distribute, source
  <2>2. broadcast # <<>> /\ broadcast' = Tail(broadcast) /\ Head(broadcast) \in Int
    BY <1>3, <1>a DEF Distribute
  <2>3. Occ(broadcast, l) = Occ(broadcast', l) + (IF Head(broadcast) = l THEN 1 ELSE 0)
    BY <1>a, <2>2, OccTail
  <2>4. Occ(Append(send[d], Head(broadcast)), l)
        = Occ(send[d], l) + (IF Head(broadcast) = l THEN 1 ELSE 0)
    BY <1>a, <2>2, OccAppend
  <2> HIDE DEF room
  <2>5. Occ(broadcast', l) \in Nat
    BY <1>c, PlacesFinite DEF TypeInv
  <2>6. Sum(d, l)' <= Sum(d, l)
    BY <1>e, <2>1, <2>3, <2>4, <2>5 DEF Sum
  <2>7. /\ conn'[d].step = conn[d].step /\ conn'[d].k = conn[d].k
        /\ conn'[d].alias = conn[d].alias /\ conn'[d].history = conn[d].history
    BY <2>1, LossyEffect
  <2>8. Readable(d)' = Readable(d)
    BY <2>1, <2>7 DEF Readable, Rest
  <2> QED
    BY <1>b, <1>d, <2>1, <2>6, <2>7, <2>8, TwiceKept
<1>4. ASSUME NEW line \in adding, BroadcastLog(line) PROVE Twice(d, l)'
  <2>1. /\ UNCHANGED <<ring, lines, broadcast, send, shown>> /\ adding' = adding \ {line}
        /\ logBroadcast' = logBroadcast \/ logBroadcast' = Append(logBroadcast, line)
        /\ conn' = conn \/ conn' = Lossy(Clients)
    BY <1>4 DEF BroadcastLog, hub
  <2>2. Occ(Append(logBroadcast, line), l) = Occ(logBroadcast, l) + (IF line = l THEN 1 ELSE 0)
    <3>1. line \in Int
      BY <1>a
    <3> QED
      BY <1>a, <3>1, OccAppend
  <2>3. Sum(d, l)' <= Sum(d, l)
    <3>1. CASE line = l
      <4>1. l \in adding /\ l \notin adding' /\ Occ(logBroadcast', l) <= Occ(logBroadcast, l) + 1
            /\ Occ(logBroadcast', l) \in Nat
        <5>1. l \in adding /\ l \notin adding'
          BY <2>1, <3>1
        <5>2. Occ(Append(logBroadcast, line), l) = Occ(logBroadcast, l) + 1
          BY <2>2, <3>1
        <5>3. CASE logBroadcast' = logBroadcast
          BY <1>e, <5>1, <5>3
        <5>4. CASE logBroadcast' = Append(logBroadcast, line)
          BY <1>e, <5>1, <5>2, <5>4
        <5> QED
          BY <2>1, <5>3, <5>4
      <4> QED
        BY <1>e, <2>1, <4>1 DEF Sum
    <3>2. CASE line # l
      <4>1. (l \in adding' <=> l \in adding) /\ Occ(logBroadcast', l) = Occ(logBroadcast, l)
        <5>1. l \in adding' <=> l \in adding
          BY <2>1, <3>2
        <5>2. Occ(Append(logBroadcast, line), l) = Occ(logBroadcast, l)
          BY <1>a, <3>2, OccOther
        <5> QED
          BY <2>1, <5>1, <5>2
      <4>2. Sum(d, l)' = Sum(d, l)
        BY <2>1, <4>1 DEF Sum
      <4> QED
        BY <1>b, <4>2
    <3> QED
      BY <3>1, <3>2
  <2>4. /\ conn'[d].step = conn[d].step /\ conn'[d].k = conn[d].k
        /\ conn'[d].alias = conn[d].alias /\ conn'[d].history = conn[d].history
    BY <2>1, LossyEffect
  <2>5. Readable(d)' = Readable(d)
    BY <2>1, <2>4 DEF Readable, Rest
  <2> QED
    BY <1>b, <1>d, <2>1, <2>3, <2>4, <2>5, TwiceKept
<1>5. ASSUME NEW c \in Clients, Connect(c) PROVE Twice(d, l)'
  <2>1. UNCHANGED <<ring, lines, adding, logBroadcast, broadcast, shown, send>>
    BY <1>5 DEF Connect, source, hub, pages
  <2>2. CASE d # c
    BY <1>5, <1>b, <2>1, <2>2, ConnectEffect, OthersTwice
  <2>3. CASE d = c
    <3>1. Sum(c, l)' = Sum(c, l)
      BY <2>1 DEF Sum
    <3>2. l \notin Readable(c)'
      BY <1>5, ConnectEffect DEF Readable
    <3>3. conn[c].k >= 1 => conn'[c].k >= 1
      BY <1>5, <1>a, <1>b, <2>3, ConnectEffect DEF Knows
    <3> QED
      BY <1>b, <2>1, <2>3, <3>1, <3>2, <3>3, TwiceKept
  <2> QED
    BY <2>2, <2>3
<1>6. ASSUME NEW c \in Clients, Disconnect(c) PROVE Twice(d, l)'
  <2>1. UNCHANGED <<ring, lines, adding, logBroadcast, broadcast, shown, send>>
    BY <1>6 DEF Disconnect, source, hub, pages
  <2> QED
    BY <1>6, <1>b, <2>1, DisconnectEffect, OthersTwice
<1>7. ASSUME NEW c \in Clients, Register(c) PROVE Twice(d, l)'
  <2>1. UNCHANGED <<ring, lines, adding, logBroadcast, broadcast, shown, send>>
    BY <1>7 DEF Register, source, hub, pages
  <2>2. CASE d # c
    BY <1>7, <1>b, <2>1, <2>2, RegisterEffect, OthersTwice
  <2>3. CASE d = c
    <3>1. Sum(c, l)' = Sum(c, l)
      BY <2>1 DEF Sum
    <3>2. l \notin Readable(c)'
      BY <1>7, <1>b, <2>3, RegisterEffect DEF Readable, Knows
    <3>3. conn[c].k >= 1 => conn'[c].k >= 1
      BY <1>7, <1>a, <1>b, <2>3, RegisterEffect DEF Knows
    <3> QED
      BY <1>b, <2>1, <2>3, <3>1, <3>2, <3>3, TwiceKept
  <2> QED
    BY <2>2, <2>3
<1>8. ASSUME NEW c \in Clients, Unregister(c) PROVE Twice(d, l)'
  <2>1. UNCHANGED <<ring, lines, adding, logBroadcast, broadcast, shown, send>>
    BY <1>8 DEF Unregister, source, hub, pages
  <2>2. CASE d # c
    BY <1>8, <1>b, <2>1, <2>2, UnregisterEffect, OthersTwice
  <2>3. CASE d = c
    <3>1. Sum(c, l)' = Sum(c, l)
      BY <2>1 DEF Sum
    <3>2. l \notin Readable(c)'
      BY <1>8, UnregisterEffect DEF Readable
    <3>3. conn[c].k >= 1 => conn'[c].k >= 1
      BY <1>8, <1>a, <1>b, <2>3, UnregisterEffect DEF Knows
    <3> QED
      BY <1>b, <2>1, <2>3, <3>1, <3>2, <3>3, TwiceKept
  <2> QED
    BY <2>2, <2>3
<1>9. ASSUME NEW c \in Clients, GetLogHistory(c) PROVE Twice(d, l)'
  <2>1. UNCHANGED <<ring, lines, adding, logBroadcast, broadcast, shown, send>>
    BY <1>9 DEF GetLogHistory, source, hub, pages
  <2>2. CASE d # c
    BY <1>9, <1>b, <2>1, <2>2, GetLogHistoryEffect, OthersTwice
  <2>3. CASE d = c
    <3>1. Sum(c, l)' = Sum(c, l)
      BY <2>1 DEF Sum
    <3>2. conn[c].k = 0
      BY <1>9 DEF GetLogHistory
    <3>3. Sum(c, l) # 2
      BY <1>b, <2>3, <3>2 DEF Twice
    <3> QED
      BY <1>b, <2>1, <2>3, <3>1, <3>3 DEF Twice
  <2> QED
    BY <2>2, <2>3
<1>10. ASSUME NEW c \in Clients, SendHistory(c) PROVE Twice(d, l)'
  <2>1. UNCHANGED <<ring, lines, adding, logBroadcast, broadcast, shown>>
    BY <1>10 DEF SendHistory, source, hub, pages
  <2>2. CASE d # c
    BY <1>10, <1>b, <2>1, <2>2, SendHistoryEffect, OthersTwice
  <2>3. CASE d = c
    <3> DEFINE k == conn[c].k
    <3>1. PICK line \in Reads(c, k) :
             send'[c] = Append(send[c], line) \/ send'[c] = send[c]
      BY <1>10, SendHistoryEffect
    <3>2. /\ conn[c].step = 2 /\ k \in 1 .. Len(conn[c].history) /\ conn'[c].k = k + 1
          /\ conn'[c].step = conn[c].step /\ conn'[c].alias = conn[c].alias
          /\ conn'[c].history = conn[c].history
      BY <1>10, SendHistoryEffect
    <3>3. k \in 1 .. RingSize /\ k - 1 \in Slots
      <4>1. Len(conn[c].history) \in Nat /\ Len(conn[c].history) <= RingSize /\ k \in 1 .. Len(conn[c].history)
        BY <1>a, <2>3, <3>2
      <4> HIDE DEF k
      <4> QED
        BY <4>1
    <3>4. line \in Int
      <4>1. k \in DOMAIN conn[c].history
        BY <1>a, <2>3, <3>2
      <4> QED
        BY <3>1, <4>1, ReadsInt
    <3> HIDE DEF k
    <3>5. Readable(c)' \subseteq Readable(c)
      <4>1. CASE conn[c].alias
        <5>1. /\ Readable(c) = {ring.lines[s] : s \in k - 1 .. RingSize - 1}
              /\ Readable(c)' = {ring.lines[s] : s \in k .. RingSize - 1}
          BY <2>1, <3>2, <3>3, <4>1 DEF Readable, k
        <5>2. k .. RingSize - 1 \subseteq k - 1 .. RingSize - 1
          BY <3>3
        <5> QED
          BY <5>1, <5>2
      <4>2. CASE ~conn[c].alias
        <5>1. /\ Readable(c) = {conn[c].history[j] : j \in k .. Len(conn[c].history)}
              /\ Readable(c)' = {conn[c].history[j] : j \in k + 1 .. Len(conn[c].history)}
          BY <2>1, <3>2, <3>3, <4>2 DEF Readable, Rest, k
        <5>2. k + 1 .. Len(conn[c].history) \subseteq k .. Len(conn[c].history)
          BY <1>a, <2>3, <3>3
        <5> QED
          BY <5>1, <5>2
      <4> QED
        BY <4>1, <4>2
    <3>6. CASE send'[c] = send[c] \/ line # l
      <4>1. Occ(send'[c], l) = Occ(send[c], l)
        <5>3. CASE line # l
          <6>1. Occ(Append(send[c], line), l) = Occ(send[c], l)
            BY <1>a, <2>3, <3>4, <5>3, OccOther
          <6> QED
            BY <3>1, <6>1, Zenon
        <5>4. CASE send'[c] = send[c]
          BY <5>4
        <5> QED
          BY <3>6, <5>3, <5>4
      <4>2. Sum(c, l)' = Sum(c, l)
        BY <2>1, <4>1 DEF Sum
      <4>3. conn'[c].k >= 1
        BY <3>2, <3>3
      <4> QED
        BY <1>b, <2>1, <2>3, <3>5, <4>2, <4>3, TwiceKept
    <3>7. CASE send'[c] = Append(send[c], line) /\ line = l
      <4>1. Occ(send'[c], l) = Occ(send[c], l) + 1
        <5>1. send[c] \in Seq(Int)
          BY <1>a, <2>3
        <5>2. Occ(Append(send[c], line), l) = Occ(send[c], l) + (IF line = l THEN 1 ELSE 0)
          BY <3>4, <5>1, OccAppend
        <5> QED
          BY <3>7, <5>2
      <4>2. Sum(c, l)' = Sum(c, l) + 1
        BY <1>e, <2>1, <2>3, <4>1 DEF Sum
      <4>3. l \in Readable(c) /\ l \notin Readable(c)' /\ l <= lines
        <5>1. CASE conn[c].alias
          <6>1. l = ring.lines[k - 1]
            BY <1>0, <3>1, <3>7, <5>1 DEF Reads
          <6>2. /\ Readable(c) = {ring.lines[s] : s \in k - 1 .. RingSize - 1}
                /\ Readable(c)' = {ring.lines[s] : s \in k .. RingSize - 1}
            BY <2>1, <3>2, <3>3, <5>1 DEF Readable, k
          <6>3. k - 1 \in k - 1 .. RingSize - 1 /\ \A s \in k .. RingSize - 1 : s \in Slots /\ s # k - 1
            BY <3>3
          <6>4. l # 0 /\ l \in 0 .. lines
            BY <1>0, <3>3, <6>1 DEF RingInv, Torn
          <6>5. \A s \in k .. RingSize - 1 : ring.lines[s] # l
            BY <3>3, <6>1, <6>3, <6>4 DEF RingInv
          <6> QED
            BY <1>a, <6>1, <6>2, <6>3, <6>4, <6>5
        <5>2. CASE ~conn[c].alias
          <6>1. l = conn[c].history[k]
            BY <3>1, <3>7, <5>2 DEF Reads
          <6>2. /\ Readable(c) = {conn[c].history[j] : j \in k .. Len(conn[c].history)}
                /\ Readable(c)' = {conn[c].history[j] : j \in k + 1 .. Len(conn[c].history)}
            BY <2>1, <3>2, <3>3, <5>2 DEF Readable, Rest, k
          <6>3. /\ conn[c].at \in Nat /\ conn[c].at <= lines
                /\ \A j \in 1 .. Len(conn[c].history) :
                      conn[c].history[j] = conn[c].at - Len(conn[c].history) + j
            BY <1>b, <2>3, <3>2, <3>3 DEF Knows, TypeInv, Conn, k
          <6>4. Len(conn[c].history) \in Nat /\ k \in 1 .. Len(conn[c].history)
            BY <1>a, <2>3, <3>2 DEF k
          <6>5. l = conn[c].at - Len(conn[c].history) + k
            BY <6>1, <6>3, <6>4
          <6>6. ASSUME NEW j \in k + 1 .. Len(conn[c].history) PROVE conn[c].history[j] # l
            <7>1. j \in 1 .. Len(conn[c].history) /\ j # k
              BY <6>4
            <7>2. conn[c].history[j] = conn[c].at - Len(conn[c].history) + j
              BY <6>3, <7>1
            <7> QED
              BY <6>3, <6>4, <6>5, <7>1, <7>2
          <6>7. l <= lines
            BY <1>a, <6>3, <6>4, <6>5, SMTT(30)
          <6> QED
            BY <6>1, <6>2, <6>4, <6>6, <6>7
        <5> QED
          BY <5>1, <5>2
      <4>4. Sum(c, l) <= 1
        BY <1>b, <2>3, <4>3 DEF Twice
      <4>5. conn'[c].k >= 1 /\ ~(l > lines')
        BY <1>a, <2>1, <3>2, <3>3, <4>3
      <4> QED
        BY <1>b, <2>3, <4>2, <4>3, <4>4, <4>5 DEF Twice
    <3> QED
      BY <3>1, <3>6, <3>7
  <2> QED
    BY <2>2, <2>3
<1>11. ASSUME NEW c \in Clients, HistorySent(c) PROVE Twice(d, l)'
  <2>1. UNCHANGED <<ring, lines, adding, logBroadcast, broadcast, shown, send>>
    BY <1>11 DEF HistorySent, source, hub, pages
  <2>2. CASE d # c
    BY <1>11, <1>b, <2>1, <2>2, HistorySentEffect, OthersTwice
  <2>3. CASE d = c
    <3>1. Sum(c, l)' = Sum(c, l)
      BY <2>1 DEF Sum
    <3>2. l \notin Readable(c)'
      BY <1>11, HistorySentEffect DEF Readable
    <3>3. conn[c].k >= 1 => conn'[c].k >= 1
      BY <1>11, <1>a, <1>b, <2>3, HistorySentEffect DEF Knows
    <3> QED
      BY <1>b, <2>1, <2>3, <3>1, <3>2, <3>3, TwiceKept
  <2> QED
    BY <2>2, <2>3
<1>12. ASSUME NEW c \in Clients, WritePump(c) PROVE Twice(d, l)'
  <2>1. /\ UNCHANGED <<ring, lines, adding, logBroadcast, broadcast>> /\ send[c] # <<>>
        /\ send' = [send EXCEPT ![c] = Tail(@)]
        /\ shown' = IF conn[c].open THEN [shown EXCEPT ![c] = Append(@, Head(send[c]))] ELSE shown
    BY <1>12 DEF WritePump, source, hub
  <2>2. CASE d # c
    <3>1. send'[d] = send[d] /\ shown'[d] = shown[d]
      BY <2>1, <2>2 DEF TypeInv
    <3> QED
      BY <1>12, <1>b, <2>1, <2>2, <3>1, WritePumpEffect, OthersTwice
  <2>3. CASE d = c
    <3>1. /\ send'[c] = Tail(send[c])
          /\ shown'[c] = shown[c] \/ shown'[c] = Append(shown[c], Head(send[c]))
      BY <2>1 DEF TypeInv
    <3>2. Head(send[c]) \in Int
      BY <1>a, <2>1, <2>3
    <3>3. /\ Occ(send[c], l) = Occ(send'[c], l) + (IF Head(send[c]) = l THEN 1 ELSE 0)
          /\ Occ(Append(shown[c], Head(send[c])), l)
             = Occ(shown[c], l) + (IF Head(send[c]) = l THEN 1 ELSE 0)
      <4>1. send[c] \in Seq(Int) /\ send[c] # <<>> /\ shown[c] \in Seq(Int)
        BY <1>a, <2>1, <2>3
      <4>2. Occ(send[c], l) = Occ(Tail(send[c]), l) + (IF Head(send[c]) = l THEN 1 ELSE 0)
        BY <4>1, OccTail, Zenon
      <4>3. Occ(Append(shown[c], Head(send[c])), l) = Occ(shown[c], l) + (IF Head(send[c]) = l THEN 1 ELSE 0)
        BY <3>2, <4>1, OccAppend, Zenon
      <4> QED
        BY <3>1, <4>2, <4>3, Zenon
    <3>4. Occ(send'[c], l) \in Nat
      BY <1>c, PlacesFinite DEF TypeInv
    <3>5. Sum(c, l)' <= Sum(c, l)
      <4>1. /\ Occ(shown[c], l) \in Nat /\ Occ(send[c], l) \in Nat
        BY <1>e, <2>3
      <4>2. Occ(shown'[c], l) \in Nat
        BY <1>c, PlacesFinite DEF TypeInv
      <4>3. Occ(shown'[c], l) + Occ(send'[c], l) <= Occ(shown[c], l) + Occ(send[c], l)
        <5>1. CASE Head(send[c]) = l
          <6>1. /\ Occ(send[c], l) = Occ(send'[c], l) + 1
                /\ Occ(Append(shown[c], Head(send[c])), l) = Occ(shown[c], l) + 1
            BY <3>3, <5>1
          <6>2. Occ(shown'[c], l) = Occ(shown[c], l) \/ Occ(shown'[c], l) = Occ(shown[c], l) + 1
            BY <3>1, <6>1, Zenon
          <6> QED
            BY <3>4, <4>1, <4>2, <6>1, <6>2
        <5>2. CASE Head(send[c]) # l
          <6>1. /\ Occ(send[c], l) = Occ(send'[c], l) + 0
                /\ Occ(Append(shown[c], Head(send[c])), l) = Occ(shown[c], l) + 0
            BY <3>3, <5>2
          <6>2. Occ(shown'[c], l) = Occ(shown[c], l) \/ Occ(shown'[c], l) = Occ(shown[c], l) + 0
            BY <3>1, <6>1, Zenon
          <6> QED
            BY <3>4, <4>1, <4>2, <6>1, <6>2
        <5> QED
          BY <5>1, <5>2
      <4> QED
        BY <1>e, <2>1, <3>4, <4>1, <4>2, <4>3, SMTT(30) DEF Sum
    <3>6. Readable(c)' = Readable(c) /\ conn'[c].k = conn[c].k
      <4>1. /\ conn'[c].step = conn[c].step /\ conn'[c].alias = conn[c].alias
            /\ conn'[c].history = conn[c].history /\ conn'[c].k = conn[c].k
        BY <1>12, WritePumpEffect
      <4> QED
        BY <2>1, <4>1 DEF Readable, Rest
    <3> QED
      BY <1>b, <1>d, <2>1, <2>3, <3>5, <3>6, TwiceKept
  <2> QED
    BY <2>2, <2>3
<1>13. ASSUME NEW c \in Clients, ReadCommand(c) PROVE Twice(d, l)'
  <2>1. UNCHANGED <<ring, lines, adding, logBroadcast, broadcast, shown, send, conn>>
    BY <1>13 DEF ReadCommand, source, hub
  <2> QED
    BY <1>b, <2>1, OthersTwice
<1>14. ASSUME NEW c \in Clients, ReadFails(c) PROVE Twice(d, l)'
  <2>1. UNCHANGED <<ring, lines, adding, logBroadcast, broadcast, shown, send>>
    BY <1>14 DEF ReadFails, source, hub, pages
  <2>2. CASE d # c
    BY <1>14, <1>b, <2>1, <2>2, ReadFailsEffect, OthersTwice
  <2>3. CASE d = c
    <3>1. Sum(c, l)' = Sum(c, l)
      BY <2>1 DEF Sum
    <3>2. l \notin Readable(c)'
      BY <1>14, ReadFailsEffect DEF Readable
    <3>3. conn[c].k >= 1 => conn'[c].k >= 1
      BY <1>14, <1>a, <1>b, <2>3, ReadFailsEffect DEF Knows
    <3> QED
      BY <1>b, <2>1, <2>3, <3>1, <3>2, <3>3, TwiceKept
  <2> QED
    BY <2>2, <2>3
<1>15. ASSUME NEW c \in Clients, AgentSendCommand(c) PROVE Twice(d, l)'
  <2>1. UNCHANGED <<ring, lines, adding, logBroadcast, broadcast, shown, send, conn>>
    BY <1>15 DEF AgentSendCommand, source, hub
  <2> QED
    BY <1>b, <2>1, OthersTwice
<1>16. ASSUME NEW c \in Clients, SendAgain(c) PROVE Twice(d, l)'
  <2>1. UNCHANGED <<ring, lines, adding, logBroadcast, broadcast, shown, send, conn>>
    BY <1>16 DEF SendAgain, source, hub
  <2> QED
    BY <1>b, <2>1, OthersTwice
<1>17. ASSUME NEW c \in Clients, SendCommand(c) PROVE Twice(d, l)'
  <2>1. UNCHANGED <<ring, lines, adding, logBroadcast, broadcast, shown, send, conn>>
    BY <1>17 DEF SendCommand, source, hub
  <2> QED
    BY <1>b, <2>1, OthersTwice
<1>18. ASSUME NEW c \in Clients, CommandFails(c) PROVE Twice(d, l)'
  <2>1. UNCHANGED <<ring, lines, adding, logBroadcast, broadcast, shown, conn>>
    BY <1>18 DEF CommandFails, source, hub
  <2>2. send'[d] = send[d] \/ send'[d] = Append(send[d], Message)
    BY <1>18 DEF CommandFails, TypeInv
  <2>3. Occ(send'[d], l) = Occ(send[d], l)
    <3>1. Message \in Int
      BY DEF Message
    <3>2. Occ(Append(send[d], Message), l) = Occ(send[d], l) + (IF Message = l THEN 1 ELSE 0)
      BY <1>a, <3>1, OccAppend
    <3> QED
      <4>1. Message # l
        BY <1>0
      <4>2. Occ(Append(send[d], Message), l) = Occ(send[d], l)
        BY <1>e, <3>2, <4>1
      <4> QED
        BY <2>2, <4>2
  <2>4. Sum(d, l)' = Sum(d, l)
    BY <2>1, <2>3 DEF Sum
  <2>5. Readable(d)' = Readable(d)
    BY <2>1 DEF Readable, Rest
  <2> QED
    BY <1>b, <2>1, <2>4, <2>5, TwiceKept
<1>19. ASSUME UNCHANGED vars PROVE Twice(d, l)'
  BY <1>b, <1>19, OthersTwice DEF vars
<1> QED
  BY <1>1, <1>2, <1>3, <1>4, <1>5, <1>6, <1>7, <1>8, <1>9, <1>10, <1>11,
     <1>12, <1>13, <1>14, <1>15, <1>16, <1>17, <1>18, <1>19 DEF Next, Page

-----------------------------------------------------------------------------

\* The whole invariant of the pages.
PageInv == RingInv /\ HistoryInv /\ Covered /\ TwiceAtMost

\* It holds in every reachable state.
LEMMA PageInvariance == Spec => []PageInv
<1>1. Init => PageInv
  <2> SUFFICES ASSUME Init PROVE PageInv
    OBVIOUS
  <2>1. RingInv
    BY DEF Init, RingInv, Count
  <2>2. \A c \in Clients : conn[c].step = 0 /\ conn[c].k = 0
    BY DEF Init, NoConn
  <2>3. HistoryInv
    BY <2>2 DEF HistoryInv, Knows
  <2>4. Covered
    BY <2>2 DEF Covered, Served
  <2>5. ASSUME NEW c \in Clients, NEW l \in Int PROVE Sum(c, l) = 0
    <3>1. Occ(<<>>, l) = 0
      BY FS_EmptySet DEF Occ, Places
    <3>2. /\ shown[c] = <<>> /\ send[c] = <<>> /\ broadcast = <<>> /\ logBroadcast = <<>>
          /\ l \notin adding
      BY DEF Init
    <3> QED
      BY <3>1, <3>2 DEF Sum
  <2>6. TwiceAtMost
    BY <2>5 DEF TwiceAtMost, Twice
  <2> QED
    BY <2>1, <2>3, <2>4, <2>6 DEF PageInv
<1>2. TypeInv /\ HubInv /\ PageInv /\ [Next]_vars => PageInv'
  BY RingStep, HistoryStep, CoveredStep, TwiceStep DEF PageInv
<1> QED
  BY <1>1, <1>2, TypeInvariance, HubInvariance, PTL DEF Spec

\* A page that lost nothing shows every line since the oldest one of the history
\* when the queues are empty, and no page shows a line more than twice: for any
\* size of the buffer and of the queues, any number of pages and lines, and
\* whatever is written while a page reads its history.
THEOREM NothingMissed == Spec => []NothingIsMissed
<1>1. TypeInv /\ PageInv => NothingIsMissed
  <2> SUFFICES ASSUME TypeInv, PageInv, NEW c \in Clients
      PROVE  LET seen == ToSet(shown[c]) IN
             /\ (/\ At(c, "read") /\ conn[c].open /\ ~conn[c].lossy
                 /\ adding = {} /\ logBroadcast = <<>> /\ broadcast = <<>> /\ send[c] = <<>>)
                => {l \in 1 .. lines : l > conn[c].at - RingSize} \subseteq seen
             /\ \A l \in seen \ {Torn, Message} : Cardinality({k \in DOMAIN shown[c] : shown[c][k] = l}) <= 2
    BY DEF NothingIsMissed
  <2>1. ASSUME At(c, "read"), conn[c].open, ~conn[c].lossy, adding = {},
               logBroadcast = <<>>, broadcast = <<>>, send[c] = <<>>
        PROVE  {l \in 1 .. lines : l > conn[c].at - RingSize} \subseteq ToSet(shown[c])
    <3>1. conn[c].step = 3
      BY <2>1, StepOf
    <3>2. conn[c].k >= 1 /\ conn[c].history = <<>>
      BY <3>1 DEF PageInv, HistoryInv, Knows
    <3>3. Served(c)
      BY <2>1, <3>1, <3>2 DEF Served
    <3>4. Rest(c) = {}
      <4>1. Len(<<>>) = 0 /\ conn[c].k \in Nat
        BY DEF TypeInv, Conn
      <4>2. conn[c].k .. Len(conn[c].history) = {}
        BY <3>2, <4>1
      <4> QED
        BY <4>2 DEF Rest
    <3>5. Way(c) = ToSet(shown[c])
      <4>1. ToSet(<<>>) = {}
        BY DEF ToSet
      <4> QED
        BY <2>1, <4>1 DEF Way
    <3> QED
      BY <3>3, <3>4, <3>5 DEF PageInv, Covered
  <2>2. ASSUME NEW l \in ToSet(shown[c]), l # Torn, l # Message
        PROVE  Cardinality({k \in DOMAIN shown[c] : shown[c][k] = l}) <= 2
    <3>1. shown[c] \in Seq(Int)
      BY DEF TypeInv
    <3>2. l \in Int
      BY <3>1 DEF ToSet
    <3>3. Twice(c, l)
      BY <2>2, <3>2 DEF PageInv, TwiceAtMost
    <3>4. /\ Occ(shown[c], l) \in Nat /\ Occ(send[c], l) \in Nat
          /\ Occ(broadcast, l) \in Nat /\ Occ(logBroadcast, l) \in Nat
      BY <3>2, PlacesFinite DEF TypeInv
    <3>5. Occ(shown[c], l) <= 2
      BY <3>3, <3>4 DEF Twice, Sum
    <3> QED
      BY <3>5 DEF Occ, Places
  <2> QED
    BY <2>1, <2>2
<1> QED
  BY <1>1, TypeInvariance, PageInvariance, PTL

-----------------------------------------------------------------------------
(* The agent's forwarders.                                                 *)

\* No forwarder is ahead of the process; the one of its latest run is the one
\* in the map, and no other run has two, unless an entry was taken from the map.
ReaderInv ==
    /\ run \in Nat
    /\ DOMAIN fwd = Forwarders
    /\ \A f \in Forwarders : DOMAIN fwd[f] = {"pc", "run", "batch", "cancelled"} /\ fwd[f].run \in 0 .. run
    /\ active = 0 \/ active \in Forwarders
    /\ ~evicted => /\ \A f \in Forwarders : run > 0 /\ fwd[f].run = run => active = f
                   /\ \A e, f \in Forwarders : fwd[e].run > 0 /\ fwd[e].run = fwd[f].run => e = f

LEMMA ReaderStart == ForwarderInit => ReaderInv
  BY DEF ForwarderInit, ReaderInv, None

\* Most steps leave the runs of the forwarders and the map alone.
LEMMA ReadersStay ==
    ASSUME ReaderInv, run' = run, active' = active, evicted' = evicted, DOMAIN fwd' = DOMAIN fwd,
           \A f \in Forwarders : DOMAIN fwd'[f] = DOMAIN fwd[f] /\ fwd'[f].run = fwd[f].run
    PROVE  ReaderInv'
  BY DEF ReaderInv

LEMMA QuietForwarder ==
    ASSUME ReaderInv, NEW f \in Forwarders,
           \/ OpenStream(f) \/ OpenFails(f) \/ TakeLine(f) \/ Flush(f) \/ ChannelClosed(f)
           \/ CloseAndRecv(f) \/ Cancelled(f) \/ Retry(f) \/ Break(f) \/ ReportMetrics(f)
    PROVE  ReaderInv'
<1>1. UNCHANGED <<run, active, evicted>>
  BY DEF OpenStream, OpenFails, TakeLine, Flush, ChannelClosed, CloseAndRecv, Cancelled, Retry,
     Break, ReportMetrics, process, hist
<1>2. \/ fwd' = fwd
      \/ \E pc, b : fwd' = [fwd EXCEPT ![f].pc = pc, ![f].batch = b]
      \/ \E b : fwd' = [fwd EXCEPT ![f].batch = b]
      \/ \E pc : fwd' = [fwd EXCEPT ![f].pc = pc]
  BY DEF OpenStream, OpenFails, TakeLine, Flush, ChannelClosed, CloseAndRecv, Cancelled, Retry,
     Break, ReportMetrics, Goto, SendBatch
<1>3. DOMAIN fwd' = DOMAIN fwd
  BY <1>2
<1>4. ASSUME NEW e \in Forwarders PROVE DOMAIN fwd'[e] = DOMAIN fwd[e] /\ fwd'[e].run = fwd[e].run
  <2>0. DOMAIN fwd = Forwarders /\ DOMAIN fwd[e] = {"pc", "run", "batch", "cancelled"}
    BY DEF ReaderInv
  <2>1. ASSUME NEW pc, NEW b, fwd' = [fwd EXCEPT ![f].pc = pc, ![f].batch = b]
        PROVE  DOMAIN fwd'[e] = DOMAIN fwd[e] /\ fwd'[e].run = fwd[e].run
    BY <2>0, <2>1
  <2>2. ASSUME NEW b, fwd' = [fwd EXCEPT ![f].batch = b]
        PROVE  DOMAIN fwd'[e] = DOMAIN fwd[e] /\ fwd'[e].run = fwd[e].run
    BY <2>0, <2>2
  <2>3. ASSUME NEW pc, fwd' = [fwd EXCEPT ![f].pc = pc]
        PROVE  DOMAIN fwd'[e] = DOMAIN fwd[e] /\ fwd'[e].run = fwd[e].run
    BY <2>0, <2>3
  <2> QED
    BY <1>2, <2>1, <2>2, <2>3
<1> QED
  BY <1>1, <1>3, <1>4, ReadersStay

LEMMA TickStep ==
    ASSUME ReaderInv, Tick
    PROVE  ReaderInv'
<1>1. /\ active # 0 => fwd[active].run # run
      /\ active = 0 => running
      /\ UNCHANGED <<run, evicted>>
  BY DEF Tick, process
<1> DEFINE cancelled == IF active = 0 THEN fwd ELSE [fwd EXCEPT ![active].cancelled = TRUE]
<1>2. DOMAIN cancelled = Forwarders /\ \A e \in Forwarders : DOMAIN cancelled[e] = DOMAIN fwd[e] /\ cancelled[e].run = fwd[e].run
  BY DEF ReaderInv
<1>3. ~evicted => \A e \in Forwarders : run > 0 => fwd[e].run # run
  BY <1>1 DEF ReaderInv, Forwarders
<1>4. CASE ~running
  <2>1. fwd' = cancelled /\ active' = 0
    BY <1>4 DEF Tick
  <2> HIDE DEF cancelled
  <2> QED
    BY <1>1, <1>2, <1>3, <2>1 DEF ReaderInv
<1>5. CASE running
  <2> DEFINE new == [None EXCEPT !.pc = "connect", !.run = run]
  <2>1. PICK f \in Forwarders : /\ fwd' = [cancelled EXCEPT ![f] = new]
                                /\ active' = f
    BY <1>5 DEF Tick
  <2>2. new.run = run /\ DOMAIN new = {"pc", "run", "batch", "cancelled"}
    BY DEF None
  <2> HIDE DEF cancelled, new
  <2>3. /\ DOMAIN fwd' = Forwarders /\ fwd'[f].run = run
        /\ DOMAIN fwd'[f] = {"pc", "run", "batch", "cancelled"}
        /\ \A e \in Forwarders \ {f} : DOMAIN fwd'[e] = DOMAIN fwd[e] /\ fwd'[e].run = fwd[e].run
    BY <1>2, <2>1, <2>2
  <2> QED
    BY <1>1, <1>3, <2>1, <2>3 DEF ReaderInv
<1> QED
  BY <1>4, <1>5

LEMMA EndStep ==
    ASSUME ReaderInv, NEW f \in Forwarders, Ended(f)
    PROVE  ReaderInv'
<1>1. /\ fwd' = [fwd EXCEPT ![f] = None] /\ active' = 0 /\ run' = run
      /\ evicted' = (evicted \/ active \notin {0, f})
  BY DEF Ended, process
<1>2. /\ DOMAIN fwd' = Forwarders /\ fwd'[f].run = 0
      /\ DOMAIN fwd'[f] = {"pc", "run", "batch", "cancelled"}
      /\ \A e \in Forwarders \ {f} : DOMAIN fwd'[e] = DOMAIN fwd[e] /\ fwd'[e].run = fwd[e].run
  BY <1>1 DEF ReaderInv, None
<1>3. ASSUME ~evicted' PROVE ~evicted /\ active \in {0, f}
  BY <1>1, <1>3
<1> QED
  BY <1>1, <1>2, <1>3 DEF ReaderInv

LEMMA ReaderKeep == ReaderInv /\ [ForwarderNext]_forwarderVars => ReaderInv'
<1> SUFFICES ASSUME ReaderInv, [ForwarderNext]_forwarderVars PROVE ReaderInv'
  OBVIOUS
<1>1. CASE Start
  BY <1>1 DEF Start, ReaderInv, hist
<1>2. CASE WriteLine \/ Exit \/ UNCHANGED forwarderVars
  BY <1>2 DEF WriteLine, Exit, forwarderVars, ReaderInv, hist
<1>3. CASE Tick
  BY <1>3, TickStep
<1>4. ASSUME NEW f \in Forwarders, Ended(f) PROVE ReaderInv'
  BY <1>4, EndStep
<1> QED
  BY <1>1, <1>2, <1>3, <1>4, QuietForwarder DEF ForwarderNext

\* However often the process is started and streams break, two forwarders read one
\* channel only after one that ended late has removed its successor's entry
\* (logStreamLoop).
THEOREM SingleReader == ForwarderSpec => []OneReader
<1>1. ASSUME ReaderInv PROVE OneReader
  <2> SUFFICES ASSUME NEW g \in Runs, ~evicted PROVE ~(Cardinality(Readers(g)) > 1)
    BY DEF OneReader
  <2>1. \A e, f \in Readers(g) : e = f
    BY <1>1 DEF ReaderInv, Readers, Runs
  <2>2. CASE Readers(g) = {}
    BY <2>2, FS_EmptySet
  <2>3. CASE Readers(g) # {}
    <3>1. PICK f \in Readers(g) : Readers(g) = {f}
      BY <2>1, <2>3
    <3>2. Cardinality(Readers(g)) = 1
      BY <3>1, FS_Singleton
    <3> QED
      BY <3>2
  <2> QED
    BY <2>2, <2>3
<1> QED
  BY <1>1, ReaderStart, ReaderKeep, PTL DEF ForwarderSpec

-----------------------------------------------------------------------------
(* Lines on their way: received, sent, and in a forwarder's batch.         *)

\* Of two lines the first is before the second, or another one if order was lost.
Apart(lost, a, b) == IF lost THEN a # b ELSE a < b

InOrder(lost, s) == \A j, k \in DOMAIN s : j < k => Apart(lost, s[j], s[k])
Ahead(lost, s, t) == \A j \in DOMAIN s : \A k \in DOMAIN t : Apart(lost, s[j], t[k])
Within(s, n) == \A k \in DOMAIN s : s[k] \in 1 .. n

\* The way of the first n lines of a run: some have been received, others are in
\* batches that were sent, and the rest is in the batch of the forwarder.
OnTheWay(lost, n, received, sent, batch) ==
    /\ received \in Seq(Nat) /\ sent \in Seq(Seq(Nat)) /\ batch \in Seq(Nat) /\ n \in Nat
    /\ Within(received, n) /\ Within(batch, n) /\ \A i \in DOMAIN sent : Within(sent[i], n)
    /\ InOrder(lost, received) /\ InOrder(lost, batch) /\ \A i \in DOMAIN sent : InOrder(lost, sent[i])
    /\ Ahead(lost, received, batch)
    /\ \A i \in DOMAIN sent : Ahead(lost, received, sent[i]) /\ Ahead(lost, sent[i], batch)
    /\ \A h, i \in DOMAIN sent : h < i => Ahead(lost, sent[h], sent[i])

Has(s, l) == \E k \in DOMAIN s : s[k] = l
Holds(sent, batch, l) == Has(batch, l) \/ \E i \in DOMAIN sent : Has(sent[i], l)

\* Nothing is ahead of, or has, what is not there.
LEMMA NoLines ==
    /\ <<>> \in Seq(Nat) /\ <<>> \in Seq(Seq(Nat)) /\ DOMAIN <<>> = {}
    /\ \A n : Within(<<>>, n)
    /\ \A lost : InOrder(lost, <<>>)
    /\ \A lost, s : Ahead(lost, <<>>, s) /\ Ahead(lost, s, <<>>)
    /\ \A l : ~Has(<<>>, l) /\ ~Holds(<<>>, <<>>, l)
<1>1. <<>> \in Seq(Nat) /\ <<>> \in Seq(Seq(Nat)) /\ DOMAIN <<>> = {}
  OBVIOUS
<1> QED
  BY <1>1 DEF Within, InOrder, Ahead, Has, Holds

\* A line that is written is after all before it.
LEMMA TakeOnTheWay ==
    ASSUME NEW lost \in BOOLEAN, NEW n, NEW r, NEW s, NEW b, OnTheWay(lost, n, r, s, b)
    PROVE  /\ OnTheWay(lost, n + 1, r, s, Append(b, n + 1))
           /\ \A l : Holds(s, Append(b, n + 1), l) <=> Holds(s, b, l) \/ l = n + 1
<1> DEFINE c == Append(b, n + 1)
           m == Len(b)
<1>1. n \in Nat /\ b \in Seq(Nat) /\ m \in Nat /\ DOMAIN b = 1 .. m
  BY DEF OnTheWay
<1>2. /\ c \in Seq(Nat) /\ DOMAIN c = 1 .. m + 1 /\ c[m + 1] = n + 1
      /\ \A k \in 1 .. m : c[k] = b[k]
  BY <1>1
<1> HIDE DEF c, m
<1>3. \A k \in DOMAIN c : (k \in DOMAIN b /\ c[k] = b[k]) \/ (k = m + 1 /\ c[k] = n + 1)
  BY <1>1, <1>2
<1>4. \A a \in 1 .. n : Apart(lost, a, n + 1) /\ a \in 1 .. n + 1
  BY <1>1 DEF Apart
<1>5. n + 1 \in Nat /\ n + 1 \in 1 .. n + 1
  BY <1>1
<1>6. \A t : Within(t, n) => Within(t, n + 1) /\ \A k \in DOMAIN t : Apart(lost, t[k], n + 1)
  BY <1>4 DEF Within
<1>7. Within(c, n + 1)
  BY <1>3, <1>4, <1>5 DEF Within, OnTheWay
<1>8. InOrder(lost, c)
  <2> SUFFICES ASSUME NEW j \in DOMAIN c, NEW k \in DOMAIN c, j < k PROVE Apart(lost, c[j], c[k])
    BY DEF InOrder
  <2>1. j \in DOMAIN b /\ c[j] = b[j]
    BY <1>1, <1>2, <1>3
  <2>2. CASE k \in DOMAIN b /\ c[k] = b[k]
    BY <2>1, <2>2 DEF InOrder, OnTheWay
  <2>3. CASE c[k] = n + 1
    BY <1>6, <2>1, <2>3 DEF OnTheWay
  <2> QED
    BY <1>3, <2>2, <2>3
<1>9. \A t : Within(t, n) /\ Ahead(lost, t, b) => Ahead(lost, t, c)
  BY <1>3, <1>6 DEF Ahead
<1>10. \A l : Has(c, l) <=> Has(b, l) \/ l = n + 1
  <2>1. \A k \in DOMAIN b : k \in DOMAIN c /\ c[k] = b[k]
    BY <1>1, <1>2
  <2>2. m + 1 \in DOMAIN c
    BY <1>1, <1>2
  <2> QED
    BY <1>2, <1>3, <2>1, <2>2 DEF Has
<1>11. OnTheWay(lost, n + 1, r, s, c)
  BY <1>2, <1>5, <1>6, <1>7, <1>8, <1>9 DEF OnTheWay
<1> QED
  BY <1>10, <1>11 DEF c, Holds

\* The batch is sent.
LEMMA SendOnTheWay ==
    ASSUME NEW lost \in BOOLEAN, NEW n, NEW r, NEW s, NEW b, OnTheWay(lost, n, r, s, b)
    PROVE  /\ OnTheWay(lost, n, r, Append(s, b), <<>>)
           /\ \A l : Holds(Append(s, b), <<>>, l) <=> Holds(s, b, l)
<1> DEFINE t == Append(s, b)
           m == Len(s)
<1>1. s \in Seq(Seq(Nat)) /\ b \in Seq(Nat) /\ m \in Nat /\ DOMAIN s = 1 .. m
  BY DEF OnTheWay
<1>2. /\ t \in Seq(Seq(Nat)) /\ DOMAIN t = 1 .. m + 1 /\ t[m + 1] = b
      /\ \A k \in 1 .. m : t[k] = s[k]
  BY <1>1
<1> HIDE DEF t, m
<1>3. \A k \in DOMAIN t : (k \in DOMAIN s /\ t[k] = s[k]) \/ (k = m + 1 /\ t[k] = b)
  BY <1>1, <1>2
<1>4. \A h, i \in DOMAIN t : h < i => h \in DOMAIN s /\ t[h] = s[h]
  BY <1>1, <1>2, <1>3
<1>5. \A i \in DOMAIN t : Within(t[i], n) /\ InOrder(lost, t[i]) /\ Ahead(lost, r, t[i])
  BY <1>3 DEF OnTheWay
<1>6. \A h, i \in DOMAIN t : h < i => Ahead(lost, t[h], t[i])
  <2> SUFFICES ASSUME NEW h \in DOMAIN t, NEW i \in DOMAIN t, h < i PROVE Ahead(lost, s[h], t[i])
    BY <1>4
  <2>1. h \in DOMAIN s
    BY <1>4
  <2> QED
    BY <1>3, <2>1 DEF OnTheWay
<1>7. OnTheWay(lost, n, r, t, <<>>)
  BY <1>2, <1>5, <1>6, NoLines DEF OnTheWay
<1>8. \A k \in DOMAIN s : k \in DOMAIN t /\ t[k] = s[k]
  BY <1>1, <1>2
<1>9. m + 1 \in DOMAIN t
  BY <1>1, <1>2
<1>10. \A l : Holds(t, <<>>, l) <=> Holds(s, b, l)
  BY <1>2, <1>3, <1>8, <1>9, NoLines DEF Holds
<1> QED
  BY <1>7, <1>10 DEF t

\* The batch is lost, or what was sent is, or both.
LEMMA LoseOnTheWay ==
    ASSUME NEW lost \in BOOLEAN, NEW n, NEW r, NEW s, NEW b, OnTheWay(lost, n, r, s, b)
    PROVE  /\ OnTheWay(lost, n, r, s, <<>>) /\ OnTheWay(lost, n, r, <<>>, b)
           /\ OnTheWay(lost, n, r, <<>>, <<>>)
           /\ \A l : /\ Holds(s, <<>>, l) => Holds(s, b, l)
                     /\ Holds(<<>>, b, l) => Holds(s, b, l)
  BY NoLines DEF OnTheWay, Holds

\* More lines may be under way than are.
LEMMA MoreOnTheWay ==
    ASSUME NEW lost \in BOOLEAN, NEW n, NEW m \in Nat, NEW r, NEW s, NEW b,
           OnTheWay(lost, n, r, s, b), n <= m
    PROVE  OnTheWay(lost, m, r, s, b)
<1>1. n \in Nat
  BY DEF OnTheWay
<1>2. \A t : Within(t, n) => Within(t, m)
  BY <1>1 DEF Within
<1> QED
  BY <1>2 DEF OnTheWay

\* Order may be lost.
LEMMA UnorderedOnTheWay ==
    ASSUME NEW n, NEW r, NEW s, NEW b, OnTheWay(FALSE, n, r, s, b)
    PROVE  OnTheWay(TRUE, n, r, s, b)
<1>1. \A x, y \in 1 .. n : Apart(FALSE, x, y) => Apart(TRUE, x, y)
  BY DEF Apart, OnTheWay
<1>2. \A t, u : Within(t, n) /\ Within(u, n) /\ Ahead(FALSE, t, u) => Ahead(TRUE, t, u)
  BY <1>1 DEF Ahead, Within
<1>3. \A t : Within(t, n) /\ InOrder(FALSE, t) => InOrder(TRUE, t)
  BY <1>1 DEF InOrder, Within
<1> QED
  BY <1>2, <1>3 DEF OnTheWay

\* Lines that are ahead of a batch, and behind what was received, are received.
LEMMA ReceivedIs ==
    ASSUME NEW r \in Seq(Nat), NEW t \in Seq(Nat)
    PROVE  /\ r \o t \in Seq(Nat)
           /\ \A k \in DOMAIN (r \o t) : \/ k \in DOMAIN r /\ (r \o t)[k] = r[k]
                                         \/ k - Len(r) \in DOMAIN t /\ (r \o t)[k] = t[k - Len(r)]
           /\ \A l : Has(r \o t, l) <=> Has(r, l) \/ Has(t, l)
<1> DEFINE u == r \o t
           m == Len(r)
           n == Len(t)
<1>1. m \in Nat /\ n \in Nat /\ DOMAIN r = 1 .. m /\ DOMAIN t = 1 .. n
  OBVIOUS
<1>2. /\ u \in Seq(Nat) /\ DOMAIN u = 1 .. m + n
      /\ \A k \in 1 .. m + n : u[k] = IF k <= m THEN r[k] ELSE t[k - m]
  OBVIOUS
<1> HIDE DEF u, m, n
<1>3. ASSUME NEW k \in DOMAIN u PROVE (k \in DOMAIN r /\ u[k] = r[k]) \/ (k - m \in DOMAIN t /\ u[k] = t[k - m])
  <2>1. k \in 1 .. m + n /\ u[k] = IF k <= m THEN r[k] ELSE t[k - m]
    BY <1>2
  <2>2. (k <= m /\ k \in 1 .. m) \/ (~(k <= m) /\ k - m \in 1 .. n)
    BY <1>1, <2>1
  <2> QED
    BY <1>1, <2>1, <2>2
<1>4. \A k \in DOMAIN r : k \in DOMAIN u /\ u[k] = r[k]
  BY <1>1, <1>2
<1>5. \A k \in DOMAIN t : k + m \in DOMAIN u /\ u[k + m] = t[k]
  BY <1>1, <1>2
<1>6. \A l : Has(u, l) <=> Has(r, l) \/ Has(t, l)
  BY <1>3, <1>4, <1>5 DEF Has
<1> QED
  BY <1>2, <1>3, <1>6 DEF u, m

\* A batch is received that is behind what was, and ahead of what comes.
LEMMA JoinOnTheWay ==
    ASSUME NEW lost \in BOOLEAN, NEW n, NEW r, NEW s, NEW b, OnTheWay(lost, n, r, s, b),
           NEW t \in Seq(Nat), Within(t, n), InOrder(lost, t), Ahead(lost, r, t),
           Ahead(lost, t, b), \A i \in DOMAIN s : Ahead(lost, t, s[i])
    PROVE  OnTheWay(lost, n, r \o t, s, b)
<1> DEFINE u == r \o t
           m == Len(r)
<1>1. /\ r \in Seq(Nat) /\ m \in Nat /\ DOMAIN r = 1 .. m /\ Len(t) \in Nat /\ DOMAIN t = 1 .. Len(t)
      /\ DOMAIN u \subseteq Nat
  BY ReceivedIs DEF OnTheWay
<1>2. /\ u \in Seq(Nat)
      /\ \A k \in DOMAIN u : (k \in DOMAIN r /\ u[k] = r[k]) \/ (k - m \in DOMAIN t /\ u[k] = t[k - m])
  BY <1>1, ReceivedIs
<1> HIDE DEF u, m
<1>3. Within(u, n)
  BY <1>2 DEF Within, OnTheWay
<1>4. \A v : Ahead(lost, r, v) /\ Ahead(lost, t, v) => Ahead(lost, u, v)
  BY <1>2 DEF Ahead
<1>5. InOrder(lost, u)
  <2> SUFFICES ASSUME NEW j \in DOMAIN u, NEW k \in DOMAIN u, j < k PROVE Apart(lost, u[j], u[k])
    BY DEF InOrder
  <2>1. CASE k \in DOMAIN r /\ u[k] = r[k]
    <3>1. j \in DOMAIN r /\ u[j] = r[j]
      BY <1>1, <1>2, <2>1
    <3> QED
      BY <2>1, <3>1 DEF InOrder, OnTheWay
  <2>2. CASE k - m \in DOMAIN t /\ u[k] = t[k - m]
    <3>1. CASE j \in DOMAIN r /\ u[j] = r[j]
      BY <2>2, <3>1 DEF Ahead
    <3>2. CASE j - m \in DOMAIN t /\ u[j] = t[j - m]
      <4>1. j - m < k - m
        BY <1>1
      <4> QED
        BY <2>2, <3>2, <4>1 DEF InOrder
    <3> QED
      BY <1>2, <3>1, <3>2
  <2> QED
    BY <1>2, <2>1, <2>2
<1> QED
  BY <1>2, <1>3, <1>4, <1>5 DEF OnTheWay, u

\* The oldest batch that was sent is received.
LEMMA ReceiveOnTheWay ==
    ASSUME NEW lost \in BOOLEAN, NEW n, NEW r, NEW s, NEW b, OnTheWay(lost, n, r, s, b), s # <<>>
    PROVE  /\ OnTheWay(lost, n, r \o Head(s), Tail(s), b)
           /\ Head(s) \in Seq(Nat) /\ Within(Head(s), n) /\ InOrder(lost, Head(s)) /\ Ahead(lost, r, Head(s))
           /\ \A l : Holds(s, b, l) <=> Has(Head(s), l) \/ Holds(Tail(s), b, l)
<1> DEFINE h == Head(s)
           t == Tail(s)
           m == Len(s)
<1>1. s \in Seq(Seq(Nat)) /\ m \in Nat /\ DOMAIN s = 1 .. m /\ m # 0
  BY DEF OnTheWay
<1>2. /\ h = s[1] /\ h \in Seq(Nat) /\ t \in Seq(Seq(Nat)) /\ DOMAIN t = 1 .. m - 1
      /\ \A i \in 1 .. m - 1 : t[i] = s[i + 1]
  BY <1>1
<1> HIDE DEF h, t, m
<1>3. 1 \in DOMAIN s /\ \A i \in DOMAIN t : i \in Nat /\ i + 1 \in DOMAIN s /\ 1 < i + 1 /\ t[i] = s[i + 1]
  <2>1. 1 \in DOMAIN s
    BY <1>1
  <2>2. \A i \in 1 .. m - 1 : i \in Nat /\ i + 1 \in 1 .. m /\ 1 < i + 1
    BY <1>1
  <2> QED
    BY <1>1, <1>2, <2>1, <2>2
<1>4. /\ Within(h, n) /\ InOrder(lost, h) /\ Ahead(lost, r, h) /\ Ahead(lost, h, b)
      /\ \A i \in DOMAIN t : Ahead(lost, h, t[i])
  BY <1>2, <1>3 DEF OnTheWay
<1>5. \A i, j \in DOMAIN t : i < j => Ahead(lost, t[i], t[j])
  <2> SUFFICES ASSUME NEW i \in DOMAIN t, NEW j \in DOMAIN t, i < j PROVE Ahead(lost, t[i], t[j])
    OBVIOUS
  <2>1. i + 1 < j + 1
    BY <1>3
  <2> QED
    BY <1>3, <2>1 DEF OnTheWay
<1>6. OnTheWay(lost, n, r, t, b)
  BY <1>2, <1>3, <1>5 DEF OnTheWay
<1>7. OnTheWay(lost, n, r \o h, t, b)
  BY <1>2, <1>4, <1>6, JoinOnTheWay
<1>8. ASSUME NEW i \in DOMAIN s PROVE i = 1 \/ (i - 1 \in DOMAIN t /\ t[i - 1] = s[i])
  <2>1. i = 1 \/ (i - 1 \in 1 .. m - 1 /\ (i - 1) + 1 = i)
    BY <1>1
  <2> QED
    BY <1>2, <2>1
<1>9. \A l : Holds(s, b, l) <=> Has(h, l) \/ Holds(t, b, l)
  BY <1>2, <1>3, <1>8 DEF Holds
<1> QED
  BY <1>2, <1>4, <1>7, <1>9 DEF h, t

\* Order lost, another forwarder's lines may be received in between.
LEMMA OtherReceives ==
    ASSUME NEW n, NEW r, NEW s, NEW b, OnTheWay(TRUE, n, r, s, b),
           NEW t \in Seq(Nat), Within(t, n), InOrder(TRUE, t), Ahead(TRUE, r, t),
           \A l : ~(Has(t, l) /\ Holds(s, b, l))
    PROVE  OnTheWay(TRUE, n, r \o t, s, b)
<1>1. Ahead(TRUE, t, b) /\ \A i \in DOMAIN s : Ahead(TRUE, t, s[i])
  BY DEF Ahead, Apart, Holds, Has
<1> QED
  BY <1>1, JoinOnTheWay

-----------------------------------------------------------------------------
(* What holds of the lines of every run, wherever they are.                *)

Pcs == {"none", "connect", "stream", "broken", "closing", "wait", "ending"}
Forwarder == [pc : Pcs, run : Nat, batch : Seq(Nat), cancelled : BOOLEAN]

ForwardTypes ==
    /\ run \in 0 .. MaxRuns /\ running \in BOOLEAN /\ (running => run # 0) /\ evicted \in BOOLEAN
    /\ written \in [Runs -> Nat] /\ chan \in [Runs -> Seq(Nat)] /\ got \in [Runs -> Seq(Nat)]
    /\ fwd \in [Forwarders -> Forwarder] /\ wire \in [Forwarders -> Seq(Seq(Nat))]
    /\ served \subseteq 1 .. run

\* A channel has the last lines of its run; the others were taken from it.
Taken(g) == written[g] - Len(chan[g])
ChannelInv ==
    \A g \in Runs : /\ Len(chan[g]) <= written[g] /\ Len(chan[g]) <= ChanCap
                    /\ \A k \in DOMAIN chan[g] : chan[g][k] = Taken(g) + k

\* What a forwarder has at each of its lines, and what it has seen.
Drained(g) == Closed(g) /\ chan[g] = <<>>
Life(f) ==
    /\ fwd[f].pc = "none" => fwd[f].run = 0
    /\ fwd[f].pc # "none" => fwd[f].run \in served
    /\ fwd[f].pc \notin {"stream", "broken"} => fwd[f].batch = <<>>
    /\ fwd[f].pc \notin {"stream", "closing"} => wire[f] = <<>>
    /\ fwd[f].pc = "broken" \/ fwd[f].cancelled => fwd[f].run \in cut
    /\ fwd[f].pc \in {"closing", "ending"} => fwd[f].run \in cut \/ Drained(fwd[f].run)
LifeInv == \A f \in Forwarders : Life(f)

Path(f) == OnTheWay(evicted, Taken(fwd[f].run), got[fwd[f].run], wire[f], fwd[f].batch)
HasLine(f, l) == Holds(wire[f], fwd[f].batch, l)

\* What was received and what is with a forwarder is in order, and no line is with two.
PathInv ==
    /\ \A g \in Runs : OnTheWay(evicted, Taken(g), got[g], <<>>, <<>>)
    /\ \A f \in Forwarders : fwd[f].pc # "none" => Path(f)
    /\ \A e, f \in Forwarders : e # f /\ fwd[e].pc # "none" /\ fwd[e].run = fwd[f].run
                                   => \A l : ~(HasLine(e, l) /\ HasLine(f, l))

\* Of a run that nothing was cut from, every line that was taken is received or with
\* a forwarder, and the last forwarder goes when no more can come.
Whole(g) ==
    /\ \A l \in 1 .. Taken(g) : Has(got[g], l) \/ \E f \in Forwarders : fwd[f].run = g /\ HasLine(f, l)
    /\ (\E f \in Forwarders : fwd[f].run = g) \/ Drained(g)
WholeInv == \A g \in served \ cut : Whole(g)

\* Of a run without a forwarder nothing was received; lines leave its channel only when
\* it is full.
UnservedInv == \A g \in Runs \ served : got[g] = <<>> /\ (g \in cut \/ Taken(g) = 0)

WayInv == ForwardTypes /\ ChannelInv /\ LifeInv /\ PathInv /\ WholeInv /\ UnservedInv

\* The runs are numbered from 1.
LEMMA RunNumbers ==
    ASSUME WayInv
    PROVE  /\ run \in Nat /\ run <= MaxRuns /\ served \subseteq Runs /\ \A g \in served : g # 0 /\ g <= run
           /\ \A f \in Forwarders : fwd[f].pc # "none" <=> fwd[f].run # 0
           /\ \A f \in Forwarders : fwd[f].pc # "none" => fwd[f].run \in Runs
           /\ \A g \in Runs : /\ g \in Nat \ {0} /\ written[g] \in Nat /\ Len(chan[g]) \in Nat
                              /\ Taken(g) \in Nat /\ Taken(g) + Len(chan[g]) = written[g]
                              /\ DOMAIN chan[g] = 1 .. Len(chan[g])
<1> USE ForwarderAssumption
<1>1. run \in Nat /\ run <= MaxRuns /\ served \subseteq Runs /\ \A g \in served : g # 0 /\ g <= run
  BY DEF WayInv, ForwardTypes, Runs
<1>2. \A f \in Forwarders : fwd[f].pc # "none" <=> fwd[f].run # 0
  BY <1>1 DEF WayInv, LifeInv, Life
<1>3. \A f \in Forwarders : fwd[f].pc # "none" => fwd[f].run \in Runs
  BY <1>1 DEF WayInv, LifeInv, Life
<1>4. ASSUME NEW g \in Runs
      PROVE  /\ g \in Nat \ {0} /\ written[g] \in Nat /\ Len(chan[g]) \in Nat
             /\ Taken(g) \in Nat /\ Taken(g) + Len(chan[g]) = written[g]
             /\ DOMAIN chan[g] = 1 .. Len(chan[g])
  <2>1. written[g] \in Nat /\ chan[g] \in Seq(Nat) /\ Len(chan[g]) <= written[g]
    BY DEF WayInv, ForwardTypes, ChannelInv
  <2>2. Len(chan[g]) \in Nat /\ DOMAIN chan[g] = 1 .. Len(chan[g])
    BY <2>1, LenProperties
  <2>3. g \in Nat \ {0}
    BY DEF Runs
  <2> QED
    BY <2>1, <2>2, <2>3 DEF Taken
<1> QED
  BY <1>1, <1>2, <1>3, <1>4

\* A forwarder goes to another line, with a batch and with what it has sent.
Moves(f, p, b, w) ==
    /\ fwd' \in [Forwarders -> Forwarder] /\ wire' \in [Forwarders -> Seq(Seq(Nat))]
    /\ fwd'[f].pc = p /\ fwd'[f].batch = b /\ wire'[f] = w
    /\ fwd'[f].run = fwd[f].run /\ fwd'[f].cancelled = fwd[f].cancelled
    /\ \A e \in Forwarders : e # f => fwd'[e] = fwd[e] /\ wire'[e] = wire[e]

LEMMA MovesTo ==
    ASSUME ForwardTypes, NEW f \in Forwarders, NEW p \in Pcs, NEW b \in Seq(Nat), NEW w \in Seq(Seq(Nat)),
           \/ fwd' = [fwd EXCEPT ![f].pc = p, ![f].batch = b]
           \/ fwd' = [fwd EXCEPT ![f].pc = p] /\ b = fwd[f].batch
           \/ fwd' = [fwd EXCEPT ![f].batch = b] /\ p = fwd[f].pc,
           wire' = [wire EXCEPT ![f] = w] \/ (wire' = wire /\ w = wire[f])
    PROVE  Moves(f, p, b, w)
<1> DEFINE r == [fwd[f] EXCEPT !.pc = p, !.batch = b]
<1>1. fwd \in [Forwarders -> Forwarder] /\ fwd[f] \in Forwarder /\ wire \in [Forwarders -> Seq(Seq(Nat))]
  BY DEF ForwardTypes
<1>2. r \in Forwarder /\ r.pc = p /\ r.batch = b /\ r.run = fwd[f].run /\ r.cancelled = fwd[f].cancelled
  BY <1>1 DEF Forwarder
<1>3. fwd' = [fwd EXCEPT ![f] = r]
  <2>1. CASE fwd' = [fwd EXCEPT ![f].pc = p, ![f].batch = b]
    BY <1>1, <2>1
  <2>2. CASE fwd' = [fwd EXCEPT ![f].pc = p] /\ b = fwd[f].batch
    <3>1. [fwd[f] EXCEPT !.pc = p] = r
      BY <1>1, <2>2 DEF Forwarder
    <3> QED
      BY <2>2, <3>1
  <2>3. CASE fwd' = [fwd EXCEPT ![f].batch = b] /\ p = fwd[f].pc
    <3>1. [fwd[f] EXCEPT !.batch = b] = r
      BY <1>1, <2>3 DEF Forwarder
    <3> QED
      BY <2>3, <3>1
  <2> QED
    BY <2>1, <2>2, <2>3
<1> HIDE DEF r
<1>4. fwd' \in [Forwarders -> Forwarder] /\ fwd'[f] = r /\ \A e \in Forwarders : e # f => fwd'[e] = fwd[e]
  BY <1>1, <1>2, <1>3
<1>5. wire' \in [Forwarders -> Seq(Seq(Nat))] /\ wire'[f] = w /\ \A e \in Forwarders : e # f => wire'[e] = wire[e]
  BY <1>1
<1> QED
  BY <1>2, <1>4, <1>5 DEF Moves

-----------------------------------------------------------------------------
(* The steps of a forwarder.                                               *)

\* What a forwarder may do to what it has, while the run and what was received stay.
MayMove(f, p, b, w) ==
    LET g == fwd[f].run IN
    /\ fwd[f].pc # "none" /\ p # "none"
    /\ OnTheWay(evicted, Taken(g), got[g], w, b)
    /\ \A l : Holds(w, b, l) => HasLine(f, l)
    /\ g \notin cut' => \A l : HasLine(f, l) => Holds(w, b, l)
    /\ p \notin {"stream", "broken"} => b = <<>>
    /\ p \notin {"stream", "closing"} => w = <<>>
    /\ p = "broken" => g \in cut'
    /\ p \in {"closing", "ending"} => g \in cut' \/ Drained(g)

LEMMA MoveStep ==
    ASSUME WayInv, NEW f \in Forwarders, NEW p, NEW b, NEW w, Moves(f, p, b, w), MayMove(f, p, b, w),
           UNCHANGED <<process, chan, got, served, evicted>>, cut \subseteq cut'
    PROVE  WayInv'
<1> DEFINE g == fwd[f].run
<1>1. UNCHANGED <<run, running, written, chan, got, served, evicted>>
  BY DEF process
<1>2. ForwardTypes' /\ ChannelInv'
  <2>1. \A h : Taken(h)' = Taken(h)
    BY <1>1 DEF Taken
  <2> QED
    BY <1>1, <2>1 DEF WayInv, ForwardTypes, ChannelInv, Moves
<1>3. \A h : Taken(h)' = Taken(h) /\ (Closed(h)' <=> Closed(h)) /\ (Drained(h)' <=> Drained(h))
  BY <1>1 DEF Taken, Closed, Drained
<1>4. \A e \in Forwarders : fwd'[e].run = fwd[e].run /\ (fwd'[e].pc # "none" <=> fwd[e].pc # "none")
  BY DEF Moves, MayMove
<1>5. \A e \in Forwarders : e # f => fwd'[e] = fwd[e] /\ wire'[e] = wire[e]
  BY DEF Moves
<1>6. LifeInv'
  <2>1. ASSUME NEW e \in Forwarders, e # f PROVE Life(e)'
    <3>1. Life(e) /\ fwd'[e] = fwd[e] /\ wire'[e] = wire[e]
      BY <1>5, <2>1 DEF WayInv, LifeInv
    <3> QED
      BY <1>1, <1>3, <3>1 DEF Life
  <2>2. Life(f)'
    <3>1. Life(f) /\ fwd'[f].pc = p /\ fwd'[f].batch = b /\ wire'[f] = w
          /\ fwd'[f].run = fwd[f].run /\ fwd'[f].cancelled = fwd[f].cancelled
      BY DEF WayInv, LifeInv, Moves
    <3>2. fwd[f].run \in served
      BY <3>1 DEF Life, MayMove
    <3>3. /\ p # "none" /\ (p \notin {"stream", "broken"} => b = <<>>) /\ (p \notin {"stream", "closing"} => w = <<>>)
          /\ (p = "broken" => fwd[f].run \in cut')
          /\ (p \in {"closing", "ending"} => fwd[f].run \in cut' \/ Drained(fwd[f].run))
      BY DEF MayMove
    <3>4. fwd[f].cancelled => fwd[f].run \in cut'
      BY <3>1 DEF Life
    <3> QED
      BY <1>1, <1>3, <3>1, <3>2, <3>3, <3>4 DEF Life
  <2> QED
    BY <2>1, <2>2 DEF LifeInv
<1>7. \A l : /\ HasLine(f, l)' => HasLine(f, l)
             /\ \A e \in Forwarders : e # f => (HasLine(e, l)' <=> HasLine(e, l))
             /\ g \notin cut' => (HasLine(f, l) => HasLine(f, l)')
  <2>1. \A l : HasLine(f, l)' <=> Holds(w, b, l)
    BY DEF HasLine, Moves
  <2>2. \A l : \A e \in Forwarders : e # f => (HasLine(e, l)' <=> HasLine(e, l))
    BY <1>5 DEF HasLine
  <2> QED
    BY <2>1, <2>2 DEF MayMove
<1>8. PathInv'
  <2>1. \A h \in Runs : OnTheWay(evicted', Taken(h)', got'[h], <<>>, <<>>)
    BY <1>1, <1>3 DEF WayInv, PathInv
  <2>2. ASSUME NEW e \in Forwarders, fwd'[e].pc # "none" PROVE Path(e)'
    <3>1. CASE e # f
      <4>1. Path(e) /\ fwd'[e] = fwd[e] /\ wire'[e] = wire[e]
        BY <1>5, <2>2, <3>1 DEF WayInv, PathInv
      <4> QED
        BY <1>1, <1>3, <4>1 DEF Path
    <3>2. CASE e = f
      BY <1>1, <1>3, <3>2 DEF Path, Moves, MayMove
    <3> QED
      BY <3>1, <3>2
  <2>3. ASSUME NEW d \in Forwarders, NEW e \in Forwarders, d # e, fwd'[d].pc # "none", fwd'[d].run = fwd'[e].run
        PROVE  \A l : ~(HasLine(d, l)' /\ HasLine(e, l)')
    <3>1. \A l : ~(HasLine(d, l) /\ HasLine(e, l))
      BY <1>4, <2>3 DEF WayInv, PathInv
    <3>2. \A l : \A i \in Forwarders : HasLine(i, l)' => HasLine(i, l)
      BY <1>7
    <3> QED
      BY <3>1, <3>2
  <2> QED
    BY <2>1, <2>2, <2>3 DEF PathInv
<1>9. ASSUME NEW h \in served' \ cut' PROVE Whole(h)'
  <2>1. Whole(h) /\ h \in served
    BY <1>1, <1>9 DEF WayInv, WholeInv
  <2>2. \A l : \A e \in Forwarders : fwd[e].run = h /\ HasLine(e, l) => HasLine(e, l)'
    BY <1>7, <1>9
  <2>3. \A l \in 1 .. Taken(h) : Has(got'[h], l) \/ \E e \in Forwarders : fwd'[e].run = h /\ HasLine(e, l)'
    BY <1>1, <1>4, <2>1, <2>2 DEF Whole
  <2>4. (\E e \in Forwarders : fwd'[e].run = h) \/ Drained(h)'
    BY <1>3, <1>4, <2>1 DEF Whole
  <2> QED
    BY <1>3, <2>3, <2>4 DEF Whole
<1>10. UnservedInv'
  BY <1>1, <1>3 DEF WayInv, UnservedInv
<1> QED
  BY <1>2, <1>6, <1>8, <1>9, <1>10 DEF WayInv, WholeInv

\* The steps of a forwarder between its channel and its stream.
LEMMA QuietSteps ==
    ASSUME WayInv, NEW f \in Forwarders,
           \/ OpenStream(f) \/ OpenFails(f) \/ Flush(f) \/ ChannelClosed(f)
           \/ CloseAndRecv(f) \/ Cancelled(f) \/ Retry(f) \/ Break(f)
    PROVE  WayInv'
<1> DEFINE g == fwd[f].run
           b == fwd[f].batch
           w == wire[f]
           p == fwd[f].pc
<1>1. /\ ForwardTypes /\ Life(f) /\ fwd[f] \in Forwarder /\ wire[f] \in Seq(Seq(Nat)) /\ evicted \in BOOLEAN
      /\ b \in Seq(Nat) /\ w \in Seq(Seq(Nat)) /\ p \in Pcs
  BY DEF WayInv, ForwardTypes, LifeInv, Forwarder
<1>2. p # "none" => OnTheWay(evicted, Taken(g), got[g], w, b)
  BY DEF WayInv, PathInv, Path
<1>3. <<>> \in Seq(Nat) /\ <<>> \in Seq(Seq(Nat))
  BY NoLines
<1>4. \A x \in {"connect", "stream", "broken", "closing", "wait", "ending"} : x \in Pcs /\ x # "none"
  BY DEF Pcs
\* Most go on without anything under way, or leave it in the stream.
<1>5. ASSUME NEW x \in {"connect", "stream", "wait"}, p \in {"connect", "wait"}, Goto(f, x), wire' = wire,
             UNCHANGED <<process, chan, got, served, evicted, cut>>
      PROVE  WayInv'
  <2>1. b = <<>> /\ w = <<>>
    BY <1>1, <1>5 DEF Life
  <2>2. Moves(f, x, <<>>, w)
    BY <1>1, <1>3, <1>4, <1>5, MovesTo DEF Goto
  <2>3. MayMove(f, x, <<>>, w)
    BY <1>2, <1>4, <1>5, <2>1 DEF MayMove, HasLine
  <2> QED
    BY <1>5, <2>2, <2>3, MoveStep
\* A stream is gone with what is under way.
<1>6. ASSUME NEW x \in {"wait", "ending"}, p # "none", g \in cut, Goto(f, x),
             wire' = [wire EXCEPT ![f] = <<>>] \/ (wire' = wire /\ w = <<>>),
             UNCHANGED <<process, chan, got, served, evicted, cut>>
      PROVE  WayInv'
  <2>1. Moves(f, x, <<>>, <<>>)
    BY <1>1, <1>3, <1>4, <1>6, MovesTo DEF Goto
  <2>2. OnTheWay(evicted, Taken(g), got[g], <<>>, <<>>)
    BY <1>1, <1>2, <1>6, LoseOnTheWay
  <2>3. MayMove(f, x, <<>>, <<>>)
    BY <1>4, <1>6, <2>2, NoLines DEF MayMove
  <2> QED
    BY <1>6, <2>1, <2>3, MoveStep
<1>7. CASE OpenStream(f)
  <2>1. UNCHANGED <<process, chan, got, served, evicted, cut, wire>> /\ p = "connect"
        /\ Goto(f, IF fwd[f].cancelled THEN "ending" ELSE "stream")
    BY <1>7 DEF OpenStream, hist
  <2>2. CASE fwd[f].cancelled
    <3>1. g \in cut /\ w = <<>>
      BY <1>1, <2>1, <2>2 DEF Life
    <3> QED
      BY <1>6, <2>1, <2>2, <3>1
  <2>3. CASE ~fwd[f].cancelled
    BY <1>5, <2>1, <2>3
  <2> QED
    BY <2>2, <2>3
<1>8. CASE OpenFails(f)
  <2>1. UNCHANGED <<process, chan, got, served, evicted, cut, wire>> /\ p = "connect" /\ Goto(f, "wait")
    BY <1>8 DEF OpenFails, hist
  <2> QED
    BY <1>5, <2>1
<1>9. CASE Retry(f)
  <2>1. UNCHANGED <<process, chan, got, served, evicted, cut, wire>> /\ p = "wait" /\ Goto(f, "connect")
    BY <1>9 DEF Retry, hist
  <2> QED
    BY <1>5, <2>1
<1>10. CASE Cancelled(f)
  <2>1. UNCHANGED <<process, chan, got, served, evicted, cut>> /\ wire' = [wire EXCEPT ![f] = <<>>]
        /\ Goto(f, "ending") /\ fwd[f].cancelled /\ p # "none"
    BY <1>10 DEF Cancelled, hist, Streaming
  <2>2. g \in cut
    BY <1>1, <2>1 DEF Life
  <2> QED
    BY <1>6, <2>1, <2>2
<1>11. CASE CloseAndRecv(f)
  <2>1. UNCHANGED <<process, chan, got, served, evicted, cut, wire>> /\ p = "closing" /\ w = <<>> /\ Goto(f, "ending")
    BY <1>11 DEF CloseAndRecv, hist
  <2>2. b = <<>> /\ (g \in cut \/ Drained(g))
    BY <1>1, <2>1 DEF Life
  <2>3. Moves(f, "ending", <<>>, <<>>)
    BY <1>1, <1>3, <1>4, <2>1, MovesTo DEF Goto
  <2>4. MayMove(f, "ending", <<>>, <<>>)
    BY <1>2, <2>1, <2>2 DEF MayMove, HasLine
  <2> QED
    BY <2>1, <2>3, <2>4, MoveStep
<1>12. CASE Flush(f)
  <2>1. UNCHANGED <<process, chan, got, served, evicted, cut>> /\ p \in {"stream", "broken"} /\ SendBatch(f, b)
    BY <1>12 DEF Flush, hist, Streaming
  <2>2. CASE p = "stream"
    <3>1. wire' = [wire EXCEPT ![f] = Append(w, b)] /\ fwd' = [fwd EXCEPT ![f].batch = <<>>]
      BY <2>1, <2>2 DEF SendBatch, Sent
    <3>2. Append(w, b) \in Seq(Seq(Nat))
      BY <1>1
    <3>3. Moves(f, p, <<>>, Append(w, b))
      BY <1>1, <1>3, <3>1, <3>2, MovesTo
    <3>4. /\ OnTheWay(evicted, Taken(g), got[g], Append(w, b), <<>>)
          /\ \A l : Holds(Append(w, b), <<>>, l) <=> HasLine(f, l)
      BY <1>1, <1>2, <2>2, SendOnTheWay DEF HasLine
    <3>5. MayMove(f, p, <<>>, Append(w, b))
      BY <2>2, <3>4 DEF MayMove
    <3> QED
      BY <2>1, <3>3, <3>5, MoveStep
  <2>3. CASE p = "broken"
    <3>1. Goto(f, "wait") /\ wire' = wire
      BY <2>1, <2>3 DEF SendBatch
    <3>2. g \in cut /\ w = <<>>
      BY <1>1, <2>3 DEF Life
    <3> QED
      BY <1>6, <2>1, <2>3, <3>1, <3>2
  <2> QED
    BY <2>1, <2>2, <2>3
<1>13. CASE ChannelClosed(f)
  <2>1. UNCHANGED <<process, chan, got, served, evicted, cut>> /\ p \in {"stream", "broken"} /\ Drained(g)
        /\ wire' = (IF p = "stream" /\ b # <<>> THEN [wire EXCEPT ![f] = Append(w, b)] ELSE wire)
        /\ Goto(f, IF p = "stream" THEN "closing" ELSE "ending")
    BY <1>13 DEF ChannelClosed, hist, Streaming, Drained
  <2>2. CASE p = "broken"
    <3>1. g \in cut /\ w = <<>>
      BY <1>1, <2>2 DEF Life
    <3> QED
      BY <1>6, <2>1, <2>2, <3>1
  <2>3. CASE p = "stream" /\ b # <<>>
    <3>1. wire' = [wire EXCEPT ![f] = Append(w, b)] /\ Goto(f, "closing")
      BY <2>1, <2>3
    <3>2. Append(w, b) \in Seq(Seq(Nat))
      BY <1>1
    <3>3. Moves(f, "closing", <<>>, Append(w, b))
      BY <1>1, <1>3, <1>4, <3>1, <3>2, MovesTo DEF Goto
    <3>4. /\ OnTheWay(evicted, Taken(g), got[g], Append(w, b), <<>>)
          /\ \A l : Holds(Append(w, b), <<>>, l) <=> HasLine(f, l)
      BY <1>1, <1>2, <2>3, SendOnTheWay DEF HasLine
    <3>5. MayMove(f, "closing", <<>>, Append(w, b))
      BY <2>1, <2>3, <3>4 DEF MayMove
    <3> QED
      BY <2>1, <3>3, <3>5, MoveStep
  <2>4. CASE p = "stream" /\ b = <<>>
    <3>1. wire' = wire /\ Goto(f, "closing")
      BY <2>1, <2>4
    <3>2. Moves(f, "closing", <<>>, w)
      BY <1>1, <1>3, <1>4, <3>1, MovesTo DEF Goto
    <3>3. MayMove(f, "closing", <<>>, w)
      BY <1>2, <2>1, <2>4 DEF MayMove, HasLine
    <3> QED
      BY <2>1, <3>2, <3>3, MoveStep
  <2> QED
    BY <2>1, <2>2, <2>3, <2>4
<1>14. CASE Break(f)
  <2> DEFINE x == IF p = "stream" THEN "broken" ELSE "ending"
  <2>1. UNCHANGED <<process, chan, got, served, evicted>> /\ wire' = [wire EXCEPT ![f] = <<>>]
        /\ cut' = cut \cup {g} /\ fwd' = [fwd EXCEPT ![f].pc = x] /\ p \in {"stream", "closing"}
    BY <1>14 DEF Break, hist
  <2>2. x \in Pcs /\ x # "none" /\ (p = "closing" => b = <<>>) /\ (p = "stream" => x = "broken")
        /\ (p = "closing" => x = "ending")
    BY <1>1, <1>4, <2>1 DEF Life
  <2>3. Moves(f, x, b, <<>>)
    BY <1>1, <1>3, <2>1, <2>2, MovesTo
  <2>4. OnTheWay(evicted, Taken(g), got[g], <<>>, b) /\ \A l : Holds(<<>>, b, l) => HasLine(f, l)
    BY <1>1, <1>2, <2>1, LoseOnTheWay DEF HasLine
  <2>5. MayMove(f, x, b, <<>>)
    BY <2>1, <2>2, <2>4 DEF MayMove
  <2> QED
    BY <2>1, <2>3, <2>5, MoveStep
<1> QED
  BY <1>7, <1>8, <1>9, <1>10, <1>11, <1>12, <1>13, <1>14

\* The lines under way are numbered from 1 to the last one taken.
LEMMA UnderWay ==
    ASSUME NEW lost, NEW n, NEW r, NEW s, NEW b, OnTheWay(lost, n, r, s, b)
    PROVE  \A l : Has(r, l) \/ Holds(s, b, l) => l \in 1 .. n
  BY DEF OnTheWay, Within, Has, Holds

\* A line is taken from the channel of g: it is with the forwarder then, or lost with
\* its batch.
MayTake(f, p, b, w) ==
    LET g == fwd[f].run IN
    /\ fwd[f].pc # "none" /\ p \in {"stream", "broken", "wait"}
    /\ OnTheWay(evicted, Taken(g) + 1, got[g], w, b)
    /\ \A l : Holds(w, b, l) => HasLine(f, l) \/ l = Taken(g) + 1
    /\ g \notin cut => \A l : HasLine(f, l) \/ l = Taken(g) + 1 => Holds(w, b, l)
    /\ p = "wait" => b = <<>>
    /\ p # "stream" => w = <<>> /\ g \in cut

LEMMA TakeStep ==
    ASSUME WayInv, NEW f \in Forwarders, NEW p, NEW b, NEW w, Moves(f, p, b, w), MayTake(f, p, b, w),
           chan[fwd[f].run] # <<>>, chan' = [chan EXCEPT ![fwd[f].run] = Tail(@)],
           UNCHANGED <<process, got, served, evicted, cut>>,
           NEW g, g = fwd[f].run, NEW n, n = Taken(g)
    PROVE  WayInv'
<1> DEFINE c == chan[g]
           m == Len(c)
<1>1. UNCHANGED <<run, running, written, got, served, evicted, cut>>
  BY DEF process
<1>2. /\ g \in Runs /\ c \in Seq(Nat) /\ c # <<>> /\ m \in Nat /\ n \in Nat /\ n + m = written[g]
      /\ chan \in [Runs -> Seq(Nat)] /\ m <= ChanCap /\ DOMAIN c = 1 .. m /\ \A k \in DOMAIN c : c[k] = n + k
      /\ written[g] \in Nat /\ ChanCap \in Nat
  BY RunNumbers, ForwarderAssumption DEF WayInv, ForwardTypes, MayTake, ChannelInv
<1> DEFINE t == Tail(c)
<1>3. t \in Seq(Nat) /\ Len(t) = m - 1 /\ m >= 1 /\ DOMAIN t = 1 .. m - 1 /\ \A k \in 1 .. m - 1 : t[k] = c[k + 1]
  BY <1>2
<1>4. chan' \in [Runs -> Seq(Nat)] /\ chan'[g] = t /\ \A h \in Runs : h # g => chan'[h] = chan[h]
  BY <1>2, <1>3
<1> HIDE DEF c, m, t
<1>5. Taken(g)' = n + 1 /\ \A h \in Runs : h # g => Taken(h)' = Taken(h)
  <2>1. Taken(g)' = written[g] - Len(t)
    BY <1>1, <1>4 DEF Taken
  <2> QED
    BY <1>1, <1>2, <1>3, <1>4, <2>1 DEF Taken
<1>6. ForwardTypes'
  BY <1>1, <1>4 DEF WayInv, ForwardTypes, Moves
<1>7. ChannelInv'
  <2>1. ASSUME NEW h \in Runs, h # g
        PROVE  /\ Len(chan[h])' <= written'[h] /\ Len(chan[h])' <= ChanCap
               /\ \A k \in DOMAIN chan'[h] : chan'[h][k] = Taken(h)' + k
    BY <1>1, <1>4, <1>5, <2>1 DEF WayInv, ChannelInv
  <2>2. Len(t) <= written[g] /\ Len(t) <= ChanCap
    BY <1>2, <1>3
  <2>3. ASSUME NEW k \in DOMAIN t PROVE t[k] = (n + 1) + k
    <3>0. k \in 1 .. m - 1
      BY <1>3
    <3>1. k \in 1 .. m - 1 /\ k + 1 \in 1 .. m
      <4>1. m \in Nat
        BY <1>2
      <4> QED
        BY <3>0, <4>1
    <3>2. t[k] = n + (k + 1)
      BY <1>2, <1>3, <3>1
    <3> QED
      BY <1>2, <3>1, <3>2
  <2>4. /\ Len(chan[g])' <= written'[g] /\ Len(chan[g])' <= ChanCap
        /\ \A k \in DOMAIN chan'[g] : chan'[g][k] = Taken(g)' + k
    BY <1>1, <1>4, <1>5, <2>2, <2>3
  <2> QED
    BY <2>1, <2>4 DEF ChannelInv
<1>8. \A h \in Runs : (Closed(h)' <=> Closed(h)) /\ (Drained(h) => Drained(h)')
  <2>1. \A h \in Runs : Closed(h)' <=> Closed(h)
    BY <1>1 DEF Closed
  <2>2. ~Drained(g)
    BY <1>2 DEF Drained, c
  <2> QED
    BY <1>4, <2>1, <2>2 DEF Drained
<1>9. \A e \in Forwarders : fwd'[e].run = fwd[e].run /\ (fwd'[e].pc # "none" <=> fwd[e].pc # "none")
  BY DEF Moves, MayTake
<1>10. \A e \in Forwarders : e # f => fwd'[e] = fwd[e] /\ wire'[e] = wire[e]
  BY DEF Moves
<1>11. LifeInv'
  <2>1. ASSUME NEW e \in Forwarders, e # f PROVE Life(e)'
    <3>1. Life(e) /\ fwd'[e] = fwd[e] /\ wire'[e] = wire[e]
      BY <1>10, <2>1 DEF WayInv, LifeInv
    <3>2. fwd[e].pc # "none" => (Drained(fwd[e].run) => Drained(fwd[e].run)')
      <4>1. fwd[e].pc # "none" => fwd[e].run \in Runs
        BY RunNumbers
      <4>2. ASSUME NEW h \in Runs, h = fwd[e].run, Drained(h) PROVE Drained(fwd[e].run)'
        <5>1. h = fwd'[e].run /\ Drained(h)'
          BY <1>8, <3>1, <4>2
        <5> QED
          BY <5>1 DEF Drained, Closed
      <4> QED
        BY <4>1, <4>2
    <3> QED
      BY <1>1, <3>1, <3>2 DEF Life
  <2>2. Life(f)'
    <3>1. Life(f) /\ fwd'[f].pc = p /\ fwd'[f].batch = b /\ wire'[f] = w
          /\ fwd'[f].run = fwd[f].run /\ fwd'[f].cancelled = fwd[f].cancelled
      BY DEF WayInv, LifeInv, Moves
    <3>2. fwd[f].run \in served /\ (fwd[f].cancelled => fwd[f].run \in cut)
      BY <3>1 DEF Life, MayTake
    <3>3. p \in {"stream", "broken", "wait"} /\ (p = "wait" => b = <<>>) /\ (p # "stream" => w = <<>> /\ fwd[f].run \in cut)
      BY DEF MayTake
    <3> QED
      BY <1>1, <3>1, <3>2, <3>3 DEF Life
  <2> QED
    BY <2>1, <2>2 DEF LifeInv
<1>12. \A l : /\ HasLine(f, l)' => HasLine(f, l) \/ l = n + 1
              /\ \A e \in Forwarders : e # f => (HasLine(e, l)' <=> HasLine(e, l))
              /\ g \notin cut => (HasLine(f, l) \/ l = n + 1 => HasLine(f, l)')
  <2>1. \A l : HasLine(f, l)' <=> Holds(w, b, l)
    BY DEF HasLine, Moves
  <2>2. \A l : \A e \in Forwarders : e # f => (HasLine(e, l)' <=> HasLine(e, l))
    BY <1>10 DEF HasLine
  <2> QED
    BY <2>1, <2>2 DEF MayTake
<1>13. \A r, s, x : OnTheWay(evicted, n, r, s, x) => OnTheWay(evicted, n + 1, r, s, x)
  <2>1. n + 1 \in Nat /\ n <= n + 1 /\ evicted \in BOOLEAN
    BY <1>2 DEF WayInv, ForwardTypes
  <2> QED
    BY <2>1, MoreOnTheWay
<1>14. PathInv'
  <2>1. ASSUME NEW h \in Runs PROVE OnTheWay(evicted', Taken(h)', got'[h], <<>>, <<>>)
    <3>1. OnTheWay(evicted, Taken(h), got[h], <<>>, <<>>)
      BY DEF WayInv, PathInv
    <3>2. CASE h = g
      BY <1>1, <1>5, <1>13, <3>1, <3>2
    <3>3. CASE h # g
      BY <1>1, <1>5, <3>1, <3>3
    <3> QED
      BY <3>2, <3>3
  <2>2. ASSUME NEW e \in Forwarders, fwd'[e].pc # "none" PROVE Path(e)'
    <3>1. CASE e # f
      <4>1. Path(e) /\ fwd'[e] = fwd[e] /\ wire'[e] = wire[e] /\ fwd[e].run \in Runs
        BY <1>10, <2>2, <3>1, RunNumbers DEF WayInv, PathInv
      <4>2. OnTheWay(evicted, Taken(fwd[e].run), got[fwd[e].run], wire[e], fwd[e].batch)
        BY <4>1 DEF Path
      <4>3. CASE fwd[e].run = g
        <5>1. OnTheWay(evicted, n + 1, got[g], wire[e], fwd[e].batch)
          BY <1>13, <4>2, <4>3
        <5>2. fwd'[e].run = g /\ Taken(fwd[e].run)' = n + 1
          BY <1>5, <4>1, <4>3 DEF Taken
        <5> QED
          BY <1>1, <4>1, <5>1, <5>2 DEF Path
      <4>4. CASE fwd[e].run # g
        <5>1. Taken(fwd[e].run)' = Taken(fwd[e].run)
          BY <1>1, <1>4, <4>1, <4>4 DEF Taken
        <5> QED
          BY <1>1, <4>1, <4>2, <5>1 DEF Path
      <4> QED
        BY <4>3, <4>4
    <3>2. CASE e = f
      <4>1. fwd'[f].run = g /\ Taken(fwd[f].run)' = n + 1 /\ fwd'[f].batch = b /\ wire'[f] = w
        BY <1>5 DEF Moves, Taken
      <4>2. OnTheWay(evicted, n + 1, got[g], w, b)
        BY DEF MayTake
      <4> QED
        BY <1>1, <3>2, <4>1, <4>2 DEF Path
    <3> QED
      BY <3>1, <3>2
  <2>3. ASSUME NEW d \in Forwarders, NEW e \in Forwarders, d # e, fwd'[d].pc # "none", fwd'[d].run = fwd'[e].run
        PROVE  \A l : ~(HasLine(d, l)' /\ HasLine(e, l)')
    <3>1. \A l : ~(HasLine(d, l) /\ HasLine(e, l))
      BY <1>9, <2>3 DEF WayInv, PathInv
    <3>2. ASSUME NEW i \in Forwarders, fwd[i].pc # "none", fwd[i].run = g PROVE ~HasLine(i, n + 1)
      <4>1. OnTheWay(evicted, n, got[g], wire[i], fwd[i].batch)
        BY <3>2 DEF WayInv, PathInv, Path
      <4>2. n + 1 \notin 1 .. n
        BY <1>2
      <4> QED
        BY <4>1, <4>2, UnderWay DEF HasLine
    <3>3. fwd[d].pc # "none" /\ fwd[e].pc # "none" /\ fwd[d].run = fwd[e].run
      <4>1. fwd[d].pc # "none" /\ fwd[d].run = fwd[e].run
        BY <1>9, <2>3
      <4> QED
        BY <4>1, RunNumbers
    <3>4. CASE d = f
      BY <1>12, <2>3, <3>1, <3>2, <3>3, <3>4
    <3>5. CASE e = f
      BY <1>12, <2>3, <3>1, <3>2, <3>3, <3>5
    <3>6. CASE d # f /\ e # f
      BY <1>12, <3>1, <3>6
    <3> QED
      BY <3>4, <3>5, <3>6
  <2> QED
    BY <2>1, <2>2, <2>3 DEF PathInv
<1>15. ASSUME NEW h \in served' \ cut' PROVE Whole(h)'
  <2>1. Whole(h) /\ h \in served /\ h \in Runs /\ h \notin cut
    BY <1>1, <1>15, RunNumbers DEF WayInv, WholeInv
  <2>2. \A l : \A e \in Forwarders : fwd[e].run = h /\ HasLine(e, l) => HasLine(e, l)'
    BY <1>12, <2>1
  <2>3. ASSUME NEW l \in 1 .. Taken(h) PROVE Has(got'[h], l) \/ \E e \in Forwarders : fwd'[e].run = h /\ HasLine(e, l)'
    BY <1>1, <1>9, <2>1, <2>2 DEF Whole
  <2>4. (\E e \in Forwarders : fwd'[e].run = h) \/ Drained(h)'
    BY <1>8, <1>9, <2>1 DEF Whole
  <2>5. CASE h # g
    BY <1>5, <2>1, <2>3, <2>4, <2>5 DEF Whole
  <2>6. CASE h = g
    <3>1. HasLine(f, n + 1)' /\ fwd'[f].run = g
      BY <1>9, <1>12, <2>1, <2>6
    <3>2. \A l \in 1 .. n + 1 : l \in 1 .. n \/ l = n + 1
      BY <1>2
    <3>3. \A l \in 1 .. n + 1 : Has(got'[h], l) \/ \E e \in Forwarders : fwd'[e].run = h /\ HasLine(e, l)'
      BY <2>3, <2>6, <3>1, <3>2
    <3> QED
      BY <1>5, <2>4, <2>6, <3>3 DEF Whole
  <2> QED
    BY <2>5, <2>6
<1>16. UnservedInv'
  <2>1. g \in served
    BY DEF WayInv, LifeInv, Life, MayTake
  <2> QED
    BY <1>1, <1>5, <2>1 DEF WayInv, UnservedInv
<1> QED
  BY <1>6, <1>7, <1>11, <1>14, <1>15, <1>16 DEF WayInv, WholeInv

\* TakeLine: the line joins the batch, which is sent or lost when it is full.
LEMMA TakeLineStep ==
    ASSUME WayInv, NEW f \in Forwarders, TakeLine(f) PROVE WayInv'
<1> DEFINE g == fwd[f].run
           n == Taken(g)
           c == Append(fwd[f].batch, Head(chan[g]))
           w == wire[f]
           p == fwd[f].pc
<1>1. /\ ForwardTypes /\ Life(f) /\ fwd[f] \in Forwarder /\ fwd[f].batch \in Seq(Nat) /\ w \in Seq(Seq(Nat))
      /\ evicted \in BOOLEAN /\ p \in Pcs
  BY DEF WayInv, ForwardTypes, LifeInv, Forwarder
<1>2. /\ p \in {"stream", "broken"} /\ chan[g] # <<>> /\ chan' = [chan EXCEPT ![g] = Tail(@)]
      /\ UNCHANGED <<process, got, served, evicted, cut>>
      /\ SendBatch(f, c) \/ (fwd' = [fwd EXCEPT ![f].batch = c] /\ wire' = wire)
  BY DEF TakeLine, Streaming, hist
<1>3. g \in Runs /\ n \in Nat /\ chan[g] \in Seq(Nat) /\ 1 \in DOMAIN chan[g]
  <2>1. g \in Runs
    BY <1>2, RunNumbers
  <2>2. n \in Nat /\ chan[g] \in Seq(Nat)
    BY <2>1, RunNumbers DEF WayInv, ForwardTypes
  <2> QED
    BY <1>2, <2>1, <2>2
<1>4. Head(chan[g]) = n + 1
  BY <1>3 DEF WayInv, ChannelInv
<1>5. OnTheWay(evicted, n, got[g], w, fwd[f].batch)
  BY <1>2 DEF WayInv, PathInv, Path
<1>6. /\ OnTheWay(evicted, n + 1, got[g], w, c)
      /\ \A l : Holds(w, c, l) <=> HasLine(f, l) \/ l = n + 1
  BY <1>1, <1>4, <1>5, TakeOnTheWay DEF HasLine
<1>7. c \in Seq(Nat) /\ <<>> \in Seq(Nat) /\ <<>> \in Seq(Seq(Nat))
  BY <1>6, NoLines DEF OnTheWay
<1> HIDE DEF c
<1>8. p = "broken" => g \in cut /\ w = <<>>
  BY <1>1 DEF Life
<1>9. CASE fwd' = [fwd EXCEPT ![f].batch = c] /\ wire' = wire
  <2>1. Moves(f, p, c, w)
    BY <1>1, <1>7, <1>9, MovesTo
  <2>2. MayTake(f, p, c, w)
    BY <1>2, <1>6, <1>8 DEF MayTake
  <2> QED
    BY <1>2, <2>1, <2>2, TakeStep
<1>10. CASE SendBatch(f, c) /\ p = "stream"
  <2>1. wire' = [wire EXCEPT ![f] = Append(w, c)] /\ fwd' = [fwd EXCEPT ![f].batch = <<>>]
    BY <1>10 DEF SendBatch, Sent
  <2>2. /\ OnTheWay(evicted, n + 1, got[g], Append(w, c), <<>>)
        /\ \A l : Holds(Append(w, c), <<>>, l) <=> Holds(w, c, l)
    BY <1>1, <1>6, SendOnTheWay
  <2>3. Append(w, c) \in Seq(Seq(Nat))
    BY <2>2 DEF OnTheWay
  <2>4. Moves(f, p, <<>>, Append(w, c))
    BY <1>1, <1>7, <2>1, <2>3, MovesTo
  <2>5. MayTake(f, p, <<>>, Append(w, c))
    BY <1>2, <1>6, <1>10, <2>2 DEF MayTake
  <2> QED
    BY <1>2, <2>4, <2>5, TakeStep
<1>11. CASE SendBatch(f, c) /\ p = "broken"
  <2>1. wire' = wire /\ fwd' = [fwd EXCEPT ![f].pc = "wait", ![f].batch = <<>>]
    BY <1>11 DEF SendBatch, Goto
  <2>2. "wait" \in Pcs
    BY DEF Pcs
  <2>3. Moves(f, "wait", <<>>, w)
    BY <1>1, <1>7, <2>1, <2>2, MovesTo
  <2>4. OnTheWay(evicted, n + 1, got[g], w, <<>>) /\ \A l : Holds(w, <<>>, l) => Holds(w, c, l)
    BY <1>1, <1>6, LoseOnTheWay
  <2>5. MayTake(f, "wait", <<>>, w)
    BY <1>2, <1>6, <1>8, <1>11, <2>4 DEF MayTake
  <2> QED
    BY <1>2, <2>3, <2>5, TakeStep
<1> QED
  BY <1>2, <1>9, <1>10, <1>11

\* ReportMetrics: the oldest batch of a stream is received.  With order kept there is no
\* other forwarder of its run, without it the lines of another one are others.
LEMMA ReceiveStep ==
    ASSUME WayInv, NEW f \in Forwarders, ReportMetrics(f),
           \A e \in Forwarders : e # f /\ fwd[e].run # 0 /\ fwd[e].run = fwd[f].run => evicted,
           NEW g, g = fwd[f].run, NEW t, t = Head(wire[f]), NEW w, w = Tail(wire[f])
    PROVE  WayInv'
<1>1. /\ wire[f] # <<>> /\ got' = [got EXCEPT ![g] = @ \o t] /\ wire' = [wire EXCEPT ![f] = w]
      /\ UNCHANGED <<run, running, written, chan, fwd, cut, served, evicted>>
  BY DEF ReportMetrics, process, hist
<1>2. fwd[f].pc # "none" /\ g \in served /\ g \in Runs
  <2>1. fwd[f].pc \in {"stream", "closing"}
    BY <1>1 DEF WayInv, LifeInv, Life
  <2> QED
    BY <2>1, RunNumbers DEF WayInv, LifeInv, Life
<1>3. /\ evicted \in BOOLEAN /\ got \in [Runs -> Seq(Nat)] /\ wire \in [Forwarders -> Seq(Seq(Nat))]
      /\ OnTheWay(evicted, Taken(g), got[g], wire[f], fwd[f].batch)
  BY <1>2 DEF WayInv, ForwardTypes, PathInv, Path
<1>4. /\ OnTheWay(evicted, Taken(g), got[g] \o t, w, fwd[f].batch)
      /\ t \in Seq(Nat) /\ Within(t, Taken(g)) /\ InOrder(evicted, t) /\ Ahead(evicted, got[g], t)
      /\ \A l : Holds(wire[f], fwd[f].batch, l) <=> Has(t, l) \/ Holds(w, fwd[f].batch, l)
  BY <1>1, <1>3, ReceiveOnTheWay
<1>5. /\ got[g] \o t \in Seq(Nat) /\ w \in Seq(Seq(Nat))
      /\ \A l : Has(got[g] \o t, l) <=> Has(got[g], l) \/ Has(t, l)
  BY <1>2, <1>3, <1>4, ReceivedIs DEF OnTheWay
<1>6. /\ got' \in [Runs -> Seq(Nat)] /\ got'[g] = got[g] \o t /\ \A h \in Runs : h # g => got'[h] = got[h]
      /\ wire' \in [Forwarders -> Seq(Seq(Nat))] /\ wire'[f] = w
      /\ \A e \in Forwarders : e # f => wire'[e] = wire[e]
  BY <1>1, <1>2, <1>3, <1>5
<1>7. \A h : Taken(h)' = Taken(h) /\ (Closed(h)' <=> Closed(h)) /\ (Drained(h)' <=> Drained(h))
  BY <1>1 DEF Taken, Closed, Drained
<1>8. ForwardTypes' /\ ChannelInv'
  BY <1>1, <1>6, <1>7 DEF WayInv, ForwardTypes, ChannelInv
<1>9. LifeInv'
  <2>1. ASSUME NEW e \in Forwarders PROVE Life(e)'
    <3>1. Life(e) /\ (e # f => wire'[e] = wire[e]) /\ (e = f => fwd[e].pc \in {"stream", "closing"})
      BY <1>1, <1>6 DEF WayInv, LifeInv, Life
    <3> QED
      BY <1>1, <1>7, <3>1 DEF Life
  <2> QED
    BY <2>1 DEF LifeInv
<1>10. \A l : /\ HasLine(f, l) <=> Has(t, l) \/ HasLine(f, l)'
              /\ \A e \in Forwarders : e # f => (HasLine(e, l)' <=> HasLine(e, l))
  BY <1>1, <1>4, <1>6 DEF HasLine
<1>11. PathInv'
  <2>1. ASSUME NEW h \in Runs PROVE OnTheWay(evicted', Taken(h)', got'[h], <<>>, <<>>)
    <3>1. CASE h # g
      BY <1>1, <1>6, <1>7, <3>1 DEF WayInv, PathInv
    <3>2. CASE h = g
      <4>1. OnTheWay(evicted, Taken(g), got[g] \o t, <<>>, <<>>)
        BY <1>3, <1>4, LoseOnTheWay
      <4> QED
        BY <1>1, <1>6, <1>7, <3>2, <4>1
    <3> QED
      BY <3>1, <3>2
  <2>2. ASSUME NEW e \in Forwarders, fwd'[e].pc # "none" PROVE Path(e)'
    <3>1. CASE e = f
      BY <1>1, <1>4, <1>6, <1>7, <3>1 DEF Path
    <3>2. CASE e # f
      <4>1. OnTheWay(evicted, Taken(fwd[e].run), got[fwd[e].run], wire[e], fwd[e].batch) /\ fwd[e].run \in Runs
        BY <1>1, <2>2, RunNumbers DEF WayInv, PathInv, Path
      <4>2. CASE fwd[e].run # g
        BY <1>1, <1>6, <1>7, <3>2, <4>1, <4>2 DEF Path
      <4>3. CASE fwd[e].run = g
        <5>1. fwd[e].run # 0 /\ evicted = TRUE
          BY <1>1, <1>3, <2>2, <3>2, <4>3, RunNumbers
        <5>2. \A l : ~(Has(t, l) /\ Holds(wire[e], fwd[e].batch, l))
          BY <1>2, <1>10, <3>2, <4>3 DEF WayInv, PathInv, HasLine
        <5>3. OnTheWay(TRUE, Taken(g), got[g] \o t, wire[e], fwd[e].batch)
          BY <1>4, <4>1, <4>3, <5>1, <5>2, OtherReceives
        <5> QED
          BY <1>1, <1>6, <1>7, <3>2, <4>3, <5>1, <5>3 DEF Path
      <4> QED
        BY <4>2, <4>3
    <3> QED
      BY <3>1, <3>2
  <2>3. ASSUME NEW d \in Forwarders, NEW e \in Forwarders, d # e, fwd'[d].pc # "none", fwd'[d].run = fwd'[e].run
        PROVE  \A l : ~(HasLine(d, l)' /\ HasLine(e, l)')
    <3>1. \A l : ~(HasLine(d, l) /\ HasLine(e, l))
      BY <1>1, <2>3 DEF WayInv, PathInv
    <3>2. \A l : \A i \in Forwarders : HasLine(i, l)' => HasLine(i, l)
      BY <1>10
    <3> QED
      BY <3>1, <3>2
  <2> QED
    BY <2>1, <2>2, <2>3 DEF PathInv
<1>12. ASSUME NEW h \in served' \ cut' PROVE Whole(h)'
  <2>1. Whole(h) /\ h \in served /\ h \in Runs
    BY <1>1, <1>12, RunNumbers DEF WayInv, WholeInv
  <2>2. \A l : Has(got[h], l) => Has(got'[h], l)
    BY <1>5, <1>6, <2>1
  <2>3. ASSUME NEW l \in 1 .. Taken(h), NEW e \in Forwarders, fwd[e].run = h, HasLine(e, l)
        PROVE  Has(got'[h], l) \/ (fwd'[e].run = h /\ HasLine(e, l)')
    <3>1. CASE e # f
      BY <1>1, <1>10, <2>3, <3>1
    <3>2. CASE e = f
      BY <1>1, <1>5, <1>6, <1>10, <2>3, <3>2
    <3> QED
      BY <3>1, <3>2
  <2>4. \A l \in 1 .. Taken(h) : Has(got'[h], l) \/ \E e \in Forwarders : fwd'[e].run = h /\ HasLine(e, l)'
    BY <2>1, <2>2, <2>3 DEF Whole
  <2>5. (\E e \in Forwarders : fwd'[e].run = h) \/ Drained(h)'
    BY <1>1, <1>7, <2>1 DEF Whole
  <2> QED
    BY <1>7, <2>4, <2>5 DEF Whole
<1>13. UnservedInv'
  BY <1>1, <1>2, <1>6, <1>7 DEF WayInv, UnservedInv
<1> QED
  BY <1>8, <1>9, <1>11, <1>12, <1>13 DEF WayInv, WholeInv

\* Ended: nothing is under way with a forwarder that ends, so with its slot nothing is
\* lost; its run goes on only with another one, or was cut or is at its end.
LEMMA EndedStep ==
    ASSUME WayInv, NEW f \in Forwarders, Ended(f), NEW g, g = fwd[f].run
    PROVE  WayInv'
<1>1. /\ fwd[f].pc = "ending" /\ fwd' = [fwd EXCEPT ![f] = None] /\ (evicted => evicted')
      /\ evicted' \in BOOLEAN
      /\ UNCHANGED <<run, running, written, chan, wire, got, cut, served>>
  <2>1. evicted \in BOOLEAN /\ evicted' = (evicted \/ active \notin {0, f})
    BY DEF Ended, WayInv, ForwardTypes
  <2>2. evicted' \in BOOLEAN /\ (evicted => evicted')
    BY <2>1
  <2> QED
    BY <2>2 DEF Ended, process
<1>2. /\ wire[f] = <<>> /\ fwd[f].batch = <<>> /\ g \in served /\ g \in Runs /\ (g \in cut \/ Drained(g))
  BY <1>1, RunNumbers DEF WayInv, LifeInv, Life
<1>3. None \in Forwarder /\ None.pc = "none" /\ None.run = 0 /\ None.batch = <<>> /\ None.cancelled = FALSE
  BY NoLines DEF None, Forwarder, Pcs
<1>4. /\ fwd' \in [Forwarders -> Forwarder] /\ fwd'[f] = None
      /\ \A e \in Forwarders : e # f => fwd'[e] = fwd[e]
  BY <1>1, <1>3 DEF WayInv, ForwardTypes
<1>5. \A h : Taken(h)' = Taken(h) /\ (Closed(h)' <=> Closed(h)) /\ (Drained(h)' <=> Drained(h))
  BY <1>1 DEF Taken, Closed, Drained
<1>6. ForwardTypes' /\ ChannelInv'
  BY <1>1, <1>4, <1>5 DEF WayInv, ForwardTypes, ChannelInv
<1>7. LifeInv'
  <2>1. ASSUME NEW e \in Forwarders, e # f PROVE Life(e)'
    <3>1. Life(e) /\ fwd'[e] = fwd[e] /\ wire'[e] = wire[e]
      BY <1>1, <1>4, <2>1 DEF WayInv, LifeInv
    <3> QED
      BY <1>1, <1>5, <3>1 DEF Life
  <2>2. Life(f)'
    BY <1>1, <1>2, <1>3, <1>4 DEF Life
  <2> QED
    BY <2>1, <2>2 DEF LifeInv
<1>8. \A l : ~HasLine(f, l) /\ ~HasLine(f, l)' /\ \A e \in Forwarders : e # f => (HasLine(e, l)' <=> HasLine(e, l))
  <2>1. \A l : ~HasLine(f, l) /\ ~HasLine(f, l)'
    BY <1>1, <1>2, <1>3, <1>4, NoLines DEF HasLine
  <2>2. \A l : \A e \in Forwarders : e # f => (HasLine(e, l)' <=> HasLine(e, l))
    BY <1>1, <1>4 DEF HasLine
  <2> QED
    BY <2>1, <2>2
<1>9. PathInv'
  <2>1. ASSUME NEW n, NEW r, NEW s, NEW b, OnTheWay(evicted, n, r, s, b) PROVE OnTheWay(evicted', n, r, s, b)
    <3>1. evicted \in BOOLEAN
      BY DEF WayInv, ForwardTypes
    <3>2. CASE evicted' = evicted
      BY <2>1, <3>2
    <3>3. CASE evicted = FALSE /\ evicted' = TRUE
      BY <2>1, <3>3, UnorderedOnTheWay
    <3> QED
      BY <1>1, <3>1, <3>2, <3>3
  <2>2. \A h \in Runs : OnTheWay(evicted', Taken(h)', got'[h], <<>>, <<>>)
    BY <1>1, <1>5, <2>1 DEF WayInv, PathInv
  <2>3. ASSUME NEW e \in Forwarders, fwd'[e].pc # "none" PROVE Path(e)'
    <3>1. e # f /\ fwd'[e] = fwd[e]
      BY <1>3, <1>4, <2>3
    <3>2. OnTheWay(evicted', Taken(fwd[e].run), got[fwd[e].run], wire[e], fwd[e].batch)
      BY <2>1, <2>3, <3>1 DEF WayInv, PathInv, Path
    <3> QED
      BY <1>1, <1>5, <3>1, <3>2 DEF Path
  <2>4. ASSUME NEW d \in Forwarders, NEW e \in Forwarders, d # e, fwd'[d].pc # "none", fwd'[d].run = fwd'[e].run
        PROVE  \A l : ~(HasLine(d, l)' /\ HasLine(e, l)')
    <3>1. CASE e = f
      BY <1>8, <3>1
    <3>2. CASE e # f
      <4>1. d # f /\ fwd'[d] = fwd[d] /\ fwd'[e] = fwd[e]
        BY <1>3, <1>4, <2>4, <3>2
      <4>2. \A l : ~(HasLine(d, l) /\ HasLine(e, l))
        BY <2>4, <4>1 DEF WayInv, PathInv
      <4> QED
        BY <1>8, <3>2, <4>1, <4>2
    <3> QED
      BY <3>1, <3>2
  <2> QED
    BY <2>2, <2>3, <2>4 DEF PathInv
<1>10. ASSUME NEW h \in served' \ cut' PROVE Whole(h)'
  <2>1. Whole(h) /\ h \in served /\ h \in Runs /\ h \notin cut
    BY <1>1, <1>10, RunNumbers DEF WayInv, WholeInv
  <2>2. \A l : \A e \in Forwarders : fwd[e].run = h /\ HasLine(e, l) => fwd'[e].run = h /\ HasLine(e, l)'
    BY <1>4, <1>8
  <2>3. \A l \in 1 .. Taken(h) : Has(got'[h], l) \/ \E e \in Forwarders : fwd'[e].run = h /\ HasLine(e, l)'
    BY <1>1, <2>1, <2>2 DEF Whole
  <2>4. (\E e \in Forwarders : fwd'[e].run = h) \/ Drained(h)'
    <3>1. CASE h = g
      BY <1>2, <1>5, <2>1, <3>1
    <3>2. CASE h # g
      BY <1>4, <1>5, <2>1, <3>2 DEF Whole
    <3> QED
      BY <3>1, <3>2
  <2> QED
    BY <1>5, <2>3, <2>4 DEF Whole
<1>11. UnservedInv'
  BY <1>1, <1>5 DEF WayInv, UnservedInv
<1> QED
  BY <1>6, <1>7, <1>9, <1>10, <1>11 DEF WayInv, WholeInv

-----------------------------------------------------------------------------
(* The steps of the loop and of the process.                               *)

\* What Tick does to the forwarders: those that are new begin with nothing, and the
\* others go on, the one that is cancelled too.
Ticked(new) ==
    /\ fwd' \in [Forwarders -> Forwarder] /\ cut \subseteq cut'
    /\ \A e \in Forwarders \ new :
          /\ fwd'[e].pc = fwd[e].pc /\ fwd'[e].run = fwd[e].run /\ fwd'[e].batch = fwd[e].batch
          /\ fwd'[e].cancelled => fwd[e].run \in cut'
    /\ \A e \in new :
          /\ fwd[e].pc = "none" /\ fwd'[e].pc = "connect" /\ fwd'[e].run = run
          /\ fwd'[e].batch = <<>> /\ ~fwd'[e].cancelled
    /\ new \subseteq Forwarders /\ (new # {} => run # 0)
    /\ served' = IF new = {} THEN served ELSE served \cup {run}
    /\ UNCHANGED <<run, running, written, chan, wire, got, evicted>>

LEMMA TickIs ==
    ASSUME WayInv, Tick, active = 0 \/ active \in Forwarders
    PROVE  \E new : Ticked(new)
<1> DEFINE c == IF active = 0 THEN fwd ELSE [fwd EXCEPT ![active].cancelled = TRUE]
           d == IF active = 0 THEN fwd[1] ELSE [fwd[active] EXCEPT !.cancelled = TRUE]
           start == [None EXCEPT !.pc = "connect", !.run = run]
<1>1. /\ fwd \in [Forwarders -> Forwarder] /\ run \in Nat /\ (running => run # 0) /\ running \in BOOLEAN
  BY RunNumbers DEF WayInv, ForwardTypes
<1>2. /\ UNCHANGED <<run, running, written, chan, wire, got, evicted>>
      /\ cut' = IF active = 0 THEN cut ELSE cut \cup {fwd[active].run}
  BY DEF Tick, process
<1>3. active # 0 => /\ d \in Forwarder /\ d.pc = fwd[active].pc /\ d.run = fwd[active].run
                    /\ d.batch = fwd[active].batch /\ c = [fwd EXCEPT ![active] = d]
  BY <1>1 DEF Forwarder
<1>4. ~running => fwd' = c /\ served' = served
  BY DEF Tick
<1>5. running => \E f \in Forwarders : /\ fwd[f].pc = "none" /\ fwd' = [c EXCEPT ![f] = start]
                                       /\ served' = served \cup {run}
  BY DEF Tick
<1>6. start \in Forwarder /\ start.pc = "connect" /\ start.run = run /\ start.batch = <<>> /\ ~start.cancelled
  BY <1>1, NoLines DEF None, Forwarder, Pcs
<1> HIDE DEF start, d
<1>7. /\ c \in [Forwarders -> Forwarder]
      /\ \A e \in Forwarders : /\ c[e].pc = fwd[e].pc /\ c[e].run = fwd[e].run /\ c[e].batch = fwd[e].batch
                               /\ c[e].cancelled => fwd[e].run \in cut'
  <2>1. \A e \in Forwarders : fwd[e].cancelled => fwd[e].run \in cut
    BY DEF WayInv, LifeInv, Life
  <2>2. CASE active = 0
    BY <1>1, <1>2, <2>1, <2>2
  <2>3. CASE active # 0
    <3>1. c \in [Forwarders -> Forwarder] /\ c[active] = d /\ \A e \in Forwarders : e # active => c[e] = fwd[e]
      BY <1>1, <1>3, <2>3
    <3> HIDE DEF c
    <3> QED
      BY <1>2, <1>3, <2>1, <2>3, <3>1
  <2> QED
    BY <2>2, <2>3
<1> HIDE DEF c
<1>8. cut \subseteq cut'
  BY <1>2
<1>9. CASE ~running
  <2>1. Ticked({})
    BY <1>2, <1>4, <1>7, <1>8, <1>9 DEF Ticked
  <2> QED
    BY <2>1
<1>10. CASE running
  <2>1. PICK f \in Forwarders : fwd[f].pc = "none" /\ fwd' = [c EXCEPT ![f] = start] /\ served' = served \cup {run}
    BY <1>5, <1>10
  <2>2. fwd' \in [Forwarders -> Forwarder] /\ fwd'[f] = start /\ \A e \in Forwarders : e # f => fwd'[e] = c[e]
    BY <1>6, <1>7, <2>1
  <2>3. Ticked({f})
    BY <1>1, <1>2, <1>6, <1>7, <1>8, <1>10, <2>1, <2>2 DEF Ticked
  <2> QED
    BY <2>3
<1> QED
  BY <1>1, <1>9, <1>10

LEMMA TickWay ==
    ASSUME WayInv, NEW new, Ticked(new)
    PROVE  WayInv'
<1>1. /\ UNCHANGED <<run, running, written, chan, wire, got, evicted>> /\ served \subseteq served'
      /\ cut \subseteq cut'
  BY DEF Ticked
<1>2. \A h : Taken(h)' = Taken(h) /\ (Closed(h)' <=> Closed(h)) /\ (Drained(h)' <=> Drained(h))
  BY <1>1 DEF Taken, Closed, Drained
<1>3. run \in Nat /\ (new # {} => run \in Runs /\ run \in 1 .. run /\ run \in served')
  BY RunNumbers, ForwarderAssumption DEF Ticked, Runs
<1>4. ForwardTypes'
  <2>1. served' \subseteq 1 .. run
    BY <1>3 DEF WayInv, ForwardTypes, Ticked
  <2> QED
    BY <1>1, <2>1 DEF WayInv, ForwardTypes, Ticked
<1>5. ChannelInv'
  BY <1>1, <1>2 DEF WayInv, ChannelInv
<1>6. \A e \in new : /\ e \in Forwarders /\ fwd[e].pc = "none" /\ fwd[e].run = 0 /\ wire[e] = <<>> /\ fwd[e].batch = <<>>
                     /\ fwd'[e].pc = "connect" /\ fwd'[e].run = run /\ fwd'[e].batch = <<>> /\ ~fwd'[e].cancelled
  BY DEF Ticked, WayInv, LifeInv, Life
<1>7. \A e \in Forwarders \ new : /\ fwd'[e].pc = fwd[e].pc /\ fwd'[e].run = fwd[e].run /\ fwd'[e].batch = fwd[e].batch
                                  /\ fwd'[e].cancelled => fwd[e].run \in cut'
  BY DEF Ticked
<1>8. LifeInv'
  <2>1. ASSUME NEW e \in Forwarders \ new PROVE Life(e)'
    <3>1. Life(e) /\ wire'[e] = wire[e]
      BY <1>1 DEF WayInv, LifeInv
    <3> QED
      BY <1>1, <1>2, <1>7, <3>1 DEF Life
  <2>2. ASSUME NEW e \in new PROVE Life(e)'
    <3>1. fwd'[e].run \in served' /\ wire'[e] = <<>>
      BY <1>1, <1>3, <1>6, <2>2
    <3> QED
      BY <1>6, <3>1 DEF Life
  <2> QED
    BY <2>1, <2>2 DEF LifeInv
<1>9. \A l : \A e \in Forwarders : (HasLine(e, l)' <=> HasLine(e, l)) /\ (e \in new => ~HasLine(e, l))
  <2>1. \A e \in Forwarders : wire'[e] = wire[e] /\ fwd'[e].batch = fwd[e].batch
    BY <1>1, <1>6, <1>7
  <2>2. \A l : \A e \in new : ~HasLine(e, l)
    BY <1>6, NoLines DEF HasLine
  <2> QED
    BY <2>1, <2>2 DEF HasLine
<1>10. PathInv'
  <2>1. \A h \in Runs : OnTheWay(evicted', Taken(h)', got'[h], <<>>, <<>>)
    BY <1>1, <1>2 DEF WayInv, PathInv
  <2>2. ASSUME NEW e \in Forwarders \ new, fwd'[e].pc # "none" PROVE Path(e)'
    <3>1. Path(e)
      BY <1>7, <2>2 DEF WayInv, PathInv
    <3> QED
      BY <1>1, <1>2, <1>7, <3>1 DEF Path
  <2>3. ASSUME NEW e \in new, NEW g, g = run PROVE Path(e)'
    <3>1. g \in Runs /\ fwd'[e].run = g /\ wire'[e] = <<>> /\ fwd'[e].batch = <<>>
      BY <1>1, <1>3, <1>6, <2>3
    <3>2. OnTheWay(evicted, Taken(g), got[g], <<>>, <<>>) /\ Taken(g)' = Taken(g)
      BY <1>2, <3>1 DEF WayInv, PathInv
    <3>3. Taken(fwd[e].run)' = Taken(g)
      BY <3>1, <3>2 DEF Taken
    <3> QED
      BY <1>1, <3>1, <3>2, <3>3 DEF Path
  <2>4. ASSUME NEW d \in Forwarders, NEW e \in Forwarders, d # e, fwd'[d].pc # "none", fwd'[d].run = fwd'[e].run
        PROVE  \A l : ~(HasLine(d, l)' /\ HasLine(e, l)')
    <3>1. CASE d \in new \/ e \in new
      BY <1>9, <3>1
    <3>2. CASE d \notin new /\ e \notin new
      <4>1. \A l : ~(HasLine(d, l) /\ HasLine(e, l))
        BY <1>7, <2>4, <3>2 DEF WayInv, PathInv
      <4> QED
        BY <1>9, <4>1
    <3> QED
      BY <3>1, <3>2
  <2> QED
    BY <2>1, <2>2, <2>3, <2>4 DEF PathInv
<1>11. ASSUME NEW h \in served' \ cut' PROVE Whole(h)'
  <2>1. CASE h \in served
    <3>1. Whole(h) /\ h # 0
      BY <1>1, <1>11, <2>1, RunNumbers DEF WayInv, WholeInv
    <3>2. \A e \in Forwarders : fwd[e].run = h => fwd'[e].run = h
      BY <1>6, <1>7, <3>1
    <3>3. \A l \in 1 .. Taken(h) : Has(got'[h], l) \/ \E e \in Forwarders : fwd'[e].run = h /\ HasLine(e, l)'
      BY <1>1, <1>9, <3>1, <3>2 DEF Whole
    <3>4. (\E e \in Forwarders : fwd'[e].run = h) \/ Drained(h)'
      BY <1>2, <3>1, <3>2 DEF Whole
    <3> QED
      BY <1>2, <3>3, <3>4 DEF Whole
  <2>2. CASE h \notin served
    <3>1. new # {} /\ h = run /\ h \in Runs
      BY <1>3, <1>11, <2>2 DEF Ticked
    <3>2. Taken(h) = 0
      BY <1>1, <1>11, <2>2, <3>1 DEF WayInv, UnservedInv
    <3>3. \E e \in Forwarders : fwd'[e].run = h
      BY <1>6, <3>1
    <3>4. 1 .. Taken(h)' = {}
      BY <1>2, <3>2
    <3> QED
      BY <3>3, <3>4 DEF Whole
  <2> QED
    BY <2>1, <2>2
<1>12. UnservedInv'
  BY <1>1, <1>2 DEF WayInv, UnservedInv
<1> QED
  BY <1>4, <1>5, <1>8, <1>10, <1>11, <1>12 DEF WayInv, WholeInv

\* A step of the process: lines leave a channel only when the run is cut with that, and a
\* channel that is at its end stays so.
LEMMA ProcessStep ==
    ASSUME WayInv, ForwardTypes', ChannelInv', UNCHANGED <<fwd, wire, got, served, evicted>>, cut \subseteq cut',
           \A g \in Runs : /\ Taken(g)' \in Nat /\ Taken(g) <= Taken(g)'
                           /\ Taken(g)' = Taken(g) \/ g \in cut',
           \A g \in served : Drained(g) => Drained(g)'
    PROVE  WayInv'
<1>1. evicted \in BOOLEAN /\ served \subseteq Runs
  BY RunNumbers DEF WayInv, ForwardTypes
<1>2. LifeInv'
  <2>1. ASSUME NEW e \in Forwarders PROVE Life(e)'
    <3>1. Life(e)
      BY DEF WayInv, LifeInv
    <3>2. ASSUME NEW g \in served, g = fwd[e].run, Drained(fwd[e].run) PROVE Drained(fwd[e].run)'
      <4>1. Drained(g)'
        BY <3>2
      <4> QED
        BY <3>2, <4>1 DEF Drained, Closed
    <3>3. fwd[e].pc \in {"closing", "ending"} => fwd[e].run \in served
      BY <3>1 DEF Life
    <3> QED
      BY <3>1, <3>2, <3>3 DEF Life
  <2> QED
    BY <2>1 DEF LifeInv
<1>3. \A l : \A e \in Forwarders : HasLine(e, l)' <=> HasLine(e, l)
  BY DEF HasLine
<1>4. PathInv'
  <2>1. ASSUME NEW g \in Runs, NEW s, NEW b, OnTheWay(evicted, Taken(g), got[g], s, b)
        PROVE  OnTheWay(evicted, Taken(g)', got[g], s, b)
    BY <1>1, <2>1, MoreOnTheWay
  <2>2. \A g \in Runs : OnTheWay(evicted', Taken(g)', got'[g], <<>>, <<>>)
    BY <2>1 DEF WayInv, PathInv
  <2>3. ASSUME NEW e \in Forwarders, fwd'[e].pc # "none", NEW g, g = fwd[e].run PROVE Path(e)'
    <3>1. g \in Runs /\ OnTheWay(evicted, Taken(g), got[g], wire[e], fwd[e].batch)
      BY <2>3, RunNumbers DEF WayInv, PathInv, Path
    <3>2. OnTheWay(evicted, Taken(g)', got[g], wire[e], fwd[e].batch)
      BY <2>1, <3>1
    <3>3. Taken(fwd[e].run)' = Taken(g)'
      BY <2>3 DEF Taken
    <3> QED
      BY <2>3, <3>2, <3>3 DEF Path
  <2> QED
    BY <1>3, <2>2, <2>3 DEF WayInv, PathInv
<1>5. ASSUME NEW g \in served' \ cut' PROVE Whole(g)'
  <2>1. Whole(g) /\ g \in served /\ g \in Runs /\ Taken(g)' = Taken(g)
    BY <1>1, <1>5 DEF WayInv, WholeInv
  <2> QED
    BY <1>3, <2>1 DEF Whole
<1>6. UnservedInv'
  <2> SUFFICES ASSUME NEW g \in Runs \ served PROVE got[g] = <<>> /\ (g \in cut' \/ Taken(g)' = 0)
    BY DEF UnservedInv
  <2> QED
    BY DEF WayInv, UnservedInv
<1> QED
  BY <1>2, <1>4, <1>5, <1>6 DEF WayInv, WholeInv

\* A run that has had a forwarder has been started, and its channel stays closed.
LEMMA StartExitStep ==
    ASSUME WayInv, Start \/ Exit \/ UNCHANGED forwarderVars
    PROVE  WayInv'
<1>1. /\ UNCHANGED <<written, chan, fwd, wire, got, cut, served, evicted>>
      /\ running' \in BOOLEAN /\ run' \in 0 .. MaxRuns /\ run <= run' /\ (running' => run' # 0)
      /\ \A g \in served : Closed(g) => Closed(g)'
  <2>1. run \in Nat /\ run <= MaxRuns /\ running \in BOOLEAN /\ (running => run # 0) /\ MaxRuns \in Nat
        /\ \A g \in served : g \in Nat /\ g <= run
    BY RunNumbers, ForwarderAssumption DEF WayInv, ForwardTypes
  <2>2. CASE Start
    <3>1. UNCHANGED <<written, chan, fwd, wire, got, cut, served, evicted>> /\ running' = TRUE /\ run' = run + 1 /\ run < MaxRuns
      BY <2>2 DEF Start, hist
    <3>2. run' \in 0 .. MaxRuns /\ run <= run' /\ run' # 0 /\ \A g \in served : g < run'
      BY <2>1, <3>1
    <3> QED
      BY <3>1, <3>2 DEF Closed
  <2>3. CASE Exit
    <3>1. UNCHANGED <<written, chan, fwd, wire, got, cut, served, evicted, run>> /\ running' = FALSE
      BY <2>3 DEF Exit, hist
    <3>2. run' \in 0 .. MaxRuns /\ run <= run'
      BY <2>1, <3>1
    <3> QED
      BY <3>1, <3>2 DEF Closed
  <2>4. CASE UNCHANGED forwarderVars
    BY <2>1, <2>4 DEF forwarderVars, Closed
  <2> QED
    BY <2>2, <2>3, <2>4
<1>2. \A g : Taken(g)' = Taken(g)
  BY <1>1 DEF Taken
<1>3. ForwardTypes'
  <2>1. run \in Nat /\ run' \in Nat /\ served \subseteq 1 .. run
    BY <1>1, RunNumbers DEF WayInv, ForwardTypes
  <2>2. served' \subseteq 1 .. run'
    BY <1>1, <2>1
  <2> QED
    BY <1>1, <2>2 DEF WayInv, ForwardTypes
<1>4. ChannelInv'
  BY <1>1, <1>2 DEF WayInv, ChannelInv
<1>5. \A g \in served : Drained(g) => Drained(g)'
  BY <1>1 DEF Drained
<1>6. \A g \in Runs : Taken(g)' \in Nat /\ Taken(g) <= Taken(g)' /\ Taken(g)' = Taken(g)
  <2>1. \A g \in Runs : Taken(g) \in Nat
    BY RunNumbers
  <2> QED
    BY <1>2, <2>1
<1> QED
  BY <1>1, <1>3, <1>4, <1>5, <1>6, ProcessStep

\* WriteLine: the channel goes on with the next line of its run.  When it is full its
\* oldest line is the first that was not taken, and is as if it were.
LEMMA WriteStep ==
    ASSUME WayInv, WriteLine, NEW g, g = run, NEW n, n = written[g], NEW c, c = chan[g]
    PROVE  WayInv'
<1> DEFINE full == Len(c) = ChanCap
           kept == IF full THEN Tail(c) ELSE c
           m == Len(kept)
           d == Append(kept, n + 1)
<1>1. /\ running /\ written' = [written EXCEPT ![g] = n + 1] /\ chan' = [chan EXCEPT ![g] = d]
      /\ cut' = (IF full THEN cut \cup {g} ELSE cut)
      /\ UNCHANGED <<run, running, fwd, wire, got, served, evicted>>
  BY DEF WriteLine, hist
<1>2. /\ g \in Runs /\ n \in Nat /\ c \in Seq(Nat) /\ Len(c) \in Nat /\ Len(c) <= n /\ Len(c) <= ChanCap
      /\ ChanCap \in Nat /\ ChanCap # 0 /\ \A k \in 1 .. Len(c) : c[k] = (n - Len(c)) + k
  <2>1. run \in Nat /\ run # 0 /\ run <= MaxRuns /\ g \in Runs
    BY <1>1, RunNumbers, ForwarderAssumption DEF WayInv, ForwardTypes, Runs
  <2>2. written[g] \in Nat /\ chan[g] \in Seq(Nat) /\ Len(chan[g]) \in Nat /\ DOMAIN chan[g] = 1 .. Len(chan[g])
    BY <2>1, RunNumbers DEF WayInv, ForwardTypes
  <2> QED
    BY <2>1, <2>2, ForwarderAssumption DEF WayInv, ChannelInv, Taken
<1>3. /\ kept \in Seq(Nat) /\ m \in Nat /\ m <= n /\ m < ChanCap /\ (m = Len(c) \/ (full /\ m + 1 = Len(c)))
      /\ \A k \in 1 .. m : kept[k] = (n - m) + k
  <2>1. CASE ~full
    BY <1>2, <2>1
  <2>2. CASE full
    <3>1. c # <<>> /\ kept = Tail(c)
      BY <1>2, <2>2
    <3>0. Tail(c) \in Seq(Nat) /\ Len(Tail(c)) = Len(c) - 1 /\ \A k \in 1 .. Len(c) - 1 : Tail(c)[k] = c[k + 1]
      BY <1>2, <3>1
    <3>2. kept \in Seq(Nat) /\ m = Len(c) - 1 /\ \A k \in 1 .. Len(c) - 1 : kept[k] = c[k + 1]
      BY <3>0, <3>1
    <3>3. m \in Nat /\ m + 1 = Len(c) /\ m <= n /\ m < ChanCap
      BY <1>2, <2>2, <3>2
    <3> HIDE DEF kept, m
    <3>4. ASSUME NEW k \in 1 .. m PROVE kept[k] = (n - m) + k
      <4>1. k \in 1 .. Len(c) - 1 /\ k + 1 \in 1 .. Len(c)
        BY <1>2, <3>3
      <4>2. kept[k] = (n - Len(c)) + (k + 1)
        BY <1>2, <3>2, <4>1
      <4>3. ASSUME NEW q \in Nat, m + 1 = q PROVE (n - q) + (k + 1) = (n - m) + k
        <5>1. n \in Nat /\ m \in Nat /\ k \in Nat
          BY <1>2, <3>3
        <5> QED
          BY <4>3, <5>1
      <4> QED
        BY <1>2, <3>3, <4>2, <4>3
    <3> QED
      BY <2>2, <3>2, <3>3, <3>4
  <2> QED
    BY <2>1, <2>2
<1>4. /\ d \in Seq(Nat) /\ Len(d) = m + 1 /\ DOMAIN d = 1 .. m + 1 /\ d[m + 1] = n + 1
      /\ \A k \in 1 .. m : d[k] = kept[k]
  <2> HIDE DEF kept
  <2> QED
    BY <1>2, <1>3
<1> HIDE DEF kept, m, d, full
<1>5. /\ chan' \in [Runs -> Seq(Nat)] /\ chan'[g] = d /\ written' \in [Runs -> Nat] /\ written'[g] = n + 1
      /\ \A h \in Runs : h # g => chan'[h] = chan[h] /\ written'[h] = written[h]
  BY <1>1, <1>2, <1>4 DEF WayInv, ForwardTypes
<1>6. /\ Taken(g)' = n - m /\ Taken(g) = n - Len(c)
      /\ \A h \in Runs : h # g => Taken(h)' = Taken(h)
  <2>1. Taken(g)' = (n + 1) - (m + 1)
    BY <1>4, <1>5 DEF Taken
  <2>2. (n + 1) - (m + 1) = n - m
    BY <1>2, <1>3
  <2> QED
    BY <1>5, <2>1, <2>2 DEF Taken
<1>7. ForwardTypes'
  BY <1>1, <1>5 DEF WayInv, ForwardTypes
<1>8. ChannelInv'
  <2>1. ASSUME NEW h \in Runs, h # g
        PROVE  /\ Len(chan[h])' <= written'[h] /\ Len(chan[h])' <= ChanCap
               /\ \A k \in DOMAIN chan'[h] : chan'[h][k] = Taken(h)' + k
    BY <1>5, <1>6, <2>1 DEF WayInv, ChannelInv
  <2>2. Len(d) <= n + 1 /\ Len(d) <= ChanCap
    BY <1>2, <1>3, <1>4
  <2>3. ASSUME NEW k \in DOMAIN d PROVE d[k] = (n - m) + k
    <3>1. k \in 1 .. m \/ k = m + 1
      BY <1>3, <1>4
    <3>2. CASE k \in 1 .. m
      BY <1>3, <1>4, <3>2
    <3>3. CASE k = m + 1
      <4>1. n \in Nat /\ m \in Nat
        BY <1>2, <1>3
      <4>2. n + 1 = (n - m) + (m + 1)
        BY <4>1
      <4> QED
        BY <1>4, <3>3, <4>2
    <3> QED
      BY <3>1, <3>2, <3>3
  <2>4. /\ Len(chan[g])' <= written'[g] /\ Len(chan[g])' <= ChanCap
        /\ \A k \in DOMAIN chan'[g] : chan'[g][k] = Taken(g)' + k
    BY <1>5, <1>6, <2>2, <2>3
  <2> QED
    BY <2>1, <2>4 DEF ChannelInv
<1>9. \A h \in Runs : Taken(h)' \in Nat /\ Taken(h) <= Taken(h)' /\ (Taken(h)' = Taken(h) \/ h \in cut')
  <2>1. ASSUME NEW h \in Runs, h # g PROVE Taken(h)' \in Nat /\ Taken(h) <= Taken(h)' /\ Taken(h)' = Taken(h)
    <3>1. Taken(h) \in Nat
      BY RunNumbers
    <3> QED
      BY <1>6, <2>1, <3>1
  <2>2. n - m \in Nat /\ n - Len(c) <= n - m /\ (n - m = n - Len(c) \/ full)
    BY <1>2, <1>3
  <2>3. full => g \in cut'
    BY <1>1
  <2> QED
    BY <1>6, <2>1, <2>2, <2>3
<1>10. \A h \in served : Drained(h) => Drained(h)'
  <2>1. ASSUME NEW h \in served, Drained(h) PROVE Drained(h)'
    <3>1. h # g /\ h \in Runs
      BY <1>1, <2>1, RunNumbers DEF Drained, Closed
    <3> QED
      BY <1>1, <1>5, <2>1, <3>1 DEF Drained, Closed
  <2> QED
    BY <2>1
<1>11. cut \subseteq cut'
  BY <1>1
<1> QED
  BY <1>1, <1>7, <1>8, <1>9, <1>10, <1>11, ProcessStep

LEMMA WayStart == ForwarderInit => WayInv
<1> SUFFICES ASSUME ForwarderInit PROVE WayInv
  OBVIOUS
<1>1. None \in Forwarder /\ None.pc = "none" /\ None.run = 0 /\ None.batch = <<>> /\ None.cancelled = FALSE
  BY NoLines DEF None, Forwarder, Pcs
<1>2. /\ run = 0 /\ running = FALSE /\ served = {} /\ cut = {} /\ evicted = FALSE
      /\ \A g \in Runs : written[g] = 0 /\ chan[g] = <<>> /\ got[g] = <<>>
      /\ \A f \in Forwarders : fwd[f] = None /\ wire[f] = <<>>
  BY DEF ForwarderInit
<1>3. ForwardTypes
  <2>1. /\ written \in [Runs -> Nat] /\ chan \in [Runs -> Seq(Nat)] /\ got \in [Runs -> Seq(Nat)]
        /\ fwd \in [Forwarders -> Forwarder] /\ wire \in [Forwarders -> Seq(Seq(Nat))]
    BY <1>1, NoLines DEF ForwarderInit
  <2>2. run \in 0 .. MaxRuns
    BY <1>2, ForwarderAssumption
  <2> QED
    BY <1>2, <2>1, <2>2 DEF ForwardTypes
<1>4. \A g \in Runs : Taken(g) = 0 /\ Len(chan[g]) = 0 /\ DOMAIN chan[g] = {}
  BY <1>2 DEF Taken
<1>5. ChannelInv
  BY <1>2, <1>4, ForwarderAssumption DEF ChannelInv
<1>6. LifeInv
  BY <1>1, <1>2 DEF LifeInv, Life
<1>7. PathInv
  <2>1. \A g \in Runs : OnTheWay(evicted, Taken(g), got[g], <<>>, <<>>)
    <3>1. 0 \in Nat /\ OnTheWay(FALSE, 0, <<>>, <<>>, <<>>)
      BY NoLines DEF OnTheWay
    <3> QED
      BY <1>2, <1>4, <3>1
  <2> QED
    BY <1>1, <1>2, <2>1 DEF PathInv
<1> QED
  BY <1>2, <1>3, <1>4, <1>5, <1>6, <1>7 DEF WayInv, WholeInv, UnservedInv

-----------------------------------------------------------------------------
(* Every line, once and in order.                                          *)

\* Lines in order of which none is missing are the lines of the run: the first one that
\* is out of its place would be later than its place, and nobody could be there.
LEMMA AllInOrder ==
    ASSUME NEW n \in Nat, NEW s \in Seq(Nat), Within(s, n), InOrder(FALSE, s), \A l \in 1 .. n : Has(s, l)
    PROVE  s = [l \in 1 .. n |-> l]
<1> DEFINE R == OpToRel(<, Nat)
           B == {k \in DOMAIN s : s[k] # k}
           m == Len(s)
<1>1. m \in Nat /\ DOMAIN s = 1 .. m /\ s = [k \in DOMAIN s |-> s[k]]
  OBVIOUS
<1> HIDE DEF m
<1>2. \A k \in DOMAIN s : s[k] \in 1 .. n
  BY DEF Within
<1>3. \A j, k \in DOMAIN s : j < k => s[j] < s[k]
  BY DEF InOrder, Apart
<1>4. B = {}
  <2> SUFFICES ASSUME B # {} PROVE FALSE
    OBVIOUS
  <2>1. B \subseteq Nat
    BY <1>1
  <2>2. \E k \in B : \A j \in B : <<j, k>> \notin R
    <3> HIDE DEF B
    <3> QED
      BY <2>1, WFMin, NatLessThanWellFounded
  <2>3. PICK k \in B : \A j \in B : ~(j < k)
    BY <2>1, <2>2 DEF OpToRel
  <2>4. k \in 1 .. m /\ s[k] # k /\ s[k] \in 1 .. n /\ \A j \in 1 .. m : j < k => s[j] = j
    BY <1>1, <1>2, <2>3
  <2>5. k < s[k]
    <3>1. CASE k = 1
      BY <2>4, <3>1
    <3>2. CASE k # 1
      <4>1. k - 1 \in 1 .. m /\ k - 1 < k
        BY <1>1, <2>4, <3>2
      <4>2. k - 1 < s[k]
        BY <1>1, <1>3, <2>4, <4>1
      <4> QED
        BY <2>4, <4>2
    <3> QED
      BY <3>1, <3>2
  <2>6. k \in 1 .. n
    BY <2>4, <2>5
  <2>7. PICK j \in DOMAIN s : s[j] = k
    BY <2>6 DEF Has
  <2>8. j \in 1 .. m /\ (j < k \/ j = k \/ k < j)
    BY <1>1, <2>4, <2>7
  <2>9. CASE k < j
    <3>1. s[k] < s[j]
      BY <1>1, <1>3, <2>4, <2>8, <2>9
    <3> QED
      BY <2>4, <2>5, <2>7, <3>1
  <2> QED
    BY <2>4, <2>7, <2>8, <2>9
<1>5. \A k \in 1 .. m : s[k] = k /\ k \in 1 .. n
  BY <1>1, <1>2, <1>4
<1>6. \A l \in 1 .. n : l \in 1 .. m
  BY <1>1, <1>5 DEF Has
<1>7. 1 .. m = 1 .. n
  BY <1>5, <1>6
<1> QED
  BY <1>1, <1>5, <1>7

LEMMA WayKeep == ReaderInv /\ WayInv /\ [ForwarderNext]_forwarderVars => WayInv'
<1> SUFFICES ASSUME ReaderInv, WayInv, [ForwarderNext]_forwarderVars PROVE WayInv'
  OBVIOUS
<1>1. active = 0 \/ active \in Forwarders
  BY DEF ReaderInv
<1>2. ASSUME NEW f \in Forwarders PROVE \A e \in Forwarders : e # f /\ fwd[e].run # 0 /\ fwd[e].run = fwd[f].run => evicted
  BY DEF ReaderInv
<1>3. CASE Start \/ Exit \/ UNCHANGED forwarderVars
  BY <1>3, StartExitStep
<1>4. CASE WriteLine
  BY <1>4, WriteStep
<1>5. CASE Tick
  BY <1>1, <1>5, TickIs, TickWay
<1>6. ASSUME NEW f \in Forwarders, TakeLine(f) PROVE WayInv'
  BY <1>6, TakeLineStep
<1>7. ASSUME NEW f \in Forwarders, Ended(f) PROVE WayInv'
  BY <1>7, EndedStep
<1>8. ASSUME NEW f \in Forwarders, ReportMetrics(f) PROVE WayInv'
  BY <1>2, <1>8, ReceiveStep
<1> QED
  BY <1>3, <1>4, <1>5, <1>6, <1>7, <1>8, QuietSteps DEF ForwarderNext

\* Whatever breaks and whenever the process is started again, the master gets the lines of
\* a run in order and each at most once, all of them by the time the last forwarder has
\* ended if nothing was cut, and none without a forwarder; an evicted entry costs only
\* the order (runLogStream, sendBatch, ReportMetrics).
THEOREM RunsStayForwarded == ForwarderSpec => []RunIsForwarded
<1>1. ASSUME WayInv PROVE RunIsForwarded
  <2> SUFFICES ASSUME NEW g \in Runs
        PROVE  /\ IF evicted THEN IsInjective(got[g])
                  ELSE \A j \in 1 .. Len(got[g]) : \A k \in 1 .. j - 1 : got[g][k] < got[g][j]
               /\ g \notin served => got[g] = <<>>
               /\ (g \in served \ cut /\ g <= run /\ Closed(g) /\ Readers(g) = {}) =>
                     IF evicted THEN ToSet(got[g]) = ToSet([l \in 1 .. written[g] |-> l])
                     ELSE got[g] = [l \in 1 .. written[g] |-> l]
    BY DEF RunIsForwarded
  <2>1. /\ OnTheWay(evicted, Taken(g), got[g], <<>>, <<>>) /\ evicted \in BOOLEAN
        /\ got[g] \in Seq(Nat) /\ DOMAIN got[g] = 1 .. Len(got[g]) /\ Len(got[g]) \in Nat
        /\ Within(got[g], Taken(g)) /\ InOrder(evicted, got[g]) /\ Taken(g) \in Nat
    BY <1>1, RunNumbers DEF WayInv, ForwardTypes, PathInv, OnTheWay
  <2>2. IF evicted THEN IsInjective(got[g])
        ELSE \A j \in 1 .. Len(got[g]) : \A k \in 1 .. j - 1 : got[g][k] < got[g][j]
    <3>1. CASE evicted
      <4>1. \A j, k \in 1 .. Len(got[g]) : j < k => got[g][j] # got[g][k]
        BY <2>1, <3>1 DEF InOrder, Apart
      <4>2. \A j, k \in 1 .. Len(got[g]) : got[g][j] = got[g][k] => j = k
        <5>1. \A j, k \in 1 .. Len(got[g]) : j < k \/ j = k \/ k < j
          BY <2>1
        <5> QED
          BY <4>1, <5>1
      <4> QED
        BY <2>1, <3>1, <4>2 DEF IsInjective
    <3>2. CASE ~evicted
      <4> SUFFICES ASSUME NEW j \in 1 .. Len(got[g]), NEW k \in 1 .. j - 1 PROVE got[g][k] < got[g][j]
        BY <3>2
      <4>1. k \in 1 .. Len(got[g]) /\ k < j
        BY <2>1
      <4> QED
        BY <2>1, <3>2, <4>1 DEF InOrder, Apart
    <3> QED
      BY <3>1, <3>2
  <2>3. g \notin served => got[g] = <<>>
    BY <1>1 DEF WayInv, UnservedInv
  <2>4. ASSUME g \in served \ cut, Readers(g) = {}
        PROVE  IF evicted THEN ToSet(got[g]) = ToSet([l \in 1 .. written[g] |-> l])
               ELSE got[g] = [l \in 1 .. written[g] |-> l]
    <3> DEFINE all == [l \in 1 .. written[g] |-> l]
    <3>1. Whole(g) /\ \A f \in Forwarders : fwd[f].run # g
      BY <1>1, <2>4 DEF WayInv, WholeInv, Readers
    <3>2. (\A l \in 1 .. Taken(g) : Has(got[g], l)) /\ chan[g] = <<>>
      BY <3>1 DEF Whole, Drained
    <3>3. Taken(g) = written[g]
      <4>1. Len(chan[g]) = 0 /\ Taken(g) + Len(chan[g]) = written[g]
        BY <1>1, <3>2, RunNumbers
      <4> QED
        BY <2>1, <4>1
    <3>4. CASE evicted
      <4>1. \A l \in ToSet(got[g]) : l \in 1 .. Taken(g)
        BY <2>1 DEF ToSet, Within
      <4>2. \A l \in 1 .. Taken(g) : l \in ToSet(got[g])
        BY <3>2 DEF ToSet, Has
      <4>3. ToSet(all) = 1 .. written[g]
        BY DEF ToSet
      <4> QED
        BY <3>3, <3>4, <4>1, <4>2, <4>3
    <3>5. CASE ~evicted
      <4>1. InOrder(FALSE, got[g])
        BY <2>1, <3>5
      <4>2. got[g] = [l \in 1 .. Taken(g) |-> l]
        BY <2>1, <3>2, <4>1, AllInOrder
      <4> QED
        BY <3>3, <3>5, <4>2
    <3> QED
      BY <3>4, <3>5
  <2> QED
    BY <2>2, <2>3, <2>4
<1> QED
  BY <1>1, ReaderStart, ReaderKeep, WayStart, WayKeep, PTL DEF ForwarderSpec

\* A log channel never has more lines than its capacity, whatever is started, written and
\* taken, and the map of forwarders names a forwarder or none (readLogStream,
\* logStreamLoop).
THEOREM ForwarderTypes == ForwarderSpec => []ForwarderTypeOK
<1>1. ASSUME ReaderInv, WayInv PROVE ForwarderTypeOK
  <2>1. \A f \in Forwarders : fwd[f].pc \in Pcs
    BY <1>1 DEF WayInv, ForwardTypes, Forwarder
  <2> QED
    BY <1>1, <2>1 DEF ForwarderTypeOK, ReaderInv, WayInv, ForwardTypes, ChannelInv, Pcs
<1> QED
  BY <1>1, ReaderStart, ReaderKeep, WayStart, WayKeep, PTL DEF ForwarderSpec
=============================================================================
