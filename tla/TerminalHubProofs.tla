------------------------- MODULE TerminalHubProofs -------------------------
(***************************************************************************)
(* Theorems about TerminalHub, for any set of browsers, any chunks and any *)
(* budgets: what the gateway coroutines, the relay and the pumps keep      *)
(* between them, whatever the channels hold, and then what the channels    *)
(* hold and what every browser is still to get of it.                      *)
(***************************************************************************)
EXTENDS TerminalHub, Integers, WellFoundedInduction, SequenceTheorems, TLAPS

(* Every set of naturals with a member has a least one, so that what holds *)
(* of 0 and of each successor holds of all.                                *)
LEMMA LeastNatural ==
  ASSUME NEW T \in SUBSET Nat, T # {}
  PROVE  \E n \in T : \A m \in T : n <= m
<1> DEFINE R == OpToRel(<, Nat)
<1>1. IsWellFoundedOn(R, Nat)
  BY NatLessThanWellFounded, Zenon
<1>2. PICK n \in T : \A m \in T : ~(<<m, n>> \in R)
  BY <1>1, WFMin, Zenon
<1>3. \A m \in Nat : m < n => <<m, n>> \in R
  BY DEF OpToRel
<1> HIDE DEF R
<1>4. ASSUME NEW m \in T PROVE n <= m
  <2>1. ~(m < n)
    BY <1>2, <1>3
  <2> QED BY <2>1
<1> QED BY <1>4

LEMMA Induction ==
  ASSUME NEW S, 0 \in S, \A n \in Nat : n \in S => n + 1 \in S
  PROVE  \A n \in Nat : n \in S
<1> SUFFICES ASSUME Nat \ S # {} PROVE FALSE
  OBVIOUS
<1>1. PICK n \in Nat \ S : \A m \in Nat \ S : n <= m
  BY LeastNatural
<1>2. n # 0
  OBVIOUS
<1>3. n - 1 \in Nat /\ n - 1 \in S
  BY <1>1, <1>2
<1> QED BY <1>3

(* The recursive definition of Sums has a solution, so Sums is one.        *)
LEMMA SumsDef ==
  ASSUME NEW q \in Seq(Nat)
  PROVE  Sums(q) = [k \in 0 .. Len(q) |-> IF k = 0 THEN 0 ELSE Sums(q)[k - 1] + q[k]]
<1> DEFINE IsSum(f, n) == f = [k \in 0 .. n |-> IF k = 0 THEN 0 ELSE f[k - 1] + q[k]]
           S == {n \in Nat : \E f : IsSum(f, n)}
<1>1. 0 \in S
  <2>1. IsSum([k \in 0 .. 0 |-> 0], 0)
    OBVIOUS
  <2> QED BY <2>1
<1>2. ASSUME NEW n \in Nat, n \in S PROVE n + 1 \in S
  <2>1. PICK f : IsSum(f, n)
    BY <1>2
  <2> DEFINE g == [k \in 0 .. n + 1 |-> IF k <= n THEN f[k] ELSE f[n] + q[n + 1]]
  <2>2. ASSUME NEW k \in 0 .. n + 1 PROVE g[k] = IF k = 0 THEN 0 ELSE g[k - 1] + q[k]
    <3>1. CASE k = 0
      BY <2>1, <3>1
    <3>2. CASE k \in 1 .. n
      <4>1. k - 1 \in 0 .. n + 1 /\ k - 1 <= n /\ k \in 0 .. n
        BY <3>2
      <4>2. f[k] = f[k - 1] + q[k]
        BY <2>1, <3>2, <4>1
      <4> QED BY <3>2, <4>1, <4>2
    <3>3. CASE k = n + 1
      BY <3>3
    <3> QED BY <3>1, <3>2, <3>3
  <2>3. IsSum(g, n + 1)
    BY <2>2
  <2> HIDE DEF g
  <2>4. \E h : IsSum(h, n + 1)
    BY <2>3
  <2>5. n + 1 \in Nat
    OBVIOUS
  <2> HIDE DEF IsSum
  <2> QED BY <2>4, <2>5
<1>3. Len(q) \in S
  <2> HIDE DEF S
  <2>1. \A n \in Nat : n \in S
    BY <1>1, <1>2, Induction
  <2>2. Len(q) \in Nat
    BY LenProperties
  <2> QED BY <2>1, <2>2
<1>4. PICK f : IsSum(f, Len(q))
  BY <1>3
<1> QED BY <1>4 DEF Sums

LEMMA SumsAt ==
  ASSUME NEW q \in Seq(Nat)
  PROVE  /\ Sums(q)[0] = 0
         /\ \A k \in Nat : k < Len(q) => Sums(q)[k + 1] = Sums(q)[k] + q[k + 1]
<1> DEFINE s == Sums(q)
<1>1. Len(q) \in Nat
  BY LenProperties
<1>2. s = [k \in 0 .. Len(q) |-> IF k = 0 THEN 0 ELSE s[k - 1] + q[k]]
  BY SumsDef
<1> HIDE DEF s
<1>3. s[0] = 0
  BY <1>1, <1>2
<1>4. ASSUME NEW k \in Nat, k < Len(q) PROVE s[k + 1] = s[k] + q[k + 1]
  <2>1. k + 1 \in 0 .. Len(q) /\ k + 1 # 0 /\ (k + 1) - 1 = k
    BY <1>1, <1>4
  <2> QED BY <1>2, <2>1
<1> QED BY <1>3, <1>4 DEF s

LEMMA SumsType == ASSUME NEW q \in Seq(Nat) PROVE Sums(q) \in [0 .. Len(q) -> Nat]
<1> DEFINE S == {n \in Nat : n <= Len(q) => Sums(q)[n] \in Nat}
<1>1. 0 \in S
  BY SumsDef, LenProperties
<1>2. ASSUME NEW n \in Nat, n \in S PROVE n + 1 \in S
  <2>1. SUFFICES ASSUME n + 1 <= Len(q) PROVE Sums(q)[n + 1] \in Nat
    OBVIOUS
  <2>2. n + 1 \in 1 .. Len(q) /\ Len(q) \in Nat
    BY <2>1, LenProperties
  <2>3. Sums(q)[n + 1] = Sums(q)[n] + q[n + 1]
    BY <2>2, SumsDef
  <2> QED BY <1>2, <2>2, <2>3
<1>3. \A n \in Nat : n \in S
  <2> HIDE DEF S
  <2> QED BY <1>1, <1>2, Induction
<1>4. Len(q) \in Nat
  BY LenProperties
<1> QED BY <1>3, <1>4, SumsDef

(* Two sequences that agree up to n have the same sum up to n.             *)
LEMMA SumsPrefix ==
  ASSUME NEW p \in Seq(Nat), NEW q \in Seq(Nat), NEW n \in Nat,
         n <= Len(p), n <= Len(q), \A i \in 1 .. n : p[i] = q[i]
  PROVE  Sums(p)[n] = Sums(q)[n]
<1> DEFINE S == {k \in Nat : k <= n => Sums(p)[k] = Sums(q)[k]}
<1>0. Len(p) \in Nat /\ Len(q) \in Nat
  BY LenProperties
<1>1. 0 \in S
  BY <1>0, SumsDef
<1>2. ASSUME NEW k \in Nat, k \in S PROVE k + 1 \in S
  <2>1. SUFFICES ASSUME k + 1 <= n PROVE Sums(p)[k + 1] = Sums(q)[k + 1]
    OBVIOUS
  <2>2. Sums(p)[k + 1] = Sums(p)[k] + p[k + 1]
    BY <1>0, <2>1, SumsDef
  <2>3. Sums(q)[k + 1] = Sums(q)[k] + q[k + 1]
    BY <1>0, <2>1, SumsDef
  <2> QED BY <1>2, <2>1, <2>2, <2>3
<1>3. n \in S
  <2> HIDE DEF S
  <2>1. \A k \in Nat : k \in S
    BY <1>1, <1>2, Induction
  <2> QED BY <2>1
<1> QED BY <1>3

LEMMA TotalEmpty == ASSUME NEW q \in Seq(Nat), Len(q) = 0 PROVE Total(q) = 0
  BY SumsAt DEF Total

LEMMA TotalType == ASSUME NEW q \in Seq(Nat) PROVE Total(q) \in Nat
  BY SumsType, LenProperties DEF Total

LEMMA TotalAppend ==
  ASSUME NEW q \in Seq(Nat), NEW x \in Nat
  PROVE  Total(Append(q, x)) = Total(q) + x
<1> DEFINE p == Append(q, x)
<1>1. /\ p \in Seq(Nat) /\ Len(q) \in Nat /\ Len(p) = Len(q) + 1
      /\ p[Len(q) + 1] = x /\ \A i \in 1 .. Len(q) : p[i] = q[i]
  OBVIOUS
<1> HIDE DEF p
<1>2. Sums(p)[Len(q)] = Sums(q)[Len(q)]
  <2>1. Len(q) <= Len(p) /\ Len(q) <= Len(q) /\ \A i \in 1 .. Len(q) : p[i] = q[i]
    BY <1>1
  <2> QED BY <1>1, <2>1, SumsPrefix
<1>3. Sums(p)[Len(q) + 1] = Sums(p)[Len(q)] + x
  <2>1. Len(q) < Len(p)
    BY <1>1
  <2> QED BY <1>1, <2>1, SumsAt
<1> QED BY <1>1, <1>2, <1>3 DEF Total, p

LEMMA TotalTail ==
  ASSUME NEW q \in Seq(Nat), q # <<>>
  PROVE  Total(q) = Head(q) + Total(Tail(q))
<1> DEFINE t == Tail(q)
<1>1. /\ t \in Seq(Nat) /\ Len(q) \in Nat \ {0} /\ Len(t) = Len(q) - 1
      /\ Head(q) = q[1] /\ q[1] \in Nat /\ \A i \in 1 .. Len(t) : t[i] = q[i + 1]
  OBVIOUS
<1> HIDE DEF t
<1>0. Len(t) \in Nat /\ \A k \in Nat : k <= Len(t) => k < Len(q)
  BY <1>1
<1> DEFINE S == {k \in Nat : k <= Len(t) => Sums(q)[k + 1] = q[1] + Sums(t)[k]}
<1>2. 0 \in S
  <2>1. Sums(q)[0] = 0 /\ Sums(t)[0] = 0
    BY <1>1, SumsAt
  <2>2. Sums(q)[0 + 1] = Sums(q)[0] + q[0 + 1]
    BY <1>0, SumsAt
  <2> QED BY <1>1, <2>1, <2>2
<1>3. ASSUME NEW k \in Nat, k \in S PROVE k + 1 \in S
  <2>1. SUFFICES ASSUME k + 1 <= Len(t) PROVE Sums(q)[(k + 1) + 1] = q[1] + Sums(t)[k + 1]
    OBVIOUS
  <2>2. Sums(q)[(k + 1) + 1] = Sums(q)[k + 1] + q[(k + 1) + 1]
    <3>1. k + 1 \in Nat /\ k + 1 < Len(q)
      BY <1>0, <2>1
    <3> QED BY <3>1, SumsAt
  <2>3. Sums(t)[k + 1] = Sums(t)[k] + t[k + 1]
    <3>1. k < Len(t)
      BY <1>0, <2>1
    <3> QED BY <1>1, <3>1, SumsAt
  <2>4. Sums(q)[k + 1] = q[1] + Sums(t)[k]
    BY <1>0, <1>3, <2>1
  <2>5. Sums(t)[k] \in Nat
    <3>1. k \in 0 .. Len(t)
      BY <1>0, <2>1
    <3> QED BY <1>1, <3>1, SumsType
  <2>6. t[k + 1] \in Nat /\ t[k + 1] = q[(k + 1) + 1]
    <3>1. k + 1 \in 1 .. Len(t)
      BY <1>0, <2>1
    <3> QED BY <1>1, <3>1, ElementOfSeq
  <2> QED BY <1>1, <2>2, <2>3, <2>4, <2>5, <2>6
<1>4. Len(t) \in S
  <2> HIDE DEF S
  <2>1. \A n \in Nat : n \in S
    BY <1>2, <1>3, Induction
  <2> QED BY <1>0, <2>1
<1>5. Len(q) = Len(t) + 1
  BY <1>1
<1> QED BY <1>0, <1>1, <1>4, <1>5 DEF Total, t

-----------------------------------------------------------------------------
(* What appending to a queue and taking its head do to its counts.         *)

LEMMA OnesOf ==
  ASSUME NEW q \in Seq(Items), NEW kind
  PROVE  /\ Ones(q, kind) \in Seq(Nat) /\ Len(Ones(q, kind)) = Len(q)
         /\ \A i \in 1 .. Len(q) :
               Ones(q, kind)[i] = IF q[i].kind = kind THEN 1 ELSE 0
<1>1. Len(q) \in Nat /\ DOMAIN q = 1 .. Len(q)
  BY LenProperties
<1> QED BY <1>1 DEF Ones

LEMMA SizesOf ==
  ASSUME NEW q \in Seq(Items)
  PROVE  /\ Sizes(q) \in Seq(Nat) /\ Len(Sizes(q)) = Len(q)
         /\ \A i \in 1 .. Len(q) : Sizes(q)[i] = q[i].size
<1>1. Len(q) \in Nat /\ DOMAIN q = 1 .. Len(q)
  BY LenProperties
<1>2. \A i \in 1 .. Len(q) : q[i].size \in Nat
  <2> SUFFICES ASSUME NEW i \in 1 .. Len(q) PROVE q[i].size \in Nat
    OBVIOUS
  <2>1. q[i] \in Items
    BY ElementOfSeq
  <2> QED BY <2>1 DEF Items
<1> QED BY <1>1, <1>2 DEF Sizes

LEMMA CountsAppend ==
  ASSUME NEW q \in Seq(Items), NEW e \in Items
  PROVE  /\ \A kind : Total(Ones(Append(q, e), kind)) =
                 Total(Ones(q, kind)) + (IF e.kind = kind THEN 1 ELSE 0)
         /\ Total(Sizes(Append(q, e))) = Total(Sizes(q)) + e.size
<1> DEFINE p == Append(q, e)
<1>1. /\ p \in Seq(Items) /\ Len(q) \in Nat /\ Len(p) = Len(q) + 1
      /\ p[Len(q) + 1] = e /\ \A i \in 1 .. Len(q) : p[i] = q[i]
  OBVIOUS
<1> HIDE DEF p
<1>2. ASSUME NEW kind
      PROVE  Total(Ones(p, kind)) = Total(Ones(q, kind)) + (IF e.kind = kind THEN 1 ELSE 0)
  <2> DEFINE x == IF e.kind = kind THEN 1 ELSE 0
             a == Append(Ones(q, kind), x)
  <2>1. x \in Nat
    OBVIOUS
  <2>2. Ones(q, kind) \in Seq(Nat) /\ Ones(p, kind) \in Seq(Nat) /\ a \in Seq(Nat)
    BY <1>1, <2>1, OnesOf
  <2>3. Len(Ones(p, kind)) = Len(q) + 1 /\ Len(a) = Len(q) + 1
    BY <1>1, <2>1, OnesOf
  <2>4. \A i \in 1 .. Len(q) + 1 : Ones(p, kind)[i] = a[i]
    <3>1. ASSUME NEW i \in 1 .. Len(q) PROVE Ones(p, kind)[i] = a[i]
      BY <1>1, OnesOf
    <3>2. Ones(p, kind)[Len(q) + 1] = x
      BY <1>1, OnesOf
    <3>3. a[Len(q) + 1] = x
      BY <1>1, <2>1, OnesOf
    <3>4. Len(q) \in Nat
      BY <1>1
    <3>5. \A i \in 1 .. Len(q) + 1 : i \in 1 .. Len(q) \/ i = Len(q) + 1
      BY <3>4
    <3> HIDE DEF a
    <3> QED BY <3>1, <3>2, <3>3, <3>5
  <2>5. Ones(p, kind) = a
    BY <2>2, <2>3, <2>4, SeqEqual
  <2> HIDE DEF x
  <2>6. Total(a) = Total(Ones(q, kind)) + x
    BY <2>1, <2>2, TotalAppend
  <2> QED BY <2>5, <2>6 DEF x
<1>3. Total(Sizes(p)) = Total(Sizes(q)) + e.size
  <2> DEFINE a == Append(Sizes(q), e.size)
  <2>1. e.size \in Nat
    BY DEF Items
  <2>2. Sizes(q) \in Seq(Nat) /\ Sizes(p) \in Seq(Nat) /\ a \in Seq(Nat)
    BY <1>1, <2>1, SizesOf
  <2>3. Len(Sizes(p)) = Len(q) + 1 /\ Len(a) = Len(q) + 1
    BY <1>1, <2>1, SizesOf
  <2>4. \A i \in 1 .. Len(q) + 1 : Sizes(p)[i] = a[i]
    <3>1. ASSUME NEW i \in 1 .. Len(q) PROVE Sizes(p)[i] = a[i]
      <4>1. Sizes(p)[i] = p[i].size /\ Sizes(q)[i] = q[i].size /\ p[i] = q[i]
        <5>1. i \in 1 .. Len(p) /\ p[i] = q[i]
          BY <1>1
        <5> QED BY <1>1, <5>1, SizesOf
      <4>2. a[i] = Sizes(q)[i]
        BY <2>1, SizesOf
      <4> QED BY <4>1, <4>2
    <3>2. Sizes(p)[Len(q) + 1] = e.size
      <4>1. Len(q) + 1 \in 1 .. Len(p)
        BY <1>1
      <4> QED BY <1>1, <4>1, SizesOf
    <3>3. a[Len(q) + 1] = e.size
      BY <1>1, <2>1, SizesOf
    <3>4. Len(q) \in Nat
      BY <1>1
    <3>5. \A i \in 1 .. Len(q) + 1 : i \in 1 .. Len(q) \/ i = Len(q) + 1
      BY <3>4
    <3> HIDE DEF a
    <3> QED BY <3>1, <3>2, <3>3, <3>5
  <2>5. Sizes(p) = a
    BY <2>2, <2>3, <2>4, SeqEqual
  <2> QED BY <2>1, <2>2, <2>5, TotalAppend
<1> QED BY <1>2, <1>3 DEF p

LEMMA CountsTail ==
  ASSUME NEW q \in Seq(Items), q # <<>>
  PROVE  /\ \A kind : Total(Ones(q, kind)) =
                 (IF Head(q).kind = kind THEN 1 ELSE 0) + Total(Ones(Tail(q), kind))
         /\ Total(Sizes(q)) = Head(q).size + Total(Sizes(Tail(q)))
<1> DEFINE t == Tail(q)
<1>1. /\ t \in Seq(Items) /\ Len(q) \in Nat \ {0} /\ Len(t) = Len(q) - 1
      /\ Head(q) = q[1] /\ \A i \in 1 .. Len(t) : t[i] = q[i + 1]
  OBVIOUS
<1> HIDE DEF t
<1>2. ASSUME NEW kind
      PROVE  Total(Ones(q, kind)) =
                 (IF q[1].kind = kind THEN 1 ELSE 0) + Total(Ones(t, kind))
  <2> DEFINE o == Ones(q, kind)
  <2>1. /\ o \in Seq(Nat) /\ Len(o) = Len(q) /\ o # <<>>
        /\ o[1] = IF q[1].kind = kind THEN 1 ELSE 0
    BY <1>1, OnesOf
  <2>2. /\ Tail(o) \in Seq(Nat) /\ Len(Tail(o)) = Len(t) /\ Head(o) = o[1]
        /\ \A i \in 1 .. Len(t) : Tail(o)[i] = o[i + 1]
    BY <1>1, <2>1
  <2>3. Ones(t, kind) \in Seq(Nat) /\ Len(Ones(t, kind)) = Len(t)
    BY <1>1, OnesOf
  <2>4. ASSUME NEW i \in 1 .. Len(t) PROVE Ones(t, kind)[i] = Tail(o)[i]
    <3>1. i + 1 \in 1 .. Len(q)
      BY <1>1
    <3>2. o[i + 1] = IF q[i + 1].kind = kind THEN 1 ELSE 0
      BY <3>1, OnesOf
    <3>3. Ones(t, kind)[i] = IF t[i].kind = kind THEN 1 ELSE 0
      BY <1>1, OnesOf
    <3>4. t[i] = q[i + 1] /\ Tail(o)[i] = o[i + 1]
      BY <1>1, <2>2
    <3> QED BY <3>2, <3>3, <3>4
  <2>5. Ones(t, kind) = Tail(o)
    BY <2>2, <2>3, <2>4, SeqEqual
  <2> HIDE DEF o
  <2> QED BY <2>1, <2>2, <2>5, TotalTail DEF o
<1>3. Total(Sizes(q)) = q[1].size + Total(Sizes(t))
  <2> DEFINE o == Sizes(q)
  <2>1. o \in Seq(Nat) /\ Len(o) = Len(q) /\ o # <<>> /\ o[1] = q[1].size
    BY <1>1, SizesOf
  <2>2. /\ Tail(o) \in Seq(Nat) /\ Len(Tail(o)) = Len(t) /\ Head(o) = o[1]
        /\ \A i \in 1 .. Len(t) : Tail(o)[i] = o[i + 1]
    BY <1>1, <2>1
  <2>3. Sizes(t) \in Seq(Nat) /\ Len(Sizes(t)) = Len(t)
    BY <1>1, SizesOf
  <2>4. ASSUME NEW i \in 1 .. Len(t) PROVE Sizes(t)[i] = Tail(o)[i]
    <3>1. i + 1 \in 1 .. Len(q)
      BY <1>1
    <3>2. o[i + 1] = q[i + 1].size
      BY <3>1, SizesOf
    <3>3. Sizes(t)[i] = t[i].size
      BY <1>1, SizesOf
    <3>4. t[i] = q[i + 1] /\ Tail(o)[i] = o[i + 1]
      BY <1>1, <2>2
    <3> QED BY <3>2, <3>3, <3>4
  <2>5. Sizes(t) = Tail(o)
    BY <2>2, <2>3, <2>4, SeqEqual
  <2> HIDE DEF o
  <2> QED BY <2>1, <2>2, <2>5, TotalTail DEF o
<1> QED BY <1>1, <1>2, <1>3 DEF t
-----------------------------------------------------------------------------
(* Each method of a channel keeps its accounts.                            *)

Sound(ch) ==
    /\ ch \in Channels /\ ChannelOK(ch)
    /\ ~ch.overflowed => Queued(ch, "overflow") = 0

LEMMA Kinds ==
  /\ OverflowNotice \in Items /\ Control \in Items /\ EndOfChannel \in Items
  /\ \A id \in 0 .. Len(SizeOf), size \in Nat :
        Output(id, size) \in Items /\ Output(id, size).kind = "output"
        /\ Output(id, size).size = size /\ Output(id, size).id = id
  /\ OverflowNotice.kind = "overflow" /\ OverflowNotice.size = 0
  /\ Control.kind = "control" /\ Control.size = 0
  /\ EndOfChannel.kind = "end" /\ EndOfChannel.size = 0
<1>1. Len(SizeOf) \in Nat
  BY HubAssumption, LenProperties
<1> QED BY <1>1 DEF Items, Item, Output, OverflowNotice, Control, EndOfChannel

(* The counts of a queue with nothing in it.                               *)
LEMMA CountsEmpty ==
  ASSUME NEW q \in Seq(Items), Len(q) = 0
  PROVE  (\A kind : Total(Ones(q, kind)) = 0) /\ Total(Sizes(q)) = 0
  BY OnesOf, SizesOf, TotalEmpty

LEMMA CountsNat ==
  ASSUME NEW q \in Seq(Items)
  PROVE  (\A kind : Total(Ones(q, kind)) \in Nat) /\ Total(Sizes(q)) \in Nat
  BY OnesOf, SizesOf, TotalType

LEMMA ChannelFields ==
  ASSUME NEW ch \in Channels
  PROVE  /\ ch = [items |-> ch.items, frames |-> ch.frames, bytes |-> ch.bytes,
                  control |-> ch.control, overflowed |-> ch.overflowed, closed |-> ch.closed]
         /\ ch.items \in Seq(Items)
         /\ ch.frames \in Nat /\ ch.bytes \in Nat /\ ch.control \in Nat
         /\ ch.overflowed \in BOOLEAN /\ ch.closed \in BOOLEAN
  BY DEF Channels

LEMMA EmptySound == Sound(EmptyChannel)
<1> DEFINE q == EmptyChannel.items
<1>1. /\ EmptyChannel \in Channels /\ q \in Seq(Items) /\ Len(q) = 0
      /\ EmptyChannel.frames = 0 /\ EmptyChannel.bytes = 0 /\ EmptyChannel.control = 0
      /\ ~EmptyChannel.closed /\ ~EmptyChannel.overflowed
  BY DEF EmptyChannel, Channels
<1>2. /\ Queued(EmptyChannel, "output") = 0 /\ Queued(EmptyChannel, "control") = 0
      /\ Queued(EmptyChannel, "overflow") = 0 /\ Total(Sizes(EmptyChannel.items)) = 0
  BY <1>1, CountsEmpty DEF Queued
<1>3. 0 <= MaxFrames /\ 0 <= MaxBytes /\ 0 <= MaxControl
  BY ChannelAssumption
<1> QED BY <1>1, <1>2, <1>3 DEF Sound, ChannelOK

LEMMA SendOutputSound ==
  ASSUME NEW ch, Sound(ch), NEW id \in 0 .. Len(SizeOf), NEW size \in Nat
  PROVE  LET new == SendOutput(ch, id, size)
         IN  /\ Sound(new) /\ new.closed = ch.closed
             /\ ch.overflowed => new = ch
             /\ ~ch.closed /\ ~ch.overflowed =>
                   \/ new.overflowed /\ new.items = Append(ch.items, OverflowNotice)
                   \/ ~new.overflowed /\ new.items = Append(ch.items, Output(id, size))
<1> DEFINE e == Output(id, size)
<1>1. ch \in Channels /\ ch.items \in Seq(Items) /\ e \in Items
      /\ e.kind = "output" /\ e.size = size
  BY Kinds DEF Sound, Channels
<1>2. CASE ch.closed \/ ch.overflowed
  BY <1>2 DEF SendOutput
<1>3. CASE ~(ch.closed \/ ch.overflowed) /\ Full(ch, size)
  <2> DEFINE new == [ch EXCEPT !.overflowed = TRUE, !.items = Append(@, OverflowNotice)]
  <2>1. new = SendOutput(ch, id, size)
    BY <1>3 DEF SendOutput
  <2>2. /\ new \in Channels /\ new.items = Append(ch.items, OverflowNotice)
        /\ new.overflowed /\ new.closed = ch.closed
        /\ new.frames = ch.frames /\ new.bytes = ch.bytes /\ new.control = ch.control
    <3> DEFINE q == Append(ch.items, OverflowNotice)
    <3>1. q \in Seq(Items)
      BY <1>1, Kinds
    <3>2. new = [ch EXCEPT !.overflowed = TRUE, !.items = q]
      OBVIOUS
    <3> HIDE DEF q, new
    <3>3. /\ new \in Channels /\ new.items = q /\ new.overflowed
          /\ new.closed = ch.closed /\ new.frames = ch.frames
          /\ new.bytes = ch.bytes /\ new.control = ch.control
      BY <1>1, <3>1, <3>2 DEF Channels
    <3> QED BY <3>3 DEF q
  <2> HIDE DEF new
  <2>3. /\ Queued(new, "output") = Queued(ch, "output")
        /\ Queued(new, "control") = Queued(ch, "control")
        /\ Queued(new, "overflow") = Queued(ch, "overflow") + 1
        /\ Total(Sizes(new.items)) = Total(Sizes(ch.items))
    <3> DEFINE n == OverflowNotice
    <3>1. n \in Items /\ n.kind = "overflow" /\ n.size = 0
      BY Kinds
    <3> HIDE DEF n
    <3>2. new.items = Append(ch.items, n)
      BY <2>2 DEF n
    <3>3. \A kind : Total(Ones(new.items, kind)) =
              Total(Ones(ch.items, kind)) + (IF n.kind = kind THEN 1 ELSE 0)
      BY <1>1, <3>1, <3>2, CountsAppend
    <3>4. Total(Sizes(new.items)) = Total(Sizes(ch.items)) + n.size
      BY <1>1, <3>1, <3>2, CountsAppend
    <3> QED BY <1>1, <3>1, <3>3, <3>4, CountsNat DEF Queued
  <2>4. ChannelOK(new)
    BY <1>1, <1>3, <2>2, <2>3 DEF Sound, ChannelOK
  <2>5. Sound(new)
    BY <2>2, <2>4 DEF Sound
  <2> QED BY <1>3, <2>1, <2>2, <2>5
<1>4. CASE ~(ch.closed \/ ch.overflowed) /\ ~Full(ch, size)
  <2> DEFINE new == [ch EXCEPT !.items = Append(@, e),
                               !.frames = @ + 1, !.bytes = @ + size]
  <2>1. new = SendOutput(ch, id, size)
    BY <1>4 DEF SendOutput
  <2>2. /\ new \in Channels /\ new.items = Append(ch.items, e)
        /\ new.overflowed = ch.overflowed /\ new.closed = ch.closed
        /\ new.frames = ch.frames + 1 /\ new.bytes = ch.bytes + size
        /\ new.control = ch.control
    <3> DEFINE q == Append(ch.items, e)
               f == ch.frames + 1
               n == ch.bytes + size
    <3>1. q \in Seq(Items) /\ f \in Nat /\ n \in Nat
      BY <1>1, ChannelFields
    <3>2. new = [ch EXCEPT !.items = q, !.frames = f, !.bytes = n]
      OBVIOUS
    <3> HIDE DEF q, f, n, new
    <3>3. /\ new \in Channels /\ new.items = q /\ new.frames = f /\ new.bytes = n
          /\ new.control = ch.control /\ new.overflowed = ch.overflowed
          /\ new.closed = ch.closed
      BY <1>1, <3>1, <3>2 DEF Channels
    <3> QED BY <3>3 DEF q, f, n
  <2> HIDE DEF new, e
  <2>3. /\ Queued(new, "output") = Queued(ch, "output") + 1
        /\ Queued(new, "control") = Queued(ch, "control")
        /\ Queued(new, "overflow") = Queued(ch, "overflow")
        /\ Total(Sizes(new.items)) = Total(Sizes(ch.items)) + size
    BY <1>1, <2>2, CountsAppend, CountsNat DEF Queued
  <2>4. new.frames <= MaxFrames /\ new.bytes <= MaxBytes
    BY <1>1, <1>4, <2>2, ChannelAssumption DEF Full, Channels
  <2>5. ChannelOK(new)
    BY <1>1, <1>4, <2>2, <2>3, <2>4 DEF Sound, ChannelOK
  <2>6. Sound(new)
    BY <1>1, <1>4, <2>2, <2>3, <2>5 DEF Sound
  <2> QED BY <1>4, <2>1, <2>2, <2>6 DEF e
<1> QED BY <1>2, <1>3, <1>4

LEMMA SendControlSound ==
  ASSUME NEW ch, Sound(ch)
  PROVE  LET new == SendControl(ch)
         IN  /\ Sound(new) /\ new.closed = ch.closed /\ new.overflowed = ch.overflowed
             /\ new.items = ch.items \/ new.items = Append(ch.items, Control)
<1>1. ch \in Channels /\ ch.items \in Seq(Items)
  BY DEF Sound, Channels
<1>2. CASE ch.closed \/ ch.control >= MaxControl
  BY <1>2 DEF SendControl
<1>3. CASE ~(ch.closed \/ ch.control >= MaxControl)
  <2> DEFINE new == [ch EXCEPT !.items = Append(@, Control), !.control = @ + 1]
  <2>1. new = SendControl(ch)
    BY <1>3 DEF SendControl
  <2>2. /\ new \in Channels /\ new.items = Append(ch.items, Control)
        /\ new.overflowed = ch.overflowed /\ new.closed = ch.closed
        /\ new.frames = ch.frames /\ new.bytes = ch.bytes /\ new.control = ch.control + 1
    <3> DEFINE q == Append(ch.items, Control)
               c == ch.control + 1
    <3>1. q \in Seq(Items) /\ c \in Nat
      BY <1>1, Kinds, ChannelFields
    <3>2. new = [ch EXCEPT !.items = q, !.control = c]
      OBVIOUS
    <3> HIDE DEF q, c, new
    <3>3. /\ new \in Channels /\ new.items = q /\ new.control = c
          /\ new.frames = ch.frames /\ new.bytes = ch.bytes
          /\ new.overflowed = ch.overflowed /\ new.closed = ch.closed
      BY <1>1, <3>1, <3>2 DEF Channels
    <3> QED BY <3>3 DEF q, c
  <2> HIDE DEF new
  <2>3. /\ Queued(new, "output") = Queued(ch, "output")
        /\ Queued(new, "control") = Queued(ch, "control") + 1
        /\ Queued(new, "overflow") = Queued(ch, "overflow")
        /\ Total(Sizes(new.items)) = Total(Sizes(ch.items))
    BY <1>1, <2>2, Kinds, CountsAppend, CountsNat DEF Queued
  <2>4. new.control <= MaxControl
    BY <1>1, <1>3, <2>2, ChannelAssumption DEF Channels
  <2>5. ChannelOK(new)
    BY <1>1, <1>3, <2>2, <2>3, <2>4 DEF Sound, ChannelOK
  <2>6. Sound(new)
    BY <1>1, <2>2, <2>3, <2>5 DEF Sound
  <2> QED BY <2>1, <2>2, <2>6
<1> QED BY <1>2, <1>3

LEMMA GetSound ==
  ASSUME NEW ch, Sound(ch), ch.items # <<>>
  PROVE  /\ Sound(Get(ch)) /\ Head(ch.items) \in Items
         /\ Get(ch).items = Tail(ch.items)
         /\ Get(ch).overflowed = ch.overflowed /\ Get(ch).closed = ch.closed
<1> DEFINE e == Head(ch.items)
           t == Tail(ch.items)
           output == IF e.kind = "output" THEN 1 ELSE 0
           control == IF e.kind = "control" THEN 1 ELSE 0
           overflow == IF e.kind = "overflow" THEN 1 ELSE 0
           f == IF e.kind = "output" THEN ch.frames - 1 ELSE ch.frames
           c == IF e.kind = "control" THEN ch.control - 1 ELSE ch.control
           n == ch.bytes - e.size
           new == Get(ch)
<1>1. ch \in Channels /\ ch.items \in Seq(Items) /\ e \in Items /\ t \in Seq(Items)
  BY DEF Sound, Channels
<1>2. /\ Queued(ch, "output") = output + Total(Ones(t, "output"))
      /\ Queued(ch, "control") = control + Total(Ones(t, "control"))
      /\ Queued(ch, "overflow") = overflow + Total(Ones(t, "overflow"))
      /\ Total(Sizes(ch.items)) = e.size + Total(Sizes(t))
  BY <1>1, CountsTail DEF Queued
<1>3. /\ Total(Ones(t, "output")) \in Nat
      /\ Total(Ones(t, "control")) \in Nat
      /\ Total(Ones(t, "overflow")) \in Nat
      /\ Total(Sizes(t)) \in Nat
  BY <1>1, CountsNat
<1>4. e.size \in Nat
  BY <1>1 DEF Items
<1>5. /\ ch.frames = Queued(ch, "output") /\ ch.control = Queued(ch, "control")
      /\ ch.bytes = Total(Sizes(ch.items)) /\ ch.frames \in Nat /\ ch.bytes \in Nat
      /\ ch.control \in Nat
      /\ ch.frames <= MaxFrames /\ ch.bytes <= MaxBytes /\ ch.control <= MaxControl
      /\ Queued(ch, "overflow") <= 1 /\ (ch.closed => ch.frames = 0 /\ ch.control = 0)
      /\ ~ch.overflowed => Queued(ch, "overflow") = 0
  BY <1>1 DEF Sound, ChannelOK, Channels
<1> HIDE DEF e, t
<1>6. f = Total(Ones(t, "output")) /\ c = Total(Ones(t, "control"))
      /\ n = Total(Sizes(t))
  <2>1. f = Total(Ones(t, "output"))
    BY <1>2, <1>3, <1>5
  <2>2. c = Total(Ones(t, "control"))
    BY <1>2, <1>3, <1>5
  <2>3. n = Total(Sizes(t))
    BY <1>2, <1>3, <1>4, <1>5
  <2> QED BY <2>1, <2>2, <2>3
<1>7. f <= ch.frames /\ c <= ch.control /\ n <= ch.bytes
      /\ Total(Ones(t, "overflow")) <= Queued(ch, "overflow")
  <2>1. Total(Ones(t, "overflow")) <= Queued(ch, "overflow")
    BY <1>2, <1>3
  <2> QED BY <1>4, <1>5, <2>1
<1> HIDE DEF f, c, n, output, control, overflow
<1>8. new = [ch EXCEPT !.items = t, !.frames = f, !.bytes = n, !.control = c]
  BY DEF Get, e, t, f, c, n
<1> HIDE DEF new
<1>9. /\ new \in Channels /\ new.items = t /\ new.frames = f
      /\ new.bytes = n /\ new.control = c
      /\ new.overflowed = ch.overflowed /\ new.closed = ch.closed
  BY <1>1, <1>3, <1>6, <1>8 DEF Channels
<1>10. /\ Queued(new, "output") = f /\ Queued(new, "control") = c
       /\ Queued(new, "overflow") = Total(Ones(t, "overflow"))
       /\ Total(Sizes(new.items)) = n
  BY <1>6, <1>9 DEF Queued
<1>11. f <= MaxFrames /\ n <= MaxBytes /\ c <= MaxControl
       /\ Queued(new, "overflow") <= 1
  <2>1. f \in Nat /\ n \in Nat /\ c \in Nat
    BY <1>3, <1>6
  <2>2. f <= MaxFrames /\ n <= MaxBytes /\ c <= MaxControl
    BY <1>5, <1>7, <2>1, ChannelAssumption
  <2>3. Queued(ch, "overflow") \in Nat
    BY <1>1, CountsNat DEF Queued
  <2>4. Queued(new, "overflow") <= 1
    BY <1>3, <1>5, <1>7, <1>10, <2>3
  <2> QED BY <2>2, <2>4
<1>12. ch.closed => f = 0 /\ c = 0
  BY <1>3, <1>5, <1>6, <1>7
<1>13. ~ch.overflowed => Queued(new, "overflow") = 0
  BY <1>3, <1>5, <1>7, <1>10
<1>14. Sound(new)
  BY <1>9, <1>10, <1>11, <1>12, <1>13 DEF Sound, ChannelOK
<1> QED BY <1>1, <1>9, <1>14 DEF new, e, t

LEMMA CloseSound ==
  ASSUME NEW ch, Sound(ch)
  PROVE  Sound(Close(ch)) /\ Close(ch).closed
<1>1. ch \in Channels
  BY DEF Sound
<1>2. CASE ch.closed
  BY <1>2 DEF Close
<1>3. CASE ~ch.closed
  <2> DEFINE q == <<EndOfChannel>>
             new == [ch EXCEPT !.items = q, !.closed = TRUE,
                               !.frames = 0, !.bytes = 0, !.control = 0]
  <2>1. new = Close(ch)
    BY <1>3 DEF Close
  <2>2. q \in Seq(Items) /\ q # <<>> /\ Head(q) = EndOfChannel /\ Len(Tail(q)) = 0
        /\ Tail(q) \in Seq(Items)
    BY Kinds
  <2> HIDE DEF q
  <2>3. /\ new \in Channels /\ new.items = q /\ new.closed
        /\ new.frames = 0 /\ new.bytes = 0 /\ new.control = 0
    BY <1>1, <2>2 DEF Channels
  <2> HIDE DEF new
  <2>4. \A kind : Total(Ones(Tail(q), kind)) = 0
    BY <2>2, CountsEmpty
  <2>5. Total(Sizes(Tail(q))) = 0
    BY <2>2, CountsEmpty
  <2>6. Total(Ones(q, "output")) = 0 /\ Total(Ones(q, "control")) = 0
        /\ Total(Ones(q, "overflow")) = 0
    BY <2>2, <2>4, Kinds, CountsTail
  <2>7. Total(Sizes(q)) = 0
    BY <2>2, <2>5, Kinds, CountsTail
  <2>8. 0 <= MaxFrames /\ 0 <= MaxBytes /\ 0 <= MaxControl
    BY ChannelAssumption
  <2> QED BY <2>1, <2>3, <2>6, <2>7, <2>8 DEF Sound, ChannelOK, Queued
<1> QED BY <1>2, <1>3
-----------------------------------------------------------------------------
(* What a browser will still get: in order, each chunk after `from` up to  *)
(* a last one, and then nothing or, once overflowed, the notice.           *)
Stream(items, from, to, overflowed) ==
    /\ InOrder(items)
    /\ \E last \in from .. to :
          /\ Ids(items) = from + 1 .. last
          /\ IF overflowed THEN NoticeEnds(items) ELSE last = to

LEMMA StreamEmpty == ASSUME NEW n \in Nat PROVE Stream(<<>>, n, n, FALSE)
<1>1. Outputs(<<>>) = {}
  BY DEF Outputs
<1>2. InOrder(<<>>) /\ Ids(<<>>) = {}
  BY <1>1 DEF InOrder, Ids
<1>3. n + 1 .. n = {} /\ n \in n .. n
  OBVIOUS
<1> QED BY <1>2, <1>3 DEF Stream

(* Where the outputs of a longer queue are.                                *)
LEMMA OutputsAppend ==
  ASSUME NEW q \in Seq(Items), NEW e \in Items
  PROVE  /\ Append(q, e) \in Seq(Items) /\ Len(q) \in Nat
         /\ DOMAIN q = 1 .. Len(q) /\ DOMAIN Append(q, e) = 1 .. Len(q) + 1
         /\ \A i \in 1 .. Len(q) : Append(q, e)[i] = q[i]
         /\ Append(q, e)[Len(q) + 1] = e
         /\ Outputs(q) \subseteq 1 .. Len(q)
         /\ Outputs(Append(q, e)) =
              Outputs(q) \cup (IF e.kind = "output" THEN {Len(q) + 1} ELSE {})
<1> DEFINE p == Append(q, e)
<1>1. /\ p \in Seq(Items) /\ Len(q) \in Nat
      /\ DOMAIN q = 1 .. Len(q) /\ DOMAIN p = 1 .. Len(q) + 1
      /\ \A i \in 1 .. Len(q) : p[i] = q[i]
      /\ p[Len(q) + 1] = e
  OBVIOUS
<1> HIDE DEF p
<1>2. \A i \in 1 .. Len(q) + 1 : i \in 1 .. Len(q) \/ i = Len(q) + 1
  BY <1>1
<1>3. Outputs(q) \subseteq 1 .. Len(q)
  BY <1>1 DEF Outputs
<1>4. \A i : i \in Outputs(p) <=>
               i \in Outputs(q) \/ (e.kind = "output" /\ i = Len(q) + 1)
  BY <1>1, <1>2 DEF Outputs
<1> QED BY <1>1, <1>3, <1>4 DEF p

(* Whatever is appended, the notice stays after the outputs before it...   *)
LEMMA StreamControl ==
  ASSUME NEW q \in Seq(Items), NEW e \in Items, e.kind # "output",
         NEW from \in Nat, NEW to \in Nat, NEW overflowed,
         Stream(q, from, to, overflowed)
  PROVE  Stream(Append(q, e), from, to, overflowed)
<1> DEFINE p == Append(q, e)
<1>0. /\ Len(q) \in Nat /\ DOMAIN q = 1 .. Len(q) /\ DOMAIN p = 1 .. Len(q) + 1
      /\ \A i \in 1 .. Len(q) : p[i] = q[i]
      /\ Outputs(q) \subseteq 1 .. Len(q)
      /\ Outputs(p) = Outputs(q) \cup (IF e.kind = "output" THEN {Len(q) + 1} ELSE {})
  BY OutputsAppend
<1> HIDE DEF p
<1>1. Outputs(p) = Outputs(q) /\ 1 .. Len(q) \subseteq DOMAIN p
  BY <1>0
<1>2. InOrder(p) <=> InOrder(q)
  BY <1>0, <1>1 DEF InOrder
<1>3. Ids(p) = Ids(q)
  BY <1>0, <1>1 DEF Ids
<1>4. NoticeEnds(q) => NoticeEnds(p)
  BY <1>0, <1>1 DEF NoticeEnds
<1> QED BY <1>2, <1>3, <1>4 DEF Stream, p

(* ...a chunk that fits is the next one...                                 *)
LEMMA StreamOutput ==
  ASSUME NEW q \in Seq(Items), NEW e \in Items, e.kind = "output",
         NEW from \in Nat, NEW to \in Nat, e.id = to + 1,
         Stream(q, from, to, FALSE)
  PROVE  Stream(Append(q, e), from, to + 1, FALSE)
<1> DEFINE p == Append(q, e)
<1>1. /\ Len(q) \in Nat /\ \A i \in 1 .. Len(q) : p[i] = q[i]
      /\ p[Len(q) + 1] = e /\ Outputs(q) \subseteq 1 .. Len(q)
      /\ Outputs(p) = Outputs(q) \cup {Len(q) + 1}
  BY OutputsAppend
<1> HIDE DEF p
<1>2. to \in from .. to /\ Ids(q) = from + 1 .. to /\ InOrder(q)
  BY DEF Stream
<1>3. InOrder(p)
  <2> SUFFICES ASSUME NEW i \in Outputs(p), NEW j \in Outputs(p), i < j
               PROVE  p[i].id < p[j].id
    BY DEF InOrder
  <2>1. i \in Outputs(q) /\ i \in 1 .. Len(q)
    BY <1>1
  <2>2. CASE j \in Outputs(q)
    BY <1>1, <1>2, <2>1, <2>2 DEF InOrder
  <2>3. CASE j = Len(q) + 1
    <3>1. q[i].id \in from + 1 .. to
      BY <1>2, <2>1 DEF Ids
    <3> QED BY <1>1, <2>1, <2>3, <3>1
  <2> QED BY <1>1, <2>2, <2>3
<1>4. Ids(p) = Ids(q) \cup {to + 1}
  <2>1. \A i \in Outputs(q) : p[i] = q[i]
    BY <1>1
  <2> QED BY <1>1, <2>1 DEF Ids
<1>5. (from + 1 .. to) \cup {to + 1} = from + 1 .. to + 1 /\ to + 1 \in from .. to + 1
  BY <1>2
<1> QED BY <1>2, <1>3, <1>4, <1>5 DEF Stream, p

(* ...one that does not is replaced by the notice...                       *)
LEMMA StreamNotice ==
  ASSUME NEW q \in Seq(Items), NEW e \in Items, e = OverflowNotice, e.kind # "output",
         NEW from \in Nat, NEW to \in Nat, Stream(q, from, to, FALSE)
  PROVE  Stream(Append(q, e), from, to + 1, TRUE)
<1> DEFINE p == Append(q, e)
<1>0. /\ Len(q) \in Nat /\ DOMAIN p = 1 .. Len(q) + 1 /\ p[Len(q) + 1] = e
      /\ Outputs(q) \subseteq 1 .. Len(q)
      /\ Outputs(p) = Outputs(q) \cup (IF e.kind = "output" THEN {Len(q) + 1} ELSE {})
  BY OutputsAppend
<1>2. Stream(p, from, to, FALSE)
  BY StreamControl
<1> HIDE DEF p
<1>1. /\ Outputs(p) \subseteq 1 .. Len(q) /\ Len(q) \in Nat
      /\ p[Len(q) + 1] = e /\ Len(q) + 1 \in DOMAIN p
  BY <1>0
<1>3. NoticeEnds(p)
  <2>1. \A j \in Outputs(p) : j < Len(q) + 1
    BY <1>1
  <2> QED BY <1>1, <2>1 DEF NoticeEnds
<1>4. \A last \in from .. to : last \in from .. to + 1
  OBVIOUS
<1> QED BY <1>2, <1>3, <1>4 DEF Stream, p

(* ...and the chunks after that are not for it.                            *)
LEMMA StreamBehind ==
  ASSUME NEW q, NEW from \in Nat, NEW to \in Nat, Stream(q, from, to, TRUE)
  PROVE  Stream(q, from, to + 1, TRUE)
<1>1. \A last \in from .. to : last \in from .. to + 1
  OBVIOUS
<1> QED BY <1>1 DEF Stream

(* Where the outputs are behind an item in hand.                           *)
LEMMA OutputsBehind ==
  ASSUME NEW q \in Seq(Items), NEW h \in Items
  PROVE  /\ <<h>> \o q \in Seq(Items) /\ Len(q) \in Nat
         /\ DOMAIN q = 1 .. Len(q) /\ DOMAIN (<<h>> \o q) = 1 .. Len(q) + 1
         /\ (<<h>> \o q)[1] = h
         /\ \A i \in 1 .. Len(q) : (<<h>> \o q)[i + 1] = q[i]
         /\ Outputs(q) \subseteq 1 .. Len(q) /\ Outputs(<<h>> \o q) \subseteq 1 .. Len(q) + 1
         /\ 1 \in Outputs(<<h>> \o q) <=> h.kind = "output"
         /\ \A i \in 1 .. Len(q) : i + 1 \in Outputs(<<h>> \o q) <=> i \in Outputs(q)
<1> DEFINE p == <<h>> \o q
<1>1. /\ p \in Seq(Items) /\ Len(q) \in Nat
      /\ DOMAIN q = 1 .. Len(q) /\ DOMAIN p = 1 .. Len(q) + 1
      /\ p[1] = h /\ \A i \in 1 .. Len(q) : p[i + 1] = q[i]
  OBVIOUS
<1> HIDE DEF p
<1>2. \A i \in 1 .. Len(q) : i + 1 \in 1 .. Len(q) + 1
  BY <1>1
<1> QED BY <1>1, <1>2 DEF Outputs, p

(* Delivering the item in hand leaves what is behind it in order...        *)
LEMMA OrderBehind ==
  ASSUME NEW q \in Seq(Items), NEW h \in Items, InOrder(<<h>> \o q)
  PROVE  InOrder(q)
<1> DEFINE p == <<h>> \o q
<1> SUFFICES ASSUME NEW i \in Outputs(q), NEW j \in Outputs(q), i < j
             PROVE  q[i].id < q[j].id
  BY DEF InOrder
<1>1. /\ Len(q) \in Nat /\ i \in 1 .. Len(q) /\ j \in 1 .. Len(q)
      /\ p[i + 1] = q[i] /\ p[j + 1] = q[j]
      /\ i + 1 \in Outputs(p) /\ j + 1 \in Outputs(p)
  BY OutputsBehind
<1> HIDE DEF p
<1>2. InOrder(p)
  BY DEF p
<1>3. i + 1 < j + 1
  BY <1>1
<1> QED BY <1>1, <1>2, <1>3 DEF InOrder

(* ...and the notice, if it was not in hand, where it was.                 *)
LEMMA NoticeBehind ==
  ASSUME NEW q \in Seq(Items), NEW h \in Items, h # OverflowNotice,
         NoticeEnds(<<h>> \o q)
  PROVE  NoticeEnds(q)
<1> DEFINE p == <<h>> \o q
<1>1. /\ Len(q) \in Nat /\ DOMAIN q = 1 .. Len(q) /\ DOMAIN p = 1 .. Len(q) + 1
      /\ p[1] = h /\ \A i \in 1 .. Len(q) : p[i + 1] = q[i]
      /\ Outputs(q) \subseteq 1 .. Len(q)
      /\ \A i \in 1 .. Len(q) : i + 1 \in Outputs(p) <=> i \in Outputs(q)
  BY OutputsBehind
<1> HIDE DEF p
<1>2. PICK i \in DOMAIN p : p[i] = OverflowNotice /\ \A j \in Outputs(p) : j < i
  BY DEF NoticeEnds, p
<1>3. i \in Nat /\ i # 1 /\ i - 1 \in 1 .. Len(q) /\ (i - 1) + 1 = i
  BY <1>1, <1>2
<1>4. q[i - 1] = OverflowNotice
  BY <1>1, <1>2, <1>3
<1>5. ASSUME NEW j \in Outputs(q) PROVE j < i - 1
  <2>1. j \in 1 .. Len(q) /\ j + 1 \in Outputs(p)
    BY <1>1
  <2>2. j + 1 < i
    BY <1>2, <2>1
  <2> QED BY <1>3, <2>1, <2>2
<1> QED BY <1>1, <1>3, <1>4, <1>5 DEF NoticeEnds

LEMMA StreamShown ==
  ASSUME NEW q \in Seq(Items), NEW h \in Items, h.kind # "output", h # OverflowNotice,
         NEW from \in Nat, NEW to \in Nat, NEW overflowed,
         Stream(<<h>> \o q, from, to, overflowed)
  PROVE  Stream(q, from, to, overflowed)
<1> DEFINE p == <<h>> \o q
<1>1. Ids(p) = Ids(q)
  <2>1. /\ Len(q) \in Nat /\ \A i \in 1 .. Len(q) : p[i + 1] = q[i]
        /\ Outputs(q) \subseteq 1 .. Len(q) /\ Outputs(p) \subseteq 1 .. Len(q) + 1
        /\ 1 \notin Outputs(p)
        /\ \A i \in 1 .. Len(q) : i + 1 \in Outputs(p) <=> i \in Outputs(q)
    BY OutputsBehind
  <2> HIDE DEF p
  <2>2. ASSUME NEW i \in Outputs(p) PROVE i - 1 \in Outputs(q) /\ q[i - 1] = p[i]
    <3>1. i - 1 \in 1 .. Len(q) /\ (i - 1) + 1 = i
      BY <2>1
    <3> QED BY <2>1, <3>1
  <2>3. ASSUME NEW i \in Outputs(q) PROVE i + 1 \in Outputs(p) /\ p[i + 1] = q[i]
    BY <2>1
  <2> QED BY <2>2, <2>3 DEF Ids
<1> QED BY <1>1, OrderBehind, NoticeBehind DEF Stream

(* The chunk in hand is the next one the browser has not got.              *)
LEMMA StreamSeen ==
  ASSUME NEW q \in Seq(Items), NEW h \in Items, h.kind = "output", h # OverflowNotice,
         NEW from \in Nat, NEW to \in Nat, NEW overflowed,
         Stream(<<h>> \o q, from, to, overflowed)
  PROVE  h.id = from + 1 /\ Stream(q, from + 1, to, overflowed)
<1> DEFINE p == <<h>> \o q
<1>1. /\ Len(q) \in Nat /\ p[1] = h /\ \A i \in 1 .. Len(q) : p[i + 1] = q[i]
      /\ Outputs(q) \subseteq 1 .. Len(q) /\ Outputs(p) \subseteq 1 .. Len(q) + 1
      /\ 1 \in Outputs(p)
      /\ \A i \in 1 .. Len(q) : i + 1 \in Outputs(p) <=> i \in Outputs(q)
  BY OutputsBehind
<1>0. Stream(p, from, to, overflowed)
  OBVIOUS
<1> HIDE DEF p
<1>2. PICK last \in from .. to :
          /\ Ids(p) = from + 1 .. last
          /\ IF overflowed THEN NoticeEnds(p) ELSE last = to
  BY <1>0 DEF Stream
<1>3. InOrder(p)
  BY <1>0 DEF Stream
<1>4. h.id \in from + 1 .. last
  BY <1>1, <1>2 DEF Ids
<1>5. ASSUME NEW i \in Outputs(q) PROVE q[i].id \in from + 1 .. last /\ h.id < q[i].id
  <2>1. i \in 1 .. Len(q) /\ i + 1 \in Outputs(p) /\ p[i + 1] = q[i]
    BY <1>1
  <2>2. 1 < i + 1
    BY <1>1, <2>1
  <2>3. p[1].id < p[i + 1].id
    BY <1>1, <1>3, <2>1, <2>2 DEF InOrder
  <2>4. p[i + 1].id \in from + 1 .. last
    BY <1>2, <2>1 DEF Ids
  <2> QED BY <1>1, <2>1, <2>3, <2>4
<1>6. ASSUME NEW x \in from + 1 .. last, x # h.id PROVE \E i \in Outputs(q) : q[i].id = x
  <2>1. PICK i \in Outputs(p) : p[i].id = x
    BY <1>2 DEF Ids
  <2>2. i # 1 /\ i - 1 \in 1 .. Len(q) /\ (i - 1) + 1 = i
    BY <1>1, <1>6, <2>1
  <2>3. i - 1 \in Outputs(q) /\ q[i - 1].id = x
    BY <1>1, <2>1, <2>2
  <2> QED BY <2>3
<1>7. h.id = from + 1
  <2> SUFFICES ASSUME h.id # from + 1 PROVE FALSE
    OBVIOUS
  <2>1. from + 1 \in from + 1 .. last /\ from + 1 < h.id
    BY <1>4
  <2>2. PICK i \in Outputs(q) : q[i].id = from + 1
    BY <1>6, <2>1
  <2> QED BY <1>4, <1>5, <2>1, <2>2
<1>8. last \in from + 1 .. to
  BY <1>2, <1>4
<1>9. Ids(q) = (from + 1) + 1 .. last
  <2>1. ASSUME NEW x \in Ids(q) PROVE x \in (from + 1) + 1 .. last
    <3>1. PICK i \in Outputs(q) : x = q[i].id
      BY DEF Ids
    <3> QED BY <1>5, <1>7, <3>1
  <2>2. ASSUME NEW x \in (from + 1) + 1 .. last PROVE x \in Ids(q)
    <3>1. x \in from + 1 .. last /\ x # h.id
      BY <1>7
    <3>2. PICK i \in Outputs(q) : q[i].id = x
      BY <1>6, <3>1
    <3> QED BY <3>2 DEF Ids
  <2> QED BY <2>1, <2>2
<1>10. InOrder(q)
  BY <1>3, OrderBehind DEF p
<1>11. NoticeEnds(p) => NoticeEnds(q)
  BY NoticeBehind DEF p
<1> QED BY <1>2, <1>7, <1>8, <1>9, <1>10, <1>11 DEF Stream
-----------------------------------------------------------------------------

(* The part of the type invariant the channels have no say in.             *)
HubTypes ==
    /\ gateway \in [Browsers -> Gateways]
    /\ ws \in [Browsers -> {"open", "closed"}]
    /\ subscribers \subseteq Browsers
    /\ writer \in Browsers \cup {NoBrowser}
    /\ pump \in [Browsers -> {"off", "running", "done"}]
    /\ keys \in [Browsers -> BOOLEAN]
    /\ late \in [Browsers -> Nat]

(* The relay feeds a browser exactly while its coroutine is between        *)
(* subscribe() and _teardown, or has died there.                           *)
SubscribedGateways ==
    \A b \in Browsers :
        b \in subscribers <=> gateway[b] \in Serving \cup {"abandoned"}

(* The socket of a browser whose pump has ended is closed.                 *)
EndedPumps == \A b \in Browsers : pump[b] = "done" => ws[b] = "closed"

(* A keystroke waits only in a receive loop, and neither its sender nor    *)
(* the writer has had a late one: it is the only one that can become late. *)
KeyFacts ==
    \A b \in Browsers :
        /\ keys[b] => gateway[b] = "loop"
        /\ keys[b] \/ writer = b \/ gateway[b] = "new" => late[b] = 0
        /\ late[b] <= 1

HubInv ==
    /\ HubTypes
    /\ SubscribedGateways
    /\ WriterIsSubscribed
    /\ EndedPumps
    /\ KeyFacts

LEMMA HubInit == Init => HubInv
  BY HubAssumption DEF Init, HubInv, HubTypes, SubscribedGateways,
     WriterIsSubscribed, EndedPumps, KeyFacts, Gateways, Serving

(* What the handshake, the attach and the teardown do.                     *)
LEMMA GatewayStep ==
  ASSUME HubInv, NEW b \in Browsers,
         \/ Refuse(b) \/ Subscribe(b) \/ AuditAttach(b) \/ Abandon(b)
         \/ Attached(b) \/ AttachFailed(b) \/ LoopEnds(b) \/ Detached(b)
         \/ BrowserLeaves(b)
  PROVE  HubInv'
<1> USE HubAssumption DEF HubInv, HubTypes, Gateways, Serving, relayVars,
     outputVars, gatewayVars
<1>1. CASE Refuse(b)
  BY <1>1 DEF Refuse, SubscribedGateways, WriterIsSubscribed, EndedPumps,
     KeyFacts
<1>2. CASE BrowserLeaves(b)
  BY <1>2 DEF BrowserLeaves, SubscribedGateways, WriterIsSubscribed, EndedPumps,
     KeyFacts
<1>3. CASE Subscribe(b)
  <2>1. HubTypes' /\ EndedPumps'
    BY <1>3 DEF Subscribe, EndedPumps
  <2>2. SubscribedGateways' /\ WriterIsSubscribed'
    BY <1>3 DEF Subscribe, SubscribedGateways, WriterIsSubscribed
  <2>3. KeyFacts'
    BY <1>3 DEF Subscribe, KeyFacts
  <2> QED BY <2>1, <2>2, <2>3
<1>4. CASE AuditAttach(b)
  BY <1>4 DEF AuditAttach, SubscribedGateways, WriterIsSubscribed, EndedPumps,
     KeyFacts
<1>5. CASE Abandon(b)
  BY <1>5 DEF Abandon, SubscribedGateways, WriterIsSubscribed, EndedPumps,
     KeyFacts
<1>6. CASE Attached(b)
  BY <1>6 DEF Attached, SubscribedGateways, WriterIsSubscribed, EndedPumps,
     KeyFacts
<1>7. CASE Detached(b)
  BY <1>7 DEF Detached, SubscribedGateways, WriterIsSubscribed, EndedPumps,
     KeyFacts
<1>8. CASE AttachFailed(b) \/ LoopEnds(b)
  <2>1. gateway[b] \in {"attaching", "loop"} /\ Teardown(b)
    BY <1>8 DEF AttachFailed, LoopEnds
  <2>2. HubTypes' /\ EndedPumps'
    BY <2>1 DEF Teardown, Unsubscribe, EndedPumps
  <2>3. SubscribedGateways' /\ WriterIsSubscribed'
    BY <2>1 DEF Teardown, Unsubscribe, SubscribedGateways, WriterIsSubscribed
  <2>4. KeyFacts'
    BY <2>1 DEF Teardown, Unsubscribe, KeyFacts
  <2> QED BY <2>2, <2>3, <2>4
<1> QED BY <1>1, <1>2, <1>3, <1>4, <1>5, <1>6, <1>7, <1>8

(* What keystrokes and takeovers do.                                       *)
LEMMA WriterStep ==
  ASSUME HubInv, NEW b \in Browsers,
         Keystroke(b) \/ SendKeystroke(b) \/ DropKeystroke(b) \/ Takeover(b)
  PROVE  HubInv'
<1> USE HubAssumption DEF HubInv, HubTypes, Gateways, Serving, relayVars,
     outputVars, gatewayVars
<1>1. CASE Keystroke(b) \/ DropKeystroke(b)
  BY <1>1 DEF Keystroke, Admitted, DropKeystroke, SubscribedGateways,
     WriterIsSubscribed, EndedPumps, KeyFacts
<1>2. CASE SendKeystroke(b)
  BY <1>2 DEF SendKeystroke, SubscribedGateways, WriterIsSubscribed, EndedPumps,
     KeyFacts
<1>3. CASE Takeover(b)
  BY <1>3 DEF Takeover, SubscribedGateways, WriterIsSubscribed, EndedPumps,
     KeyFacts
<1> QED BY <1>1, <1>2, <1>3

(* What the pump and the fan-out do.                                       *)
LEMMA OutputStep ==
  ASSUME HubInv,
         \/ RouteOutput \/ RouteControl
         \/ \E b \in Browsers : \/ PumpTake(b) \/ PumpDeliver(b)
                                \/ PumpGap(b) \/ PumpBroken(b)
  PROVE  HubInv'
<1> USE HubAssumption DEF HubInv, HubTypes, Gateways, Serving, relayVars,
     gatewayVars, SubscribedGateways, WriterIsSubscribed, EndedPumps, KeyFacts
<1>1. CASE RouteOutput \/ RouteControl
  BY <1>1 DEF RouteOutput, RouteControl
<1>2. ASSUME NEW b \in Browsers, PumpTake(b) \/ PumpDeliver(b) PROVE HubInv'
  BY <1>2 DEF PumpTake, PumpDeliver
<1>3. ASSUME NEW b \in Browsers, PumpGap(b) PROVE HubInv'
  BY <1>3 DEF PumpGap
<1>4. ASSUME NEW b \in Browsers, PumpBroken(b) PROVE HubInv'
  BY <1>4 DEF PumpBroken
<1> QED BY <1>1, <1>2, <1>3, <1>4

LEMMA HubStep == HubInv /\ [Next]_vars => HubInv'
<1> SUFFICES ASSUME HubInv, [Next]_vars PROVE HubInv'
  OBVIOUS
<1>1. CASE UNCHANGED vars
  BY <1>1 DEF vars, gatewayVars, relayVars, outputVars, HubInv, HubTypes,
     SubscribedGateways, WriterIsSubscribed, EndedPumps, KeyFacts
<1>2. CASE Next
  BY <1>2, GatewayStep, WriterStep, OutputStep DEF Next, BrowserNext
<1> QED BY <1>1, <1>2

(* The invariant holds in every reachable state.                           *)
THEOREM HubInvCorrect == Spec => []HubInv
  BY HubInit, HubStep, PTL DEF Spec

(* The writer role is only ever held by a browser the relay still feeds.   *)
THEOREM WriterHolds == Spec => []WriterIsSubscribed
<1>1. HubInv => WriterIsSubscribed
  BY DEF HubInv
<1> QED BY <1>1, HubInvCorrect, PTL

(* A subscriber whose pump has ended has a closed socket, so its receive   *)
(* loop will end and unsubscribe it.                                       *)
THEOREM DeadPumpHolds == Spec => []DeadPumpClosesSocket
<1>1. HubInv => DeadPumpClosesSocket
  BY DEF HubInv, HubTypes, EndedPumps, DeadPumpClosesSocket
<1> QED BY <1>1, HubInvCorrect, PTL

(* A browser that lost the role gets at most the one keystroke through     *)
(* that it had been admitted for.                                          *)
THEOREM LateKeystrokeHolds == Spec => []OneLateKeystroke
<1>1. HubInv => OneLateKeystroke
  BY DEF HubInv, KeyFacts, OneLateKeystroke
<1> QED BY <1>1, HubInvCorrect, PTL
-----------------------------------------------------------------------------
(* What the channels, the pumps and the browsers keep between them.        *)

OutputTypes ==
    /\ channel \in [Browsers -> Channels]
    /\ hand \in [Browsers -> Items \cup {NoItem}]
    /\ routed \in 0 .. Len(SizeOf)
    /\ events \in 0 .. MaxEvents
    /\ seen \in [Browsers -> 0 .. Len(SizeOf)]
    /\ gapped \subseteq Browsers

SoundChannels == \A b \in Browsers : Sound(channel[b])

(* Nothing has been sent to a browser the relay has not heard of,          *)
NewBrowsers ==
    \A b \in Browsers : gateway[b] = "new" =>
        channel[b] = EmptyChannel /\ hand[b] = NoItem /\ pump[b] = "off"

(* a subscriber's channel takes what is sent and has had a pump,           *)
OpenChannels == \A b \in subscribers : ~channel[b].closed /\ pump[b] # "off"

(* a pump that told its browser of a gap is done,                          *)
GapIsLast == \A b \in gapped : pump[b] = "done"

(* and a subscriber is still to get all there is up to a gap.              *)
Fed(b) == Stream(Upcoming(b), seen[b], routed, channel[b].overflowed)
Streams == \A b \in subscribers : pump[b] = "running" => Fed(b)

OutputInv ==
    /\ HubInv /\ OutputTypes /\ SoundChannels /\ NewBrowsers /\ OpenChannels
    /\ GapIsLast /\ Streams

LEMMA SizeOfType ==
  Len(SizeOf) \in Nat /\ \A i \in 1 .. Len(SizeOf) : SizeOf[i] \in Nat
<1>1. SizeOf \in Seq(Nat)
  BY HubAssumption
<1> QED BY <1>1, LenProperties, ElementOfSeq

LEMMA OutputInit == Init => OutputInv
<1> SUFFICES ASSUME Init PROVE OutputInv
  OBVIOUS
<1>1. OutputTypes
  BY EmptySound, SizeOfType, HubAssumption DEF Init, OutputTypes, Sound
<1>2. SoundChannels
  BY EmptySound DEF Init, SoundChannels
<1>3. NewBrowsers /\ OpenChannels /\ GapIsLast /\ Streams
  BY DEF Init, NewBrowsers, OpenChannels, GapIsLast, Streams
<1> QED BY <1>1, <1>2, <1>3, HubInit DEF OutputInv

(* The queue behind what is in hand, as items are added to it and taken.   *)
LEMMA UpcomingType ==
  ASSUME OutputTypes, NEW b \in Browsers
  PROVE  /\ channel[b] \in Channels /\ channel[b].items \in Seq(Items)
         /\ InHand(b) \in Seq(Items) /\ Upcoming(b) \in Seq(Items)
<1>1. channel[b].items \in Seq(Items) /\ channel[b] \in Channels
  BY DEF OutputTypes, Channels
<1>2. InHand(b) \in Seq(Items)
  BY DEF OutputTypes, InHand
<1> QED BY <1>1, <1>2 DEF Upcoming

LEMMA AppendBehind ==
  ASSUME NEW p \in Seq(Items), NEW q \in Seq(Items), NEW e \in Items
  PROVE  p \o Append(q, e) = Append(p \o q, e)
<1> DEFINE s == p \o Append(q, e)
           t == Append(p \o q, e)
<1>1. /\ s \in Seq(Items) /\ t \in Seq(Items) /\ Len(s) = Len(t)
      /\ \A i \in 1 .. Len(s) : s[i] = t[i]
  OBVIOUS
<1> HIDE DEF s, t
<1>2. s = t
  BY <1>1, SeqEqual
<1> QED BY <1>2 DEF s, t

LEMMA NothingInHand ==
  ASSUME NEW q \in Seq(Items)
  PROVE  <<>> \o q = q
  BY ConcatEmptySeq

LEMMA TakenInHand ==
  ASSUME NEW q \in Seq(Items), q # <<>>
  PROVE  <<Head(q)>> \o Tail(q) = q
<1> DEFINE s == <<Head(q)>> \o Tail(q)
<1>1. /\ s \in Seq(Items) /\ Len(s) = Len(q) /\ \A i \in 1 .. Len(q) : s[i] = q[i]
  OBVIOUS
<1> HIDE DEF s
<1>2. s = q
  BY <1>1, SeqEqual
<1> QED BY <1>2 DEF s

(* A step of a gateway that leaves the relay and the output alone.         *)
LEMMA QuietStep ==
  ASSUME OutputInv, HubInv',
         UNCHANGED <<channel, pump, hand, seen, gapped, subscribers, routed, events>>,
         \A b \in Browsers : gateway'[b] = "new" => gateway[b] = "new"
  PROVE  OutputInv'
<1>1. OutputTypes' /\ SoundChannels'
  BY DEF OutputInv, OutputTypes, SoundChannels
<1>2. NewBrowsers' /\ OpenChannels' /\ GapIsLast'
  BY DEF OutputInv, NewBrowsers, OpenChannels, GapIsLast
<1>3. Streams'
  BY DEF OutputInv, Streams, Fed, Upcoming, InHand
<1> QED BY <1>1, <1>2, <1>3 DEF OutputInv

LEMMA SubscribeStep ==
  ASSUME OutputInv, HubInv', NEW b \in Browsers, Subscribe(b)
  PROVE  OutputInv'
<1> USE DEF OutputInv, Subscribe
<1>1. channel[b] = EmptyChannel /\ hand[b] = NoItem /\ pump[b] = "off"
  BY DEF NewBrowsers
<1>2. OutputTypes'
  BY DEF OutputTypes
<1>3. SoundChannels' /\ OpenChannels'
  <2>1. SoundChannels'
    BY DEF SoundChannels
  <2>2. pump'[b] = "running" /\ ~channel[b].closed
    BY <1>1 DEF HubInv, HubTypes, EmptyChannel
  <2>3. \A c \in Browsers : c # b => pump'[c] = pump[c]
    BY DEF HubInv, HubTypes
  <2>4. OpenChannels'
    BY <2>2, <2>3 DEF OpenChannels, HubInv, HubTypes
  <2> QED BY <2>1, <2>4
<1>4. NewBrowsers'
  BY DEF NewBrowsers, HubInv, HubTypes
<1>5. GapIsLast'
  BY <1>1 DEF GapIsLast, HubInv, HubTypes
<1>6. Streams'
  <2> SUFFICES ASSUME NEW c \in subscribers', pump'[c] = "running" PROVE Fed(c)'
    BY DEF Streams
  <2>1. CASE c = b
    <3>1. Upcoming(c)' = <<>>
      BY <1>1, <2>1, NothingInHand DEF Upcoming, InHand, EmptyChannel
    <3>2. seen'[c] = routed /\ routed' = routed /\ routed \in Nat /\ channel'[c] = EmptyChannel
      BY <1>1, <2>1, SizeOfType DEF OutputTypes
    <3>3. EmptyChannel.overflowed = FALSE
      BY DEF EmptyChannel
    <3> QED BY <3>1, <3>2, <3>3, StreamEmpty DEF Fed
  <2>2. CASE c # b
    <3>1. c \in Browsers /\ c \in subscribers /\ pump[c] = "running" /\ seen'[c] = seen[c]
      BY <2>2 DEF HubInv, HubTypes, OutputTypes
    <3>2. Fed(c)
      BY <3>1 DEF Streams
    <3> QED BY <3>1, <3>2 DEF Fed, Upcoming, InHand
  <2> QED BY <2>1, <2>2
<1> QED BY <1>2, <1>3, <1>4, <1>5, <1>6

LEMMA TeardownStep ==
  ASSUME OutputInv, HubInv', NEW b \in Browsers, Teardown(b)
  PROVE  OutputInv'
<1> USE DEF OutputInv, Teardown, Unsubscribe
<1>1. Sound(Close(channel[b]))
  BY CloseSound DEF SoundChannels
<1>2. OutputTypes'
  BY <1>1 DEF OutputTypes, Sound
<1>3. SoundChannels'
  BY <1>1 DEF SoundChannels, OutputTypes
<1>4. NewBrowsers'
  BY DEF NewBrowsers, HubInv, HubTypes, OutputTypes
<1>5. OpenChannels' /\ GapIsLast'
  BY DEF OpenChannels, GapIsLast, HubInv, HubTypes, OutputTypes
<1>6. Streams'
  <2> SUFFICES ASSUME NEW c \in subscribers', pump'[c] = "running" PROVE Fed(c)'
    BY DEF Streams
  <2>1. c \in Browsers /\ c \in subscribers /\ c # b
    BY DEF HubInv, HubTypes
  <2>2. pump[c] = "running" /\ channel'[c] = channel[c] /\ hand'[c] = hand[c]
    BY <2>1 DEF HubInv, HubTypes, OutputTypes
  <2>3. Fed(c)
    BY <2>1, <2>2 DEF Streams
  <2> QED BY <2>2, <2>3 DEF Fed, Upcoming, InHand
<1> QED BY <1>2, <1>3, <1>4, <1>5, <1>6

(* A control frame is queued for each subscriber, or refused.              *)
LEMMA BroadcastStep ==
  ASSUME OutputInv, HubInv', events < MaxEvents, events' = events + 1,
         channel' = Broadcast(subscribers),
         UNCHANGED <<gateway, subscribers, pump, hand, seen, gapped, routed>>
  PROVE  OutputInv'
<1> USE DEF OutputInv
<1>1. ASSUME NEW c \in Browsers
      PROVE  /\ Sound(channel'[c]) /\ channel'[c].closed = channel[c].closed
             /\ channel'[c].overflowed = channel[c].overflowed
             /\ channel'[c].items = channel[c].items
                  \/ channel'[c].items = Append(channel[c].items, Control)
             /\ c \notin subscribers => channel'[c] = channel[c]
  BY SendControlSound DEF Broadcast, SoundChannels
<1>2. channel' \in [Browsers -> Channels]
  BY <1>1 DEF Broadcast, Sound
<1>3. OutputTypes'
  BY <1>2, HubAssumption DEF OutputTypes
<1>4. SoundChannels'
  BY <1>1 DEF SoundChannels
<1>5. NewBrowsers'
  BY <1>1 DEF NewBrowsers, HubInv, SubscribedGateways, Serving
<1>6. OpenChannels' /\ GapIsLast'
  BY <1>1 DEF OpenChannels, GapIsLast, HubInv, HubTypes
<1>7. Streams'
  <2> SUFFICES ASSUME NEW c \in subscribers, pump[c] = "running" PROVE Fed(c)'
    BY DEF Streams
  <2>1. c \in Browsers /\ Fed(c)
    BY DEF HubInv, HubTypes, Streams
  <2>2. CASE channel'[c].items = channel[c].items
    BY <1>1, <2>1, <2>2 DEF Fed, Upcoming, InHand
  <2>3. CASE channel'[c].items = Append(channel[c].items, Control)
    <3>1. Control \in Items /\ Control.kind # "output"
      BY Kinds
    <3>2. Upcoming(c)' = Append(Upcoming(c), Control)
      <4>1. Upcoming(c)' = InHand(c) \o Append(channel[c].items, Control)
        BY <2>3 DEF Upcoming, InHand
      <4> QED BY <2>1, <3>1, <4>1, UpcomingType, AppendBehind DEF Upcoming
    <3>3. seen[c] \in Nat /\ routed \in Nat /\ Upcoming(c) \in Seq(Items)
      BY <2>1, UpcomingType, SizeOfType DEF OutputTypes
    <3>4. Stream(Append(Upcoming(c), Control), seen[c], routed, channel[c].overflowed)
      BY <2>1, <3>1, <3>3, StreamControl DEF Fed
    <3>5. channel'[c].overflowed = channel[c].overflowed /\ seen' = seen /\ routed' = routed
      BY <1>1, <2>1
    <3> QED BY <3>2, <3>4, <3>5 DEF Fed
  <2> QED BY <1>1, <2>1, <2>2, <2>3
<1> QED BY <1>3, <1>4, <1>5, <1>6, <1>7

(* A chunk is queued for each subscriber, or replaced by the notice, or    *)
(* dropped behind one.                                                     *)
LEMMA RouteOutputStep ==
  ASSUME OutputInv, HubInv', RouteOutput
  PROVE  OutputInv'
<1> USE DEF OutputInv
<1> DEFINE n == routed + 1
           size == SizeOf[n]
           e == Output(n, size)
<1>0. n \in 0 .. Len(SizeOf) /\ size \in Nat /\ routed' = n /\ routed \in Nat
  BY SizeOfType DEF RouteOutput, OutputTypes
<1>1. e \in Items /\ e.kind = "output" /\ e.id = n
  BY <1>0, Kinds
<1>2. /\ UNCHANGED <<gateway, subscribers, pump, hand, seen, gapped, events>>
      /\ channel' = [c \in Browsers |-> IF c \in subscribers
                                        THEN SendOutput(channel[c], n, size)
                                        ELSE channel[c]]
  BY DEF RouteOutput, gatewayVars, relayVars
<1> HIDE DEF n, size, e
<1>3. ASSUME NEW c \in Browsers
      PROVE  /\ Sound(channel'[c]) /\ channel'[c].closed = channel[c].closed
             /\ c \notin subscribers => channel'[c] = channel[c]
             /\ c \in subscribers => channel'[c] = SendOutput(channel[c], n, size)
  <2>1. CASE c \in subscribers
    <3>1. channel'[c] = SendOutput(channel[c], n, size)
      BY <1>2, <2>1
    <3>2. Sound(channel[c])
      BY DEF SoundChannels
    <3> QED BY <1>0, <2>1, <3>1, <3>2, SendOutputSound
  <2>2. CASE c \notin subscribers
    BY <1>2, <2>2 DEF SoundChannels
  <2> QED BY <2>1, <2>2
<1>4. channel' \in [Browsers -> Channels]
  <2>1. channel' = [c \in Browsers |-> channel'[c]]
    BY <1>2
  <2>2. \A c \in Browsers : channel'[c] \in Channels
    BY <1>3 DEF Sound
  <2> QED BY <2>1, <2>2
<1>5. OutputTypes'
  BY <1>0, <1>2, <1>4 DEF OutputTypes
<1>6. SoundChannels'
  BY <1>3 DEF SoundChannels
<1>7. NewBrowsers'
  BY <1>2, <1>3 DEF NewBrowsers, HubInv, SubscribedGateways, Serving
<1>8. OpenChannels' /\ GapIsLast'
  BY <1>2, <1>3 DEF OpenChannels, GapIsLast, HubInv, HubTypes
<1>9. Streams'
  <2> SUFFICES ASSUME NEW c \in subscribers, pump[c] = "running" PROVE Fed(c)'
    BY <1>2 DEF Streams
  <2> DEFINE ch == channel[c]
             new == channel'[c]
             u == Upcoming(c)
  <2>1. c \in Browsers /\ Stream(u, seen[c], routed, ch.overflowed)
    BY DEF HubInv, HubTypes, Streams, Fed
  <2>2. u \in Seq(Items) /\ InHand(c) \in Seq(Items) /\ ch.items \in Seq(Items)
        /\ ch.overflowed \in BOOLEAN /\ seen[c] \in Nat
    BY <2>1, UpcomingType, SizeOfType, ChannelFields DEF OutputTypes
  <2>3. Sound(ch) /\ ~ch.closed /\ new = SendOutput(ch, n, size)
    BY <1>3, <2>1 DEF SoundChannels, OpenChannels
  <2>4. Upcoming(c)' = InHand(c) \o new.items
    BY <1>2 DEF Upcoming, InHand
  <2>5. u = InHand(c) \o ch.items
    BY DEF Upcoming
  <2>6. Fed(c)' <=> Stream(InHand(c) \o new.items, seen[c], n, new.overflowed)
    BY <1>0, <1>2, <2>4 DEF Fed
  <2> HIDE DEF ch, new, u
  <2>7. /\ Sound(new)
        /\ ch.overflowed => new = ch
        /\ ~ch.overflowed =>
              \/ new.overflowed /\ new.items = Append(ch.items, OverflowNotice)
              \/ ~new.overflowed /\ new.items = Append(ch.items, e)
    BY <1>0, <2>3, SendOutputSound DEF e
  <2>8. new.overflowed \in BOOLEAN
    BY <2>7, ChannelFields DEF Sound
  <2>9. CASE ch.overflowed
    <3>1. ch.overflowed = TRUE /\ new = ch
      BY <2>2, <2>7, <2>9
    <3>2. Stream(u, seen[c], n, TRUE)
      BY <1>0, <2>1, <2>2, <3>1, StreamBehind DEF n
    <3> QED BY <2>5, <2>6, <3>1, <3>2
  <2>10. CASE ~ch.overflowed /\ new.overflowed /\ new.items = Append(ch.items, OverflowNotice)
    <3>1. ch.overflowed = FALSE /\ new.overflowed = TRUE
      BY <2>2, <2>8, <2>10
    <3>2. OverflowNotice \in Items /\ OverflowNotice.kind # "output"
      BY Kinds
    <3>3. Stream(Append(u, OverflowNotice), seen[c], n, TRUE)
      BY <1>0, <2>1, <2>2, <3>1, <3>2, StreamNotice DEF n
    <3>4. InHand(c) \o new.items = Append(u, OverflowNotice)
      BY <2>2, <2>5, <2>10, <3>2, AppendBehind
    <3> QED BY <2>6, <3>1, <3>3, <3>4
  <2>11. CASE ~ch.overflowed /\ ~new.overflowed /\ new.items = Append(ch.items, e)
    <3>1. ch.overflowed = FALSE /\ new.overflowed = FALSE
      BY <2>2, <2>8, <2>11
    <3>2. e.id = routed + 1
      BY <1>1 DEF n
    <3>3. Stream(Append(u, e), seen[c], n, FALSE)
      BY <1>0, <1>1, <2>1, <2>2, <3>1, <3>2, StreamOutput DEF n
    <3>4. InHand(c) \o new.items = Append(u, e)
      BY <1>1, <2>2, <2>5, <2>11, AppendBehind
    <3> QED BY <2>6, <3>1, <3>3, <3>4
  <2> QED BY <2>7, <2>9, <2>10, <2>11
<1> QED BY <1>5, <1>6, <1>7, <1>8, <1>9

(* The head of the queue is taken in hand: what is upcoming is the same.   *)
LEMMA PumpTakeStep ==
  ASSUME OutputInv, HubInv', NEW b \in Browsers, PumpTake(b)
  PROVE  OutputInv'
<1> USE DEF OutputInv
<1> DEFINE q == channel[b].items
<1>1. /\ pump[b] = "running" /\ hand[b] = NoItem /\ q # <<>>
      /\ channel' = [channel EXCEPT ![b] = Get(channel[b])]
      /\ hand' = [hand EXCEPT ![b] = Head(q)]
      /\ UNCHANGED <<gateway, subscribers, pump, seen, gapped, routed, events>>
  BY DEF PumpTake, gatewayVars, relayVars
<1>2. Sound(channel[b]) /\ q \in Seq(Items)
  BY UpcomingType DEF SoundChannels
<1>3. /\ Sound(Get(channel[b])) /\ Head(q) \in Items /\ Get(channel[b]).items = Tail(q)
      /\ Get(channel[b]).overflowed = channel[b].overflowed
      /\ Get(channel[b]).closed = channel[b].closed
  BY <1>1, <1>2, GetSound
<1>4. channel'[b] = Get(channel[b]) /\ hand'[b] = Head(q)
  BY <1>1 DEF OutputTypes
<1>5. \A c \in Browsers : c # b => channel'[c] = channel[c] /\ hand'[c] = hand[c]
  BY <1>1 DEF OutputTypes
<1> HIDE DEF q
<1>6. OutputTypes'
  <2>1. channel' \in [Browsers -> Channels]
    BY <1>1, <1>3 DEF OutputTypes, Sound
  <2>2. hand' \in [Browsers -> Items \cup {NoItem}]
    BY <1>1, <1>3 DEF OutputTypes
  <2> QED BY <1>1, <2>1, <2>2 DEF OutputTypes
<1>7. SoundChannels'
  BY <1>3, <1>4, <1>5 DEF SoundChannels
<1>8. NewBrowsers'
  BY <1>1, <1>5 DEF NewBrowsers
<1>9. OpenChannels' /\ GapIsLast'
  BY <1>1, <1>3, <1>4, <1>5 DEF OpenChannels, GapIsLast, HubInv, HubTypes
<1>10. Streams'
  <2> SUFFICES ASSUME NEW c \in subscribers, pump[c] = "running" PROVE Fed(c)'
    BY <1>1 DEF Streams
  <2>1. c \in Browsers /\ Fed(c)
    BY DEF HubInv, HubTypes, Streams
  <2>2. CASE c = b
    <3>1. hand'[c] # NoItem
      BY <1>3, <1>4, <2>2, HubAssumption
    <3>2. Upcoming(c)' = <<Head(q)>> \o Tail(q)
      BY <1>3, <1>4, <2>2, <3>1 DEF Upcoming, InHand
    <3>3. Upcoming(c) = q
      BY <1>1, <1>2, <2>2, NothingInHand DEF Upcoming, InHand, q
    <3>4. Upcoming(c)' = Upcoming(c)
      BY <1>1, <1>2, <3>2, <3>3, TakenInHand
    <3>5. channel'[c].overflowed = channel[c].overflowed
      BY <1>3, <1>4, <2>2
    <3> QED BY <1>1, <2>1, <3>4, <3>5 DEF Fed
  <2>3. CASE c # b
    <3>1. channel'[c] = channel[c] /\ hand'[c] = hand[c]
      BY <1>5, <2>1, <2>3
    <3> QED BY <1>1, <2>1, <3>1 DEF Fed, Upcoming, InHand
  <2> QED BY <2>2, <2>3
<1> QED BY <1>6, <1>7, <1>8, <1>9, <1>10

(* What a pump has in hand for a subscriber is the next chunk, or none.    *)
LEMMA InHandIsNext ==
  ASSUME OutputInv, NEW b \in subscribers, pump[b] = "running",
         hand[b] # NoItem, hand[b].kind \in {"output", "control"}
  PROVE  LET q == channel[b].items
             overflowed == channel[b].overflowed
         IN  /\ hand[b].kind = "output" =>
                  hand[b].id = seen[b] + 1 /\ Stream(q, seen[b] + 1, routed, overflowed)
             /\ hand[b].kind # "output" => Stream(q, seen[b], routed, overflowed)
<1> DEFINE q == channel[b].items
           h == hand[b]
           overflowed == channel[b].overflowed
<1>1. b \in Browsers /\ Stream(Upcoming(b), seen[b], routed, overflowed)
  BY DEF OutputInv, HubInv, HubTypes, Streams, Fed
<1>2. h \in Items /\ q \in Seq(Items) /\ seen[b] \in Nat /\ routed \in Nat
  BY <1>1, UpcomingType, SizeOfType DEF OutputInv, OutputTypes
<1>3. Upcoming(b) = <<h>> \o q
  BY DEF Upcoming, InHand
<1>4. h # OverflowNotice /\ h.kind \in {"output", "control"}
  BY Kinds
<1> HIDE DEF q, h, overflowed
<1>5. Stream(<<h>> \o q, seen[b], routed, overflowed)
  BY <1>1, <1>3
<1>6. h.kind = "output" => h.id = seen[b] + 1 /\ Stream(q, seen[b] + 1, routed, overflowed)
  BY <1>2, <1>4, <1>5, StreamSeen
<1>7. h.kind # "output" => Stream(q, seen[b], routed, overflowed)
  BY <1>2, <1>4, <1>5, StreamShown
<1> QED BY <1>6, <1>7 DEF q, h, overflowed

LEMMA PumpDeliverStep ==
  ASSUME OutputInv, HubInv', NEW b \in Browsers, PumpDeliver(b)
  PROVE  OutputInv'
<1> USE DEF OutputInv
<1>1. /\ pump[b] = "running" /\ hand[b] # NoItem /\ hand[b].kind \in {"output", "control"}
      /\ seen' = [seen EXCEPT ![b] = IF hand[b].kind = "output" THEN hand[b].id
                                                                ELSE seen[b]]
      /\ hand' = [hand EXCEPT ![b] = NoItem]
      /\ UNCHANGED <<gateway, subscribers, channel, pump, gapped, routed, events>>
  BY DEF PumpDeliver, gatewayVars, relayVars
<1>2. /\ hand'[b] = NoItem
      /\ seen'[b] = IF hand[b].kind = "output" THEN hand[b].id ELSE seen[b]
      /\ \A c \in Browsers : c # b => seen'[c] = seen[c] /\ hand'[c] = hand[c]
  BY <1>1 DEF OutputTypes
<1>3. OutputTypes'
  <2>1. hand[b].id \in 0 .. Len(SizeOf)
    BY <1>1 DEF OutputTypes, Items
  <2>2. seen' \in [Browsers -> 0 .. Len(SizeOf)]
    BY <1>1, <2>1 DEF OutputTypes
  <2>3. hand' \in [Browsers -> Items \cup {NoItem}]
    BY <1>1 DEF OutputTypes
  <2> QED BY <1>1, <2>2, <2>3 DEF OutputTypes
<1>4. SoundChannels' /\ OpenChannels' /\ GapIsLast'
  BY <1>1 DEF SoundChannels, OpenChannels, GapIsLast
<1>5. NewBrowsers'
  BY <1>1, <1>2 DEF NewBrowsers
<1>6. Streams'
  <2> SUFFICES ASSUME NEW c \in subscribers, pump[c] = "running" PROVE Fed(c)'
    BY <1>1 DEF Streams
  <2>1. c \in Browsers /\ Fed(c)
    BY DEF HubInv, HubTypes, Streams
  <2>2. CASE c = b
    <3>1. Upcoming(c)' = channel[c].items
      BY <1>1, <1>2, <2>1, <2>2, UpcomingType, NothingInHand DEF Upcoming, InHand
    <3>2. Fed(c)' <=> Stream(channel[c].items, seen'[c], routed, channel[c].overflowed)
      BY <1>1, <3>1 DEF Fed
    <3> QED BY <1>1, <1>2, <2>2, <3>2, InHandIsNext
  <2>3. CASE c # b
    <3>1. hand'[c] = hand[c] /\ seen'[c] = seen[c]
      BY <1>2, <2>1, <2>3
    <3> QED BY <1>1, <2>1, <3>1 DEF Fed, Upcoming, InHand
  <2> QED BY <2>2, <2>3
<1> QED BY <1>3, <1>4, <1>5, <1>6

(* After a gap, or a socket that has gone, the pump sends nothing more.    *)
LEMMA PumpEndStep ==
  ASSUME OutputInv, HubInv', NEW b \in Browsers, PumpGap(b) \/ PumpBroken(b)
  PROVE  OutputInv'
<1> USE DEF OutputInv
<1>1. /\ pump[b] = "running" /\ pump' = [pump EXCEPT ![b] = "done"]
      /\ hand' = [hand EXCEPT ![b] = NoItem]
      /\ gapped' \in {gapped, gapped \cup {b}}
      /\ UNCHANGED <<gateway, subscribers, channel, seen, routed, events>>
  BY DEF PumpGap, PumpBroken, gatewayVars, relayVars
<1>2. /\ pump'[b] = "done"
      /\ \A c \in Browsers : c # b => pump'[c] = pump[c] /\ hand'[c] = hand[c]
  BY <1>1 DEF OutputTypes, HubInv, HubTypes
<1>3. OutputTypes'
  BY <1>1 DEF OutputTypes
<1>4. SoundChannels' /\ OpenChannels'
  BY <1>1 DEF SoundChannels, OpenChannels
<1>5. NewBrowsers'
  BY <1>1, <1>2 DEF NewBrowsers
<1>6. GapIsLast'
  BY <1>1, <1>2 DEF GapIsLast, OutputTypes
<1>7. Streams'
  <2> SUFFICES ASSUME NEW c \in subscribers, pump'[c] = "running" PROVE Fed(c)'
    BY <1>1 DEF Streams
  <2>1. c \in Browsers /\ c # b
    BY <1>2 DEF HubInv, HubTypes
  <2>2. pump[c] = "running" /\ hand'[c] = hand[c]
    BY <1>2, <2>1
  <2>3. Fed(c)
    BY <2>2 DEF Streams
  <2> QED BY <1>1, <2>2, <2>3 DEF Fed, Upcoming, InHand
<1> QED BY <1>3, <1>4, <1>5, <1>6, <1>7

LEMMA OutputInvStep == OutputInv /\ [Next]_vars => OutputInv'
<1> SUFFICES ASSUME OutputInv, [Next]_vars PROVE OutputInv'
  OBVIOUS
<1>1. HubInv'
  BY HubStep DEF OutputInv
<1>2. CASE UNCHANGED vars
  BY <1>1, <1>2, QuietStep DEF vars, gatewayVars, relayVars, outputVars
<1>3. CASE RouteOutput
  BY <1>1, <1>3, RouteOutputStep
<1>4. CASE RouteControl
  BY <1>1, <1>4, BroadcastStep DEF RouteControl, gatewayVars, relayVars
<1>5. ASSUME NEW b \in Browsers, BrowserNext(b) PROVE OutputInv'
  <2>1. CASE \/ Refuse(b) \/ AuditAttach(b) \/ Abandon(b) \/ Attached(b)
             \/ Detached(b) \/ BrowserLeaves(b)
    <3>1. UNCHANGED <<channel, pump, hand, seen, gapped, subscribers, routed, events>>
      BY <2>1 DEF Refuse, AuditAttach, Abandon, Attached, Detached, BrowserLeaves,
         relayVars, outputVars
    <3>2. \A c \in Browsers : gateway'[c] = "new" => gateway[c] = "new"
      BY <2>1 DEF Refuse, AuditAttach, Abandon, Attached, Detached, BrowserLeaves,
         OutputInv, HubInv, HubTypes
    <3> QED BY <1>1, <3>1, <3>2, QuietStep
  <2>2. CASE Keystroke(b) \/ SendKeystroke(b) \/ DropKeystroke(b)
    BY <1>1, <2>2, QuietStep
       DEF Keystroke, SendKeystroke, DropKeystroke, gatewayVars, relayVars, outputVars
  <2>3. CASE Subscribe(b)
    BY <1>1, <2>3, SubscribeStep
  <2>4. CASE AttachFailed(b) \/ LoopEnds(b)
    BY <1>1, <2>4, TeardownStep DEF AttachFailed, LoopEnds
  <2>5. CASE Takeover(b)
    BY <1>1, <2>5, BroadcastStep DEF Takeover, gatewayVars
  <2>6. CASE PumpTake(b)
    BY <1>1, <2>6, PumpTakeStep
  <2>7. CASE PumpDeliver(b)
    BY <1>1, <2>7, PumpDeliverStep
  <2>8. CASE PumpGap(b) \/ PumpBroken(b)
    BY <1>1, <2>8, PumpEndStep
  <2> QED BY <1>5, <2>1, <2>2, <2>3, <2>4, <2>5, <2>6, <2>7, <2>8 DEF BrowserNext
<1> QED BY <1>2, <1>3, <1>4, <1>5 DEF Next

THEOREM OutputInvCorrect == Spec => []OutputInv
  BY OutputInit, OutputInvStep, PTL DEF Spec

(* Every variable keeps its kind; of the channels that is the whole of it: *)
(* items of a chunk's size, and counts that never go below zero.           *)
THEOREM HubTypesHold == Spec => []TypeOK
<1>1. OutputInv => TypeOK
  BY DEF OutputInv, HubInv, HubTypes, OutputTypes, TypeOK
<1> QED BY <1>1, OutputInvCorrect, PTL

(* A browser's queue never costs more than its budgets, and the budgets    *)
(* are those of what is queued, for any budgets and any sizes of chunks.   *)
THEOREM ChannelsStayBounded == Spec => []ChannelsBounded
<1>1. OutputInv => ChannelsBounded
  BY DEF OutputInv, SoundChannels, Sound, ChannelsBounded
<1> QED BY <1>1, OutputInvCorrect, PTL

(* No chunk is dropped, repeated or reordered on its way to a subscriber   *)
(* unless the notice of a gap is behind what it still gets.                *)
THEOREM NothingLostSilently == Spec => []NoSilentLoss
<1>1. ASSUME OutputInv PROVE NoSilentLoss
  <2> SUFFICES ASSUME NEW b \in subscribers, pump[b] = "running"
               PROVE  /\ InOrder(Upcoming(b))
                      /\ \E last \in seen[b] .. routed :
                            /\ Ids(Upcoming(b)) = seen[b] + 1 .. last
                            /\ last = routed \/ NoticeEnds(Upcoming(b))
    BY DEF NoSilentLoss
  <2>1. Fed(b)
    BY <1>1 DEF OutputInv, Streams
  <2> QED BY <2>1 DEF Fed, Stream
<1> QED BY <1>1, OutputInvCorrect, PTL

(* A subscriber is written the chunks in the order the daemon sent them,   *)
(* one by one, and none once it has been told of a gap.                    *)
THEOREM ChunksComeInOrder == Spec => DeliveredInOrder
<1> DEFINE Grows == \A b \in Browsers : b \in subscribers /\ seen'[b] # seen[b] =>
                        seen'[b] = seen[b] + 1 /\ b \notin gapped
<1>1. ASSUME OutputInv, [Next]_vars PROVE [Grows]_vars
  <2> SUFFICES ASSUME NEW b \in Browsers, b \in subscribers, seen'[b] # seen[b]
               PROVE  seen'[b] = seen[b] + 1 /\ b \notin gapped
    OBVIOUS
  <2>1. PumpDeliver(b)
    <3>1. seen' # seen
      OBVIOUS
    <3>2. PICK c \in Browsers : Subscribe(c) \/ PumpDeliver(c)
      BY <1>1, <3>1 DEF vars, outputVars, Next, BrowserNext, RouteOutput, RouteControl,
         Refuse, AuditAttach, Abandon, Attached, AttachFailed, LoopEnds, Teardown,
         Detached, BrowserLeaves, Keystroke, SendKeystroke, DropKeystroke, Takeover,
         PumpTake, PumpGap, PumpBroken
    <3>3. c = b
      BY <1>1, <3>2 DEF Subscribe, PumpDeliver, OutputInv, OutputTypes
    <3>4. ~Subscribe(b)
      BY <1>1 DEF Subscribe, OutputInv, HubInv, SubscribedGateways, Serving
    <3> QED BY <3>2, <3>3, <3>4
  <2>2. /\ pump[b] = "running" /\ hand[b] # NoItem /\ hand[b].kind = "output"
        /\ hand[b].kind \in {"output", "control"} /\ seen'[b] = hand[b].id
    BY <1>1, <2>1 DEF PumpDeliver, OutputInv, OutputTypes
  <2>3. hand[b].id = seen[b] + 1
    BY <1>1, <2>2, InHandIsNext
  <2>4. b \notin gapped
    BY <1>1, <2>2 DEF OutputInv, GapIsLast
  <2> QED BY <2>2, <2>3, <2>4
<1> QED BY <1>1, OutputInvCorrect, PTL DEF Spec, DeliveredInOrder

(* The gauge of live browsers is wrong by the leak alone: a subscriber has *)
(* its gateway, or had one that an exception ended before its loop.        *)
OnlyAbandonedLeak ==
    \A b \in subscribers : gateway[b] \in Serving \/ gateway[b] = "abandoned"

(* The relay outlives a gateway by no other way than that exception.       *)
THEOREM LeaksAreAbandoned == Spec => []OnlyAbandonedLeak
<1>1. HubInv => OnlyAbandonedLeak
  BY DEF HubInv, HubTypes, SubscribedGateways, OnlyAbandonedLeak
<1> QED BY <1>1, HubInvCorrect, PTL

(* A subscriber that a chunk was dropped for is about to be told of the    *)
(* gap by a pump that runs, or its socket is closed already: what          *)
(* SlowReaderLeaves rests on besides fairness.                             *)
OverflowIsNoticed ==
    \A b \in subscribers : channel[b].overflowed =>
        \/ pump[b] = "running" /\ NoticeEnds(Upcoming(b))
        \/ ws[b] = "closed"

(* No slow browser is left behind an open socket with nobody to tell it.   *)
THEOREM OverflowGetsNoticed == Spec => []OverflowIsNoticed
<1>1. ASSUME OutputInv PROVE OverflowIsNoticed
  <2> SUFFICES ASSUME NEW b \in subscribers, channel[b].overflowed
               PROVE  \/ pump[b] = "running" /\ NoticeEnds(Upcoming(b))
                      \/ ws[b] = "closed"
    BY DEF OverflowIsNoticed
  <2>1. b \in Browsers /\ pump[b] \in {"running", "done"}
    BY <1>1 DEF OutputInv, HubInv, HubTypes, OpenChannels
  <2>2. CASE pump[b] = "done"
    BY <1>1, <2>1, <2>2 DEF OutputInv, HubInv, EndedPumps
  <2>3. CASE pump[b] = "running"
    <3>1. Fed(b)
      BY <1>1, <2>3 DEF OutputInv, Streams
    <3> QED BY <2>3, <3>1 DEF Fed, Stream
  <2> QED BY <2>1, <2>2, <2>3
<1> QED BY <1>1, OutputInvCorrect, PTL

=============================================================================
