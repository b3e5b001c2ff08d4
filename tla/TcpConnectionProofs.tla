-------------------------- MODULE TcpConnectionProofs --------------------------
(***************************************************************************)
(* Proofs about TcpConnection, for every maximum size, every keep-alive    *)
(* period and streams of every length: the framing is exact whatever the   *)
(* stream holds and however it is cut into reads.                          *)
(***************************************************************************)
EXTENDS TcpConnection, WellFoundedInduction, TLAPS

\* The reference frames that end before what is in the buffer.
BeforeLo == {f \in Delimited : f[2] < lo}

\* The frame being discarded began at a and is known to be too big.
Oversize ==
  \E a \in 0..lo :
    /\ StartsFrame(a)
    /\ NoSeparator(a, lo)
    /\ NoSeparator(a, a + max_size_bytes + 1)
    /\ a + max_size_bytes < hi

\* decode_eof has given out the unterminated tail.
Flushed ==
  /\ eof
  /\ lo = hi
  /\ Given = Delimited \cup Unterminated

Framed ==
  /\ discarding => Oversize /\ Given = BeforeLo
  /\ ~discarding => Flushed \/ (StartsFrame(lo) /\ Given = BeforeLo)
  /\ pc # "decode" => NoSeparator(lo, hi)
  /\ pc = "read" => ~eof
  /\ pc = "closed" /\ eof => Given = Delimited \cup Unterminated

Ordered ==
  /\ \A i, j \in 1..Len(received) : i < j => received[i][2] < received[j][1]
  /\ \A i \in 1..Len(received) : received[i][2] < lo \/ (eof /\ lo = hi)

\* The inductive invariant.
IInv ==
  /\ TypeOK
  /\ ReadHeadSound
  /\ BufferBound
  /\ Framed
  /\ Ordered
  /\ silent = idle

-----------------------------------------------------------------------------
\* Every non-empty set of numbers has a least one.
LEMMA Least ==
  ASSUME NEW T \in SUBSET Nat, T # {}
  PROVE  \E p \in T : \A q \in T : p <= q
<1> DEFINE R == OpToRel(<, Nat)
<1>1. IsWellFoundedOn(R, Nat)
  BY NatLessThanWellFounded
<1>2. \A y, x \in Nat : y < x => <<y, x>> \in R
  BY DEF OpToRel
<1> HIDE DEF R
<1>3. PICK x \in T : \A y \in T : ~(<<y, x>> \in R)
  BY <1>1, WFMin
<1>4. ASSUME NEW q \in T PROVE x <= q
  <2>1. ~(q < x)
    BY <1>2, <1>3
  <2> QED
    BY <2>1
<1> QED
  BY <1>4

\* The arithmetic part of the type invariant.
LEMMA Numbers ==
  ASSUME TypeOK
  PROVE  /\ hi \in Nat /\ lo \in Nat /\ lo <= hi /\ read_head \in Nat
         /\ nul \subseteq Nat
         /\ \A p \in nul : p < hi
BY MaxLenAssumption DEF TypeOK

\* What decode finds is the first separator in the buffer, although it only
\* looks from the read head on.
LEMMA SepFacts ==
  ASSUME TypeOK, ReadHeadSound, Separators # {}
  PROVE  sep \in nul /\ lo <= sep /\ sep < hi /\ NoSeparator(lo, sep)
<1>1. Separators \in SUBSET Nat
  BY Numbers DEF Separators
<1>2. \E p \in Separators : \A q \in Separators : p <= q
  BY <1>1, Least
<1>3. sep \in Separators /\ \A q \in Separators : sep <= q
  BY <1>2 DEF sep
<1>4. sep \in nul /\ sep \in Nat /\ lo + read_head <= sep
  BY <1>1, <1>3 DEF Separators
<1>5. \A p \in nul : p < lo \/ sep <= p
  BY <1>3 DEF ReadHeadSound, Separators
<1> QED
  BY <1>4, <1>5 DEF TypeOK, NoSeparator

LEMMA NoSepFacts ==
  ASSUME TypeOK, ReadHeadSound, Separators = {}
  PROVE  NoSeparator(lo, hi)
<1>1. \A p \in nul : p < lo
  BY DEF ReadHeadSound, Separators
<1> QED
  BY <1>1 DEF NoSeparator

\* Only one frame can begin in front of a given end.
LEMMA OneStart ==
  ASSUME TypeOK, NEW a \in Nat, NEW b \in Nat, NEW e \in Nat,
         a <= e, b <= e,
         StartsFrame(a), StartsFrame(b), NoSeparator(a, e), NoSeparator(b, e)
  PROVE  a = b
BY DEF TypeOK, StartsFrame, NoSeparator

\* What makes a reference frame.
LEMMA DelimitedElim ==
  ASSUME TypeOK, NEW f \in Delimited
  PROVE  /\ f = <<f[1], f[2]>> /\ f[1] \in Nat /\ f[2] \in nul /\ f[2] \in 0..(hi - 1)
         /\ f[1] <= f[2] /\ StartsFrame(f[1]) /\ NoSeparator(f[1], f[2])
         /\ f[2] - f[1] <= max_size_bytes
<1>1. f \in (0..hi) \X nul
  BY DEF Delimited
<1>2. f = <<f[1], f[2]>> /\ f[1] \in 0..hi /\ f[2] \in nul
  BY <1>1
<1>3. nul \subseteq 0..(hi - 1) /\ hi \in Nat
  BY DEF TypeOK
<1>4. /\ f[1] <= f[2] /\ StartsFrame(f[1]) /\ NoSeparator(f[1], f[2])
      /\ f[2] - f[1] <= max_size_bytes
  BY DEF Delimited
<1> QED
  BY <1>2, <1>3, <1>4

\* No reference frame ends where there is no separator.
LEMMA NothingBetween ==
  ASSUME TypeOK, NEW x \in lo..hi, NoSeparator(lo, x)
  PROVE  {f \in Delimited : f[2] < x} = BeforeLo
<1>1. ASSUME NEW f \in Delimited PROVE f[2] < x <=> f[2] < lo
  <2>1. f[2] \in nul /\ f[2] \in Nat
    BY DelimitedElim
  <2>2. lo \in Nat /\ x \in Nat /\ lo <= x
    BY DEF TypeOK
  <2> QED
    BY <2>1, <2>2 DEF NoSeparator
<1> QED
  BY <1>1 DEF BeforeLo

LEMMA AllBefore ==
  ASSUME TypeOK, NoSeparator(lo, hi)
  PROVE  BeforeLo = Delimited
<1>1. hi \in lo..hi
  BY DEF TypeOK
<1>2. \A f \in Delimited : f[2] < hi
  BY DelimitedElim DEF TypeOK
<1> QED
  BY <1>1, <1>2, NothingBetween

\* The reference frame that ends at the first separator, if there is one, is
\* the one that begins where the discarded or awaited frame began.
LEMMA UpToSep ==
  ASSUME TypeOK, NEW s \in nul, lo <= s, NoSeparator(lo, s),
         NEW a \in 0..lo, StartsFrame(a), NoSeparator(a, lo)
  PROVE  {f \in Delimited : f[2] < s + 1} =
           BeforeLo \cup (IF s - a <= max_size_bytes THEN {<<a, s>>} ELSE {})
<1>1. s \in Nat /\ lo \in Nat /\ a \in Nat /\ a <= s /\ s < hi /\ hi \in Nat
  BY DEF TypeOK
<1>2. NoSeparator(a, s)
  BY <1>1 DEF TypeOK, NoSeparator
<1>3. ASSUME NEW f \in Delimited
      PROVE  f[2] < s + 1 <=>
               \/ f \in BeforeLo
               \/ s - a <= max_size_bytes /\ f = <<a, s>>
  <2>1. /\ f = <<f[1], f[2]>> /\ f[1] \in Nat /\ f[2] \in nul /\ f[2] \in Nat
        /\ f[1] <= f[2] /\ StartsFrame(f[1]) /\ NoSeparator(f[1], f[2])
        /\ f[2] - f[1] <= max_size_bytes
    BY DelimitedElim
  <2>2. f[2] < lo \/ f[2] >= s
    BY <1>1, <2>1 DEF NoSeparator
  <2>3. ASSUME f[2] = s PROVE f[1] = a
    <3>1. NoSeparator(f[1], s) /\ f[1] <= s
      BY <2>1, <2>3
    <3> QED
      BY <1>1, <1>2, <2>1, <3>1, OneStart
  <2>4. f \in BeforeLo <=> f[2] < lo
    BY DEF BeforeLo
  <2>5. CASE f[2] = s
    BY <1>1, <2>1, <2>3, <2>4, <2>5
  <2>6. CASE f[2] # s
    BY <1>1, <2>1, <2>2, <2>4, <2>6
  <2> QED
    BY <2>5, <2>6
<1>4. s - a <= max_size_bytes => <<a, s>> \in Delimited
  BY <1>1, <1>2 DEF Delimited
<1>5. BeforeLo \subseteq Delimited
  BY DEF BeforeLo
<1> QED
  BY <1>3, <1>4, <1>5

\* The unterminated tail is what has followed the last frame start.
LEMMA TheTail ==
  ASSUME TypeOK, NEW a \in 0..hi, StartsFrame(a), NoSeparator(a, hi)
  PROVE  Unterminated =
           IF a < hi /\ hi - a <= max_size_bytes THEN {<<a, hi>>} ELSE {}
<1>1. hi \in Nat /\ a \in Nat /\ a <= hi
  BY DEF TypeOK
<1>2. ASSUME NEW f \in Unterminated PROVE f = <<a, hi>>
  <2>1. /\ f = <<f[1], f[2]>> /\ f[1] \in Nat /\ f[2] = hi /\ f[1] <= hi
        /\ StartsFrame(f[1]) /\ NoSeparator(f[1], hi)
    BY <1>1 DEF Unterminated
  <2>2. f[1] = a
    BY <1>1, <2>1, OneStart
  <2> QED
    BY <2>1, <2>2
<1>3. <<a, hi>> \in Unterminated <=> a < hi /\ hi - a <= max_size_bytes
  BY <1>1 DEF Unterminated
<1> QED
  BY <1>2, <1>3

\* Giving receive a frame.
LEMMA AppendFacts ==
  ASSUME NEW S, NEW s \in Seq(S), NEW f \in S
  PROVE  /\ Append(s, f) \in Seq(S)
         /\ Len(Append(s, f)) = Len(s) + 1
         /\ Len(s) \in Nat
         /\ \A i \in 1..Len(s) : Append(s, f)[i] = s[i]
         /\ Append(s, f)[Len(s) + 1] = f
OBVIOUS

LEMMA GivenAfter ==
  ASSUME TypeOK, NEW a \in 0..hi, NEW b \in 0..hi,
         received' = Append(received, <<a, b>>)
  PROVE  /\ received' \in Seq((0..hi) \X (0..hi))
         /\ Given' = Given \cup {<<a, b>>}
<1>1. received \in Seq((0..hi) \X (0..hi)) /\ <<a, b>> \in (0..hi) \X (0..hi)
  BY DEF TypeOK
<1>2. /\ received' \in Seq((0..hi) \X (0..hi))
      /\ Len(received') = Len(received) + 1
      /\ Len(received) \in Nat
      /\ \A i \in 1..Len(received) : received'[i] = received[i]
      /\ received'[Len(received) + 1] = <<a, b>>
  BY <1>1, AppendFacts
<1>3. 1..Len(received') = 1..Len(received) \cup {Len(received) + 1}
  BY <1>2
<1> QED
  BY <1>2, <1>3 DEF Given

LEMMA OrderedAfter ==
  ASSUME TypeOK, Ordered, NEW a \in 0..hi, NEW b \in 0..hi,
         a = lo, lo < hi,
         received' = Append(received, <<a, b>>),
         lo' \in Nat, hi' = hi, eof' = eof, lo <= lo',
         b < lo' \/ (eof /\ lo' = hi)
  PROVE  Ordered'
<1>1. received \in Seq((0..hi) \X (0..hi)) /\ <<a, b>> \in (0..hi) \X (0..hi)
  BY DEF TypeOK
<1>2. /\ Len(received') = Len(received) + 1
      /\ Len(received) \in Nat
      /\ \A i \in 1..Len(received) : received'[i] = received[i]
      /\ received'[Len(received) + 1] = <<a, b>>
  BY <1>1, AppendFacts
<1>3. \A i \in 1..Len(received) :
        received[i] \in (0..hi) \X (0..hi) /\ received[i][2] < lo
  <2>1. \A i \in 1..Len(received) : received[i] \in (0..hi) \X (0..hi)
    BY <1>1
  <2>2. lo # hi
    BY DEF TypeOK
  <2>3. \A i \in 1..Len(received) : received[i][2] < lo
    BY <2>2 DEF Ordered
  <2> QED
    BY <2>1, <2>3
<1>4. ASSUME NEW i \in 1..Len(received'), NEW j \in 1..Len(received'), i < j
      PROVE  received'[i][2] < received'[j][1]
  <2>1. i \in 1..Len(received)
    BY <1>2, <1>4
  <2>2. CASE j \in 1..Len(received)
    BY <1>2, <1>4, <2>1, <2>2 DEF Ordered
  <2>3. CASE j = Len(received) + 1
    BY <1>2, <1>3, <2>1, <2>3
  <2> QED
    BY <1>2, <2>2, <2>3
<1>5. ASSUME NEW i \in 1..Len(received')
      PROVE  received'[i][2] < lo' \/ (eof' /\ lo' = hi')
  <2>1. CASE i \in 1..Len(received)
    BY <1>2, <1>3, <2>1 DEF TypeOK
  <2>2. CASE i = Len(received) + 1
    BY <1>2, <2>2
  <2> QED
    BY <1>2, <2>1, <2>2
<1> QED
  BY <1>4, <1>5 DEF Ordered

\* While nothing is read the reference does not change.
LEMMA SameStream ==
  ASSUME nul' = nul, hi' = hi
  PROVE  /\ Delimited' = Delimited
         /\ Unterminated' = Unterminated
         /\ \A a : StartsFrame(a)' <=> StartsFrame(a)
         /\ \A a, b : NoSeparator(a, b)' <=> NoSeparator(a, b)
BY DEF Delimited, Unterminated, StartsFrame, NoSeparator

-----------------------------------------------------------------------------
(* One lemma per action: it preserves the invariant.                       *)

LEMMA InitIInv == Init => IInv
<1> SUFFICES ASSUME Init PROVE IInv
  OBVIOUS
<1>1. TypeOK
  <2>1. received \in Seq((0..hi) \X (0..hi)) /\ nul \subseteq 0..(hi - 1)
    BY DEF Init
  <2>2. /\ hi \in 0..MaxLen /\ lo \in 0..hi /\ read_head \in Nat
        /\ idle \in 0..keep_alive
        /\ silent \in 0..(keep_alive + 1) /\ barren \in 0..(keep_alive + 1)
    BY KeepAliveAssumption, MaxLenAssumption DEF Init
  <2> QED
    BY <2>1, <2>2 DEF Init, TypeOK
<1>2. ReadHeadSound /\ BufferBound /\ silent = idle
  BY SizeAssumption DEF Init, ReadHeadSound, BufferBound, len
<1>3. Given = {} /\ BeforeLo = {} /\ StartsFrame(lo) /\ NoSeparator(lo, hi)
  BY DEF Init, Given, BeforeLo, Delimited, StartsFrame, NoSeparator
<1>4. Framed /\ Ordered
  BY <1>3 DEF Init, Framed, Ordered
<1> QED
  BY <1>1, <1>2, <1>4 DEF IInv

LEMMA DeliverStep == IInv /\ Deliver => IInv'
<1> SUFFICES ASSUME IInv, Deliver PROVE IInv'
  OBVIOUS
<1>1. TypeOK /\ ReadHeadSound /\ Framed /\ Ordered
  BY DEF IInv
<1>2. /\ pc = "decode" /\ ~discarding /\ Separators # {} /\ ~TooBig(sep - lo)
      /\ received' = Append(received, <<lo, sep>>)
      /\ lo' = sep + 1 /\ read_head' = 0
      /\ nul' = nul /\ hi' = hi /\ eof' = eof /\ pc' = pc
      /\ discarding' = discarding
      /\ idle' = 0 /\ silent' = 0 /\ barren' \in {barren, 0}
  BY DEF Deliver, Receive
<1>3. /\ sep \in nul /\ sep \in Nat /\ lo <= sep /\ sep < hi
      /\ NoSeparator(lo, sep)
      /\ lo \in 0..hi /\ lo \in Nat /\ hi \in Nat
  BY <1>1, <1>2, SepFacts, Numbers
<1>4. StartsFrame(lo) /\ Given = BeforeLo
  BY <1>1, <1>2, <1>3 DEF Framed, Flushed
<1>5. sep \in 0..hi /\ lo \in 0..hi /\ lo \in 0..lo /\ NoSeparator(lo, lo)
  BY <1>1, <1>3, Numbers DEF NoSeparator
<1>6. /\ received' \in Seq((0..hi) \X (0..hi))
      /\ Given' = Given \cup {<<lo, sep>>}
  BY <1>1, <1>2, <1>5, GivenAfter
<1>7. BeforeLo' = BeforeLo \cup {<<lo, sep>>}
  <2>1. BeforeLo' = {f \in Delimited : f[2] < sep + 1}
    BY <1>2, SameStream DEF BeforeLo
  <2>2. sep - lo <= max_size_bytes
    BY <1>2, <1>3, SizeAssumption DEF TooBig
  <2> QED
    BY <1>1, <1>3, <1>4, <1>5, <2>1, <2>2, UpToSep
<1>8. StartsFrame(lo)'
  <2>1. lo' - 1 = sep /\ sep \in nul'
    BY <1>2, <1>3
  <2> QED
    BY <2>1 DEF StartsFrame
<1>9. Framed'
  BY <1>2, <1>4, <1>6, <1>7, <1>8 DEF Framed
<1>10. Ordered'
  <2>1. lo' \in Nat /\ lo <= lo' /\ sep < lo' /\ lo < hi
    BY <1>2, <1>3
  <2> QED
    BY <1>1, <1>2, <1>5, <2>1, OrderedAfter
<1>11. TypeOK'
  BY <1>1, <1>2, <1>3, <1>6, KeepAliveAssumption DEF TypeOK
<1>12. ReadHeadSound'
  <2>1. lo' \in Nat /\ lo' + read_head' = lo' /\ lo' <= hi' /\ nul' \subseteq Nat
    BY <1>1, <1>2, <1>3, Numbers
  <2> QED
    BY <2>1 DEF ReadHeadSound
<1>13. BufferBound' /\ silent' = idle'
  BY <1>2 DEF BufferBound
<1> QED
  BY <1>9, <1>10, <1>11, <1>12, <1>13 DEF IInv

LEMMA OverflowStep == IInv /\ (OverflowDelimited \/ OverflowUndelimited) => IInv'
<1> SUFFICES ASSUME IInv, OverflowDelimited \/ OverflowUndelimited PROVE IInv'
  OBVIOUS
<1>1. TypeOK /\ ReadHeadSound /\ Framed /\ Ordered
  BY DEF IInv
<1>2. /\ pc = "decode" /\ ~discarding /\ discarding' = TRUE
      /\ nul' = nul /\ hi' = hi /\ eof' = eof /\ pc' = pc /\ lo' = lo
      /\ read_head' = read_head /\ received' = received
      /\ idle' = idle /\ silent' = silent /\ barren' = barren
  BY DEF OverflowDelimited, OverflowUndelimited, clocks
<1>3. hi \in Nat /\ lo \in Nat /\ nul \subseteq Nat
  BY <1>1, Numbers
<1>4. NoSeparator(lo, lo + max_size_bytes + 1) /\ lo + max_size_bytes < hi
  <2>1. CASE OverflowDelimited
    <3>1. Separators # {} /\ TooBig(sep - lo)
      BY <2>1 DEF OverflowDelimited
    <3>2. sep \in nul /\ sep \in Nat /\ sep < hi /\ NoSeparator(lo, sep)
      BY <1>1, <1>3, <3>1, SepFacts
    <3>3. lo + max_size_bytes + 1 <= sep
      BY <1>3, <3>1, <3>2, SizeAssumption DEF TooBig
    <3> QED
      BY <1>3, <3>2, <3>3, SizeAssumption DEF NoSeparator
  <2>2. CASE OverflowUndelimited
    <3>1. Separators = {} /\ TooBig(hi - lo)
      BY <2>2 DEF OverflowUndelimited, len
    <3>2. NoSeparator(lo, hi)
      BY <1>1, <3>1, NoSepFacts
    <3>3. lo + max_size_bytes + 1 <= hi
      BY <1>3, <3>1, SizeAssumption DEF TooBig
    <3> QED
      BY <1>3, <3>2, <3>3, SizeAssumption DEF NoSeparator
  <2> QED
    BY <2>1, <2>2
<1>5. StartsFrame(lo) /\ Given = BeforeLo
  BY <1>1, <1>2, <1>3, <1>4, SizeAssumption DEF Framed, Flushed
<1>6. Oversize
  <2>1. lo \in 0..lo /\ NoSeparator(lo, lo)
    BY <1>3 DEF NoSeparator
  <2> QED
    BY <1>4, <1>5, <2>1 DEF Oversize
<1>7. Oversize' /\ Given' = BeforeLo'
  BY <1>2, <1>5, <1>6, SameStream DEF Oversize, Given, BeforeLo
<1>8. Framed'
  BY <1>2, <1>7 DEF Framed
<1>9. Ordered'
  BY <1>1, <1>2 DEF Ordered
<1>10. TypeOK'
  BY <1>1, <1>2 DEF TypeOK
<1>11. ReadHeadSound' /\ BufferBound' /\ silent' = idle'
  BY <1>1, <1>2 DEF IInv, ReadHeadSound, BufferBound
<1> QED
  BY <1>8, <1>9, <1>10, <1>11 DEF IInv

LEMMA NeedMoreStep == IInv /\ NeedMore => IInv'
<1> SUFFICES ASSUME IInv, NeedMore PROVE IInv'
  OBVIOUS
<1>1. TypeOK /\ ReadHeadSound /\ Framed /\ Ordered
  BY DEF IInv
<1>2. /\ ~discarding /\ Separators = {} /\ ~TooBig(hi - lo) /\ ~eof
      /\ read_head' = read_to /\ pc' = "read"
      /\ nul' = nul /\ hi' = hi /\ eof' = eof /\ lo' = lo
      /\ discarding' = discarding /\ received' = received
      /\ idle' = idle /\ silent' = silent /\ barren' = barren
  BY DEF NeedMore, clocks, len
<1>3. hi \in Nat /\ lo \in Nat /\ lo <= hi /\ nul \subseteq Nat
  BY <1>1, Numbers
<1>4. read_to = hi - lo /\ hi - lo <= max_size_bytes
  BY <1>2, <1>3, SizeAssumption DEF TooBig, read_to, len
<1>5. NoSeparator(lo, hi)
  BY <1>1, <1>2, NoSepFacts
<1>6. Framed'
  BY <1>1, <1>2, <1>5, SameStream DEF Framed, Flushed, Given, BeforeLo
<1>7. Ordered'
  BY <1>1, <1>2 DEF Ordered
<1>8. TypeOK'
  BY <1>1, <1>2, <1>3, <1>4 DEF TypeOK
<1>9. ReadHeadSound'
  BY <1>2, <1>3, <1>4, <1>5 DEF ReadHeadSound, NoSeparator
<1>10. BufferBound' /\ silent' = idle'
  BY <1>2, <1>4 DEF IInv, BufferBound, len
<1> QED
  BY <1>6, <1>7, <1>8, <1>9, <1>10 DEF IInv

LEMMA DiscardDelimitedStep == IInv /\ DiscardDelimited => IInv'
<1> SUFFICES ASSUME IInv, DiscardDelimited PROVE IInv'
  OBVIOUS
<1>1. TypeOK /\ ReadHeadSound /\ Framed /\ Ordered
  BY DEF IInv
<1>2. /\ pc = "decode" /\ discarding /\ Separators # {}
      /\ lo' = sep + 1 /\ discarding' = FALSE /\ read_head' = 0
      /\ nul' = nul /\ hi' = hi /\ eof' = eof /\ pc' = pc
      /\ received' = received
      /\ idle' = idle /\ silent' = silent /\ barren' = barren
  BY DEF DiscardDelimited, clocks
<1>3. /\ sep \in nul /\ sep \in Nat /\ lo <= sep /\ sep < hi
      /\ NoSeparator(lo, sep) /\ lo \in Nat /\ hi \in Nat /\ nul \subseteq Nat
  BY <1>1, <1>2, SepFacts, Numbers
<1>4. Given = BeforeLo
  BY <1>1, <1>2 DEF Framed
<1>5. PICK a \in 0..lo :
        /\ StartsFrame(a) /\ NoSeparator(a, lo)
        /\ NoSeparator(a, a + max_size_bytes + 1)
  BY <1>1, <1>2 DEF Framed, Oversize
<1>6. ~(sep - a <= max_size_bytes)
  <2>1. a \in Nat /\ a <= sep
    BY <1>3
  <2>2. a + max_size_bytes + 1 <= sep
    BY <1>3, <1>5, <2>1 DEF NoSeparator
  <2> QED
    BY <1>3, <2>1, <2>2, SizeAssumption
<1>7. Given' = BeforeLo'
  <2>1. BeforeLo' = {f \in Delimited : f[2] < sep + 1}
    BY <1>2, SameStream DEF BeforeLo
  <2>2. {f \in Delimited : f[2] < sep + 1} = BeforeLo
    BY <1>1, <1>3, <1>5, <1>6, UpToSep
  <2> QED
    BY <1>2, <1>4, <2>1, <2>2 DEF Given
<1>8. StartsFrame(lo)'
  <2>1. lo' - 1 = sep /\ sep \in nul'
    BY <1>2, <1>3
  <2> QED
    BY <2>1 DEF StartsFrame
<1>9. Framed'
  BY <1>2, <1>7, <1>8 DEF Framed
<1>10. Ordered'
  <2>1. \A i \in 1..Len(received) : received[i][2] < lo
    BY <1>1, <1>3 DEF Ordered
  <2>2. \A i \in 1..Len(received) : received[i] \in (0..hi) \X (0..hi)
    BY <1>1 DEF TypeOK
  <2>3. \A i \in 1..Len(received) : received[i][2] < sep + 1
    BY <1>3, <2>1, <2>2
  <2> QED
    BY <1>1, <1>2, <2>3 DEF Ordered
<1>11. TypeOK'
  <2>1. lo' = sep + 1 /\ read_head' = 0 /\ discarding' \in BOOLEAN
    BY <1>2
  <2>2. sep + 1 \in 0..hi
    BY <1>3
  <2> QED
    BY <1>1, <1>2, <2>1, <2>2 DEF TypeOK
<1>12. ReadHeadSound'
  <2>1. lo' \in Nat /\ lo' + read_head' = lo' /\ lo' <= hi' /\ nul' \subseteq Nat
    BY <1>2, <1>3
  <2> QED
    BY <2>1 DEF ReadHeadSound
<1>13. BufferBound' /\ silent' = idle'
  BY <1>2 DEF IInv, BufferBound
<1> QED
  BY <1>9, <1>10, <1>11, <1>12, <1>13 DEF IInv

LEMMA DiscardUndelimitedStep == IInv /\ DiscardUndelimited => IInv'
<1> SUFFICES ASSUME IInv, DiscardUndelimited PROVE IInv'
  OBVIOUS
<1>1. TypeOK /\ ReadHeadSound /\ Framed /\ Ordered
  BY DEF IInv
<1>2. /\ pc = "decode" /\ discarding /\ Separators = {}
      /\ lo' = lo + read_to /\ read_head' = 0 /\ discarding' = discarding
      /\ pc' = IF lo' < hi THEN "decode" ELSE IF eof THEN "closed" ELSE "read"
      /\ nul' = nul /\ hi' = hi /\ eof' = eof /\ received' = received
      /\ idle' = idle /\ silent' = silent /\ barren' = barren
  BY DEF DiscardUndelimited, clocks
<1>3. hi \in Nat /\ lo \in Nat /\ lo <= hi /\ nul \subseteq Nat
  BY <1>1, Numbers
<1>4. lo' \in lo..hi /\ lo' \in Nat /\ lo <= lo' /\ lo' <= hi
  BY <1>2, <1>3, SizeAssumption DEF read_to, len
<1>5. NoSeparator(lo, hi)
  BY <1>1, <1>2, NoSepFacts
<1>6. NoSeparator(lo, lo') /\ NoSeparator(lo', hi)
  BY <1>3, <1>4, <1>5 DEF NoSeparator
<1>7. Given = BeforeLo
  BY <1>1, <1>2 DEF Framed
<1>8. Given' = BeforeLo'
  <2>1. BeforeLo' = {f \in Delimited : f[2] < lo'}
    BY <1>2, SameStream DEF BeforeLo
  <2>2. {f \in Delimited : f[2] < lo'} = BeforeLo
    BY <1>1, <1>4, <1>6, NothingBetween
  <2> QED
    BY <1>2, <1>7, <2>1, <2>2 DEF Given
<1>9. PICK a \in 0..lo :
        /\ StartsFrame(a) /\ NoSeparator(a, lo)
        /\ NoSeparator(a, a + max_size_bytes + 1)
        /\ a + max_size_bytes < hi
  BY <1>1, <1>2 DEF Framed, Oversize
<1>10. a \in Nat /\ a \in 0..lo' /\ a \in 0..hi
  BY <1>3, <1>4
<1>11. NoSeparator(a, lo') /\ NoSeparator(a, hi)
  BY <1>3, <1>4, <1>5, <1>6, <1>9, <1>10 DEF NoSeparator
<1>12. Oversize'
  BY <1>2, <1>9, <1>10, <1>11, SameStream DEF Oversize
<1>13. ASSUME pc' = "closed" PROVE Given' = Delimited' \cup Unterminated'
  <2>1. Unterminated = {}
    BY <1>1, <1>3, <1>9, <1>10, <1>11, SizeAssumption, TheTail
  <2>2. Given = Delimited
    BY <1>1, <1>5, <1>7, AllBefore
  <2> QED
    BY <1>2, <2>1, <2>2, SameStream DEF Given
<1>14. Framed'
  <2>1. NoSeparator(lo, hi)'
    BY <1>2, <1>6 DEF NoSeparator
  <2>2. pc' = "read" => ~eof'
    BY <1>2
  <2> QED
    BY <1>2, <1>8, <1>12, <1>13, <2>1, <2>2 DEF Framed
<1>15. Ordered'
  <2>1. \A i \in 1..Len(received) : received[i] \in (0..hi) \X (0..hi)
    BY <1>1 DEF TypeOK
  <2>2. ASSUME NEW i \in 1..Len(received)
        PROVE  received[i][2] < lo' \/ (eof /\ lo' = hi)
    <3>1. received[i][2] < lo \/ (eof /\ lo = hi)
      BY <1>1 DEF Ordered
    <3>2. received[i][2] \in Nat
      BY <2>1
    <3> QED
      BY <1>3, <1>4, <3>1, <3>2
  <2> QED
    BY <1>1, <1>2, <2>2 DEF Ordered
<1>16. TypeOK'
  BY <1>1, <1>2, <1>4 DEF TypeOK
<1>17. ReadHeadSound'
  <2>1. lo' + read_head' = lo' /\ lo' <= hi' /\ nul' \subseteq Nat
    BY <1>2, <1>3, <1>4
  <2> QED
    BY <1>4, <2>1 DEF ReadHeadSound
<1>18. BufferBound' /\ silent' = idle'
  BY <1>2, <1>3, <1>4, SizeAssumption DEF IInv, BufferBound, len
<1> QED
  BY <1>14, <1>15, <1>16, <1>17, <1>18 DEF IInv

LEMMA EofRemainderStep == IInv /\ EofRemainder => IInv'
<1> SUFFICES ASSUME IInv, EofRemainder PROVE IInv'
  OBVIOUS
<1>1. TypeOK /\ ReadHeadSound /\ Framed /\ Ordered
  BY DEF IInv
<1>2. /\ pc = "decode" /\ eof /\ ~discarding /\ Separators = {}
      /\ ~TooBig(hi - lo) /\ lo < hi
      /\ received' = Append(received, <<lo, hi>>)
      /\ lo' = hi /\ read_head' = 0
      /\ nul' = nul /\ hi' = hi /\ eof' = eof /\ pc' = pc
      /\ discarding' = discarding
      /\ idle' = 0 /\ silent' = 0 /\ barren' \in {barren, 0}
  BY DEF EofRemainder, Receive, len
<1>3. /\ lo \in 0..hi /\ lo \in Nat /\ hi \in Nat /\ hi \in 0..hi
      /\ nul \subseteq Nat /\ \A p \in nul : p < hi
  BY <1>1, Numbers
<1>4. StartsFrame(lo) /\ Given = BeforeLo
  BY <1>1, <1>2, <1>3 DEF Framed, Flushed
<1>5. NoSeparator(lo, hi)
  BY <1>1, <1>2, NoSepFacts
<1>6. /\ received' \in Seq((0..hi) \X (0..hi))
      /\ Given' = Given \cup {<<lo, hi>>}
  BY <1>1, <1>2, <1>3, GivenAfter
<1>7. Given = Delimited
  BY <1>1, <1>4, <1>5, AllBefore
<1>8. Unterminated = {<<lo, hi>>}
  <2>1. hi - lo <= max_size_bytes
    BY <1>2, <1>3, SizeAssumption DEF TooBig
  <2> QED
    BY <1>1, <1>2, <1>3, <1>4, <1>5, <2>1, TheTail
<1>9. Flushed'
  BY <1>2, <1>6, <1>7, <1>8, SameStream DEF Flushed
<1>10. Framed'
  BY <1>2, <1>9 DEF Framed
<1>11. Ordered'
  <2>1. lo' \in Nat /\ lo <= lo'
    BY <1>2, <1>3
  <2> QED
    BY <1>1, <1>2, <1>3, <2>1, OrderedAfter
<1>12. TypeOK'
  BY <1>1, <1>2, <1>3, <1>6, KeepAliveAssumption DEF TypeOK
<1>13. ReadHeadSound'
  BY <1>2, <1>3 DEF ReadHeadSound
<1>14. BufferBound' /\ silent' = idle'
  BY <1>2 DEF BufferBound
<1> QED
  BY <1>10, <1>11, <1>12, <1>13, <1>14 DEF IInv

LEMMA EofDoneStep == IInv /\ EofDone => IInv'
<1> SUFFICES ASSUME IInv, EofDone PROVE IInv'
  OBVIOUS
<1>1. TypeOK /\ ReadHeadSound /\ Framed /\ Ordered
  BY DEF IInv
<1>2. /\ eof /\ ~discarding /\ Separators = {} /\ lo = hi
      /\ read_head' = read_to /\ pc' = "closed"
      /\ nul' = nul /\ hi' = hi /\ eof' = eof /\ lo' = lo
      /\ discarding' = discarding /\ received' = received
      /\ idle' = idle /\ silent' = silent /\ barren' = barren
  BY DEF EofDone, clocks
<1>3. hi \in Nat /\ lo \in Nat /\ nul \subseteq Nat /\ hi \in 0..hi
  BY <1>1, Numbers
<1>4. NoSeparator(lo, hi)
  BY <1>1, <1>2, NoSepFacts
<1>5. read_to = 0
  BY <1>2, <1>3, SizeAssumption DEF read_to, len
<1>6. Given = Delimited \cup Unterminated
  <2>1. CASE Flushed
    BY <2>1 DEF Flushed
  <2>2. CASE StartsFrame(lo) /\ Given = BeforeLo
    <3>1. Unterminated = {}
      BY <1>1, <1>2, <1>3, <1>4, <2>2, TheTail
    <3>2. BeforeLo = Delimited
      BY <1>1, <1>4, AllBefore
    <3> QED
      BY <2>2, <3>1, <3>2
  <2> QED
    BY <1>1, <1>2, <2>1, <2>2 DEF Framed
<1>7. Given' = Delimited' \cup Unterminated'
  BY <1>2, <1>6, SameStream DEF Given
<1>8. Flushed' /\ NoSeparator(lo, hi)'
  BY <1>2, <1>4, <1>7 DEF Flushed, NoSeparator
<1>9. Framed'
  BY <1>2, <1>7, <1>8 DEF Framed
<1>10. Ordered'
  BY <1>1, <1>2 DEF Ordered
<1>11. TypeOK'
  BY <1>1, <1>2, <1>5 DEF TypeOK
<1>12. ReadHeadSound'
  BY <1>1, <1>2, <1>3, <1>4, <1>5 DEF ReadHeadSound, NoSeparator
<1>13. BufferBound' /\ silent' = idle'
  BY <1>2 DEF IInv, BufferBound
<1> QED
  BY <1>9, <1>10, <1>11, <1>12, <1>13 DEF IInv

\* Reading adds bytes behind those that are framed already.
LEMMA ReadsStep == IInv /\ Reads => IInv'
<1> SUFFICES ASSUME IInv, NEW n \in 1..(MaxLen - hi),
                    NEW zeros \in SUBSET (hi..(hi + n - 1)), Read(n, zeros)
             PROVE  IInv'
  BY DEF Reads
<1>1. TypeOK /\ ReadHeadSound /\ Framed /\ Ordered
  BY DEF IInv
<1>2. /\ pc = "read" /\ pc' = "decode"
      /\ nul' = nul \cup zeros /\ hi' = hi + n
      /\ eof' = eof /\ lo' = lo /\ read_head' = read_head
      /\ discarding' = discarding /\ received' = received
      /\ idle' = idle /\ silent' = silent /\ barren' = barren
  BY DEF Read, decoder, clocks
<1>3. /\ hi \in Nat /\ lo \in Nat /\ lo <= hi /\ nul \subseteq Nat
      /\ \A p \in nul : p < hi
      /\ read_head \in Nat /\ lo + read_head <= hi
  BY <1>1, Numbers DEF ReadHeadSound
<1>4. /\ n \in Nat /\ n >= 1 /\ hi' \in 0..MaxLen /\ hi <= hi' /\ hi' \in Nat
      /\ \A p \in zeros : p \in Nat /\ hi <= p /\ p < hi'
  BY <1>2, <1>3, MaxLenAssumption
<1>5. ~eof
  BY <1>1, <1>2 DEF Framed
<1>6. \A a \in 0..hi : StartsFrame(a)' <=> StartsFrame(a)
  BY <1>2, <1>3, <1>4 DEF StartsFrame
<1>7. \A a \in Nat : \A b \in 0..hi : NoSeparator(a, b)' <=> NoSeparator(a, b)
  BY <1>2, <1>3, <1>4 DEF NoSeparator
<1>8. BeforeLo' = BeforeLo
  <2>1. ASSUME NEW f, f \in BeforeLo PROVE f \in BeforeLo'
    <3>1. f \in Delimited /\ f[2] < lo
      BY <2>1 DEF BeforeLo
    <3>2. /\ f = <<f[1], f[2]>> /\ f[1] \in Nat /\ f[2] \in nul
          /\ f[2] \in 0..(hi - 1)
          /\ f[1] <= f[2] /\ StartsFrame(f[1]) /\ NoSeparator(f[1], f[2])
          /\ f[2] - f[1] <= max_size_bytes
      BY <1>1, <3>1, DelimitedElim
    <3>3. f[1] \in 0..hi /\ f[2] \in 0..hi /\ f[1] \in 0..hi'
      BY <1>3, <1>4, <3>2
    <3>4. StartsFrame(f[1])' /\ NoSeparator(f[1], f[2])'
      BY <1>6, <1>7, <3>2, <3>3
    <3>5. f \in (0..hi') \X nul'
      BY <1>2, <3>2, <3>3
    <3> QED
      BY <1>2, <3>1, <3>2, <3>4, <3>5 DEF BeforeLo, Delimited
  <2>2. ASSUME NEW f, f \in BeforeLo' PROVE f \in BeforeLo
    <3>1. /\ f \in (0..hi') \X nul' /\ f[1] <= f[2]
          /\ StartsFrame(f[1])' /\ NoSeparator(f[1], f[2])'
          /\ f[2] - f[1] <= max_size_bytes
          /\ f[2] < lo
      BY <1>2, <2>2 DEF BeforeLo, Delimited
    <3>2. f = <<f[1], f[2]>> /\ f[1] \in Nat /\ f[2] \in nul'
      BY <1>4, <3>1
    <3>3. f[2] \in nul /\ f[2] \in Nat
      <4>1. \A p \in nul \cup zeros : p < lo => p \in nul /\ p \in Nat
        BY <1>3, <1>4
      <4> QED
        BY <1>2, <3>1, <3>2, <4>1
    <3>4. f[1] \in 0..hi /\ f[2] \in 0..hi
      BY <1>3, <3>1, <3>2, <3>3
    <3>5. StartsFrame(f[1]) /\ NoSeparator(f[1], f[2])
      BY <1>6, <1>7, <3>1, <3>2, <3>4
    <3>6. f \in (0..hi) \X nul
      BY <3>2, <3>3, <3>4
    <3> QED
      BY <3>1, <3>5, <3>6 DEF BeforeLo, Delimited
  <2> QED
    BY <2>1, <2>2
<1>9. Given' = Given
  BY <1>2 DEF Given
<1>10. discarding => Oversize'
  <2> SUFFICES ASSUME discarding PROVE Oversize'
    OBVIOUS
  <2>1. PICK a \in 0..lo :
          /\ StartsFrame(a) /\ NoSeparator(a, lo)
          /\ NoSeparator(a, a + max_size_bytes + 1)
          /\ a + max_size_bytes < hi
    BY <1>1 DEF Framed, Oversize
  <2>2. a \in Nat /\ a \in 0..hi /\ lo \in 0..hi
        /\ a + max_size_bytes + 1 \in 0..hi
    BY <1>3, <2>1, SizeAssumption
  <2>3. /\ StartsFrame(a)' /\ NoSeparator(a, lo)'
        /\ NoSeparator(a, a + max_size_bytes + 1)'
    BY <1>2, <1>6, <1>7, <2>1, <2>2
  <2>4. a + max_size_bytes < hi'
    BY <1>2, <1>3, <1>4, <2>1, <2>2, SizeAssumption
  <2>5. a \in 0..lo'
    BY <1>2
  <2> QED
    BY <1>2, <2>3, <2>4, <2>5 DEF Oversize
<1>11. ~discarding => StartsFrame(lo)'
  <2>1. lo \in 0..hi
    BY <1>3
  <2> QED
    BY <1>1, <1>2, <1>5, <1>6, <2>1 DEF Framed, Flushed, StartsFrame
<1>12. Given = BeforeLo
  BY <1>1, <1>5 DEF Framed, Flushed
<1>13. Framed'
  BY <1>2, <1>8, <1>9, <1>10, <1>11, <1>12 DEF Framed
<1>14. Ordered'
  BY <1>1, <1>2, <1>5 DEF Ordered
<1>15. TypeOK'
  <2>1. received' \in Seq((0..hi') \X (0..hi'))
    <3>1. (0..hi) \X (0..hi) \subseteq (0..hi') \X (0..hi')
      BY <1>3, <1>4
    <3>2. received \in Seq((0..hi) \X (0..hi))
      BY <1>1 DEF TypeOK
    <3> QED
      BY <1>2, <3>1, <3>2
  <2>2. nul' \subseteq 0..(hi' - 1)
    BY <1>2, <1>3, <1>4
  <2>3. lo' \in 0..hi'
    BY <1>2, <1>3, <1>4
  <2> QED
    BY <1>1, <1>2, <1>4, <2>1, <2>2, <2>3 DEF TypeOK
<1>16. ReadHeadSound'
  <2>1. \A p \in zeros : lo + read_head <= p
    BY <1>3, <1>4
  <2>2. lo' + read_head' <= hi'
    BY <1>2, <1>3, <1>4
  <2> QED
    BY <1>1, <1>2, <2>1, <2>2 DEF ReadHeadSound
<1>17. BufferBound' /\ silent' = idle'
  BY <1>2 DEF IInv, BufferBound
<1> QED
  BY <1>13, <1>14, <1>15, <1>16, <1>17 DEF IInv

\* The steps that touch neither the stream nor the decoder.
LEMMA QuietStep ==
  ASSUME IInv, UNCHANGED <<nul, hi, decoder>>, pc # "closed" \/ pc' = pc,
         \/ UNCHANGED <<eof, pc, clocks>>
         \/ Eof
         \/ (ReadError \/ Timeout)
         \/ Tick
  PROVE  IInv'
<1>1. TypeOK /\ ReadHeadSound /\ Framed /\ Ordered /\ silent = idle /\ BufferBound
  BY DEF IInv
<1>2. /\ nul' = nul /\ hi' = hi /\ lo' = lo /\ read_head' = read_head
      /\ discarding' = discarding /\ received' = received
  BY DEF decoder
<1>3. /\ Delimited' = Delimited /\ Unterminated' = Unterminated
      /\ Given' = Given /\ BeforeLo' = BeforeLo
      /\ (StartsFrame(lo)' <=> StartsFrame(lo))
      /\ (NoSeparator(lo, hi)' <=> NoSeparator(lo, hi))
      /\ (Oversize' <=> Oversize)
  BY <1>2, SameStream
  DEF Given, BeforeLo, Oversize, StartsFrame, NoSeparator
<1>4. ReadHeadSound'
  BY <1>1, <1>2 DEF ReadHeadSound
<1>5. CASE UNCHANGED <<eof, pc, clocks>>
  <2>1. Framed' /\ Ordered' /\ BufferBound' /\ silent' = idle'
    BY <1>1, <1>2, <1>3, <1>5
    DEF Framed, Flushed, Ordered, BufferBound, clocks, len
  <2>2. TypeOK'
    BY <1>1, <1>2, <1>5 DEF TypeOK, clocks
  <2> QED
    BY <1>4, <2>1, <2>2 DEF IInv
<1>6. CASE Eof
  <2>1. pc = "read" /\ pc' = "decode" /\ eof' = TRUE /\ UNCHANGED clocks
    BY <1>6 DEF Eof
  <2>2. ~eof
    BY <1>1, <2>1 DEF Framed
  <2>3. Framed'
    BY <1>1, <1>2, <1>3, <2>1, <2>2 DEF Framed, Flushed
  <2>4. Ordered' /\ BufferBound' /\ silent' = idle'
    BY <1>1, <1>2, <2>1, <2>2 DEF Ordered, BufferBound, clocks
  <2>5. TypeOK'
    BY <1>1, <1>2, <2>1 DEF TypeOK, clocks
  <2> QED
    BY <1>4, <2>3, <2>4, <2>5 DEF IInv
<1>7. CASE ReadError \/ Timeout
  <2>1. pc = "read" /\ pc' = "closed" /\ eof' = eof /\ UNCHANGED clocks
    BY <1>7 DEF ReadError, Timeout
  <2>2. ~eof
    BY <1>1, <2>1 DEF Framed
  <2>3. Framed'
    BY <1>1, <1>2, <1>3, <2>1, <2>2 DEF Framed, Flushed
  <2>4. Ordered' /\ BufferBound' /\ silent' = idle'
    BY <1>1, <1>2, <2>1, <2>2 DEF Ordered, BufferBound, clocks
  <2>5. TypeOK'
    BY <1>1, <1>2, <2>1 DEF TypeOK, clocks
  <2> QED
    BY <1>4, <2>3, <2>4, <2>5 DEF IInv
<1>8. CASE Tick
  <2>1. /\ pc = "read" /\ pc' = pc /\ eof' = eof /\ idle < keep_alive
        /\ idle' = idle + 1
        /\ silent' = IF silent <= keep_alive THEN silent + 1 ELSE silent
        /\ barren' = IF barren <= keep_alive THEN barren + 1 ELSE barren
    BY <1>8 DEF Tick
  <2>2. /\ idle \in 0..keep_alive /\ silent \in 0..(keep_alive + 1)
        /\ barren \in 0..(keep_alive + 1)
    BY <1>1 DEF TypeOK
  <2>3. /\ idle' \in 0..keep_alive /\ silent' \in 0..(keep_alive + 1)
        /\ barren' \in 0..(keep_alive + 1)
        /\ silent' = idle'
    BY <1>1, <2>1, <2>2, KeepAliveAssumption
  <2>4. Framed' /\ Ordered' /\ BufferBound'
    BY <1>1, <1>2, <1>3, <2>1 DEF Framed, Flushed, Ordered, BufferBound, len
  <2>5. TypeOK'
    BY <1>1, <1>2, <2>1, <2>3 DEF TypeOK
  <2> QED
    BY <1>4, <2>3, <2>4, <2>5 DEF IInv
<1> QED
  BY <1>5, <1>6, <1>7, <1>8

LEMMA NextIInv == IInv /\ [Next]_vars => IInv'
<1> SUFFICES ASSUME IInv, [Next]_vars PROVE IInv'
  OBVIOUS
<1>1. CASE decode
  BY <1>1, DeliverStep, OverflowStep, NeedMoreStep, DiscardDelimitedStep,
     DiscardUndelimitedStep, EofRemainderStep, EofDoneStep DEF decode
<1>2. CASE Reads
  BY <1>2, ReadsStep
<1>3. CASE UNCHANGED vars
  BY <1>3, QuietStep DEF vars
<1>4. CASE Eof \/ ReadError \/ Timeout \/ Tick
  <2>1. UNCHANGED <<nul, hi, decoder>> /\ pc # "closed"
    BY <1>4 DEF Eof, ReadError, Timeout, Tick
  <2> QED
    BY <1>4, <2>1, QuietStep
<1> QED
  BY <1>1, <1>2, <1>3, <1>4 DEF Next

\* The inductive invariant holds in every reachable state.
LEMMA Invariance == Spec => []IInv
BY InitIInv, NextIInv, PTL DEF Spec, SafetySpec

\* The buffer stays an interval of the stream: decode and decode_eof never
\* split or advance past its end, for any maximum size and any input.
THEOREM TypeCorrect == Spec => []TypeOK
BY Invariance, PTL DEF IInv

\* The read head of Decode stays inside the buffer and skips no separator.
THEOREM ReadHeadAlwaysSound == Spec => []ReadHeadSound
BY Invariance, PTL DEF IInv

\* Between reads at most max_size_bytes bytes are kept.
THEOREM BufferAlwaysBounded == Spec => []BufferBound
BY Invariance, PTL DEF IInv

\* The framing of a connection depends on its bytes alone and not on how they
\* are cut into reads, and is exactly the reference framing.
THEOREM FramingIsExact == Spec => []FramingExact
<1>1. IInv => FramingExact
  <2> SUFFICES ASSUME IInv PROVE FramingExact
    OBVIOUS
  <2>1. TypeOK /\ Framed /\ Ordered
    BY DEF IInv
  <2>2. BeforeLo \subseteq Delimited
    BY DEF BeforeLo
  <2>3. Given \subseteq Delimited \cup (IF eof THEN Unterminated ELSE {})
    BY <2>1, <2>2 DEF Framed, Flushed
  <2>4. ASSUME pc # "decode"
        PROVE  Given = Delimited \cup (IF eof THEN Unterminated ELSE {})
    <3>1. BeforeLo = Delimited
      BY <2>1, <2>4, AllBefore DEF Framed
    <3> QED
      BY <2>1, <2>4, <3>1 DEF Framed, Flushed, TypeOK
  <2> QED
    BY <2>1, <2>3, <2>4 DEF FramingExact, Ordered
<1> QED
  BY <1>1, Invariance, PTL

\* An open connection has produced an item within the keep-alive period.
THEOREM ItemAlwaysWithinKeepAlive == Spec => []ItemWithinKeepAlive
<1>1. IInv => ItemWithinKeepAlive
  BY KeepAliveAssumption DEF IInv, TypeOK, ItemWithinKeepAlive
<1> QED
  BY <1>1, Invariance, PTL
=============================================================================
