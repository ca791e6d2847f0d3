------------------------ MODULE WriteAheadLog_proofs ------------------------
(***************************************************************************)
(* What the write-ahead log promises across process death and power loss,  *)
(* for every value of the constants.                                       *)
(*                                                                         *)
(* Frames is a recursive function along a file; the first half of the      *)
(* module says what it computes: the offsets a replay reaches, one frame   *)
(* after the other, and that only the cells below an offset decide whether *)
(* it is reached.  The second half is the inductive invariant: what the    *)
(* process knows, what is in the file because an append wrote it, and what *)
(* the page cache and the disk have in common.                             *)
(***************************************************************************)
EXTENDS WriteAheadLog, DataInduction, SequenceTheorems

-----------------------------------------------------------------------------
(* The scan *)

\* The frame a replay reads at o, and the offset after it.
FrameAt(f, o) == [offset |-> o, data |-> DataAt(f, o)]
After(f, o) == o + FrameSize(DataAt(f, o))
EndOf(fr) == fr.offset + FrameSize(fr.data)

\* The function Frames evaluates.
ScanStep(f, g, o) ==
  IF ~ValidAt(f, o) THEN {} ELSE {FrameAt(f, o)} \cup g[After(f, o)]
IsScan(g, f) == g = [o \in 0 .. f.size |-> ScanStep(f, g, o)]
Scan(f) == CHOOSE g : IsScan(g, f)

\* Sizes are numbers, and files end where a page ends.
LEMMA Sizes ==
  /\ MaxPayload \in Nat /\ PageSize \in Nat /\ InitialSize \in Nat
  /\ FileBound \in Nat /\ MaxAppends \in Nat /\ MaxLives \in Nat
  /\ PageSize > 0 /\ InitialSize <= FileBound
  /\ InitialSize % PageSize = 0 /\ FileBound % PageSize = 0
BY SizeAssumption

\* Frames is what the scan finds from offset 0 on.
LEMMA FramesUnfold ==
  ASSUME NEW f
  PROVE  Frames(f) = Scan(f)[0]
BY DEF Frames, Scan, IsScan, ScanStep, FrameAt, After

\* The size a reader finds is a number, whatever it reads.
LEMMA DataSizeIs ==
  ASSUME NEW cell
  PROVE  /\ DataSize(cell) \in Nat
         /\ DataSize(cell) = FileBound
            \/ (DataSize(cell) \in 0 .. MaxPayload /\ cell = Size(DataSize(cell)))
BY Sizes DEF DataSize

\* A frame is at least its three fields long: the scan moves on.
LEMMA DataAtIs ==
  ASSUME NEW f, NEW o \in Nat
  PROVE  /\ Len(DataAt(f, o)) = DataSize(f.cells[o + 1])
         /\ After(f, o) = o + 3 + DataSize(f.cells[o + 1])
         /\ After(f, o) \in Nat /\ After(f, o) > o + 2
<1>1. DataSize(f.cells[o + 1]) \in Nat
  BY DataSizeIs
<1>2. Len(DataAt(f, o)) = DataSize(f.cells[o + 1])
  BY <1>1 DEF DataAt
<1> QED
  BY <1>1, <1>2 DEF After, FrameSize

\* A valid frame lies within the file.
LEMMA ValidFits ==
  ASSUME NEW f, f.size \in 0 .. FileBound, NEW o \in Nat, ValidAt(f, o)
  PROVE  /\ After(f, o) \in 0 .. f.size /\ o \in Cells
         /\ f.cells[o] = Magic
         /\ DataSize(f.cells[o + 1]) \in 0 .. MaxPayload
         /\ f.cells[o + 1] = Size(DataSize(f.cells[o + 1]))
<1>1. After(f, o) = o + 3 + DataSize(f.cells[o + 1])
  BY DataAtIs
<1>2. DataSize(f.cells[o + 1]) \in Nat
  BY DataSizeIs
<1>3. o + 3 + DataSize(f.cells[o + 1]) <= f.size /\ f.cells[o] = Magic
  BY DEF ValidAt
<1>4. DataSize(f.cells[o + 1]) # FileBound
  BY <1>2, <1>3, Sizes
<1>5. /\ DataSize(f.cells[o + 1]) \in 0 .. MaxPayload
      /\ f.cells[o + 1] = Size(DataSize(f.cells[o + 1]))
  BY <1>4, DataSizeIs
<1> QED
  BY <1>1, <1>2, <1>3, <1>5, Sizes DEF Cells

\* The scan is defined: build it from the end of the file backwards.
LEMMA ScanExists ==
  ASSUME NEW f, f.size \in 0 .. FileBound
  PROVE  IsScan(Scan(f), f)
<1> DEFINE Partial(g, k) == g = [o \in k .. f.size |-> ScanStep(f, g, o)]
           T == {k \in 0 .. f.size : \A g : ~Partial(g, k)}
<1>1. f.size \in Nat
  BY Sizes
<1>2. SUFFICES ASSUME T # {} PROVE FALSE
  <2>1. 0 \notin T
    BY <1>2
  <2>2. \E g : Partial(g, 0)
    BY <1>1, <2>1
  <2>3. \E g : IsScan(g, f)
    BY <2>2 DEF IsScan
  <2> QED
    BY <2>3 DEF Scan
<1>3. PICK k \in T : \A y \in T : y <= k
  <2>1. T \subseteq Nat /\ \A y \in T : y <= f.size
    BY <1>1
  <2> HIDE DEF T
  <2> QED
    BY <1>1, <1>2, <2>1, GreatestNumber
<1>4. k \in 0 .. f.size /\ \A g : ~Partial(g, k)
  OBVIOUS
<1>5. \E g : k < f.size => Partial(g, k + 1)
  <2>1. k + 1 \notin T
    BY <1>1, <1>3, <1>4
  <2> QED
    BY <1>1, <1>4, <2>1
<1>6. PICK g : k < f.size => Partial(g, k + 1)
  BY <1>5
<1> DEFINE h == [o \in k .. f.size |-> IF o = k THEN ScanStep(f, g, k) ELSE g[o]]
<1>7. ASSUME NEW o \in k .. f.size
      PROVE  h[o] = ScanStep(f, h, o)
  <2>1. CASE ~ValidAt(f, o)
    <3>1. ScanStep(f, g, o) = {} /\ ScanStep(f, h, o) = {}
      BY <2>1 DEF ScanStep
    <3>2. o # k => g[o] = ScanStep(f, g, o)
      BY <1>1, <1>4, <1>6
    <3> HIDE DEF Partial, T
    <3> QED
      BY <3>1, <3>2
  <2>2. CASE ValidAt(f, o)
    <3>1. o \in Nat /\ k \in Nat
      BY <1>1, <1>4
    <3>2. After(f, o) \in 0 .. f.size /\ After(f, o) > o + 2
      BY <2>2, <3>1, ValidFits, DataAtIs
    <3>3. After(f, o) \in k + 1 .. f.size /\ k < f.size
      BY <1>1, <3>1, <3>2
    <3>4. h[After(f, o)] = g[After(f, o)]
      BY <1>1, <3>1, <3>3
    <3>5. ScanStep(f, h, o) = ScanStep(f, g, o)
      BY <3>4 DEF ScanStep
    <3>6. o # k => g[o] = ScanStep(f, g, o)
      BY <1>1, <1>4, <1>6, <3>3
    <3> HIDE DEF Partial, T
    <3> QED
      BY <3>5, <3>6
  <2> QED
    BY <2>1, <2>2
<1>8. Partial(h, k)
  <2>1. h = [o \in k .. f.size |-> h[o]]
    OBVIOUS
  <2> HIDE DEF h
  <2> QED
    BY <1>7, <2>1
<1> QED
  BY <1>4, <1>8

\* What a replay finds from o on: nothing, or a frame and what is after it.
LEMMA ScanFrom ==
  ASSUME NEW f, f.size \in 0 .. FileBound, NEW o \in 0 .. f.size
  PROVE  /\ ~ValidAt(f, o) => Scan(f)[o] = {}
         /\ ValidAt(f, o) => /\ Scan(f)[o] = {FrameAt(f, o)} \cup Scan(f)[After(f, o)]
                             /\ After(f, o) \in 0 .. f.size /\ After(f, o) > o
<1>1. Scan(f)[o] = ScanStep(f, Scan(f), o)
  BY ScanExists DEF IsScan
<1>2. o \in Nat
  BY Sizes
<1>3. ValidAt(f, o) => After(f, o) \in 0 .. f.size /\ After(f, o) > o
  BY <1>2, ValidFits, DataAtIs
<1> QED
  BY <1>1, <1>3 DEF ScanStep

\* The offsets at which a replay looks for a frame.
Reached(f, p) == p = 0 \/ \E fr \in Frames(f) : p = EndOf(fr)


\* The fields of a frame, and where it ends.
LEMMA FrameAtIs ==
  ASSUME NEW f, NEW o
  PROVE  /\ FrameAt(f, o).offset = o /\ FrameAt(f, o).data = DataAt(f, o)
         /\ EndOf(FrameAt(f, o)) = After(f, o)
BY DEF FrameAt, EndOf, After

\* What holds of offset 0, and goes from a frame to the one after it, holds of
\* every frame a replay finds: induction along the file.
LEMMA ScanInduction ==
  ASSUME NEW f, f.size \in 0 .. FileBound, NEW S, 0 \in S,
         \A o \in 0 .. f.size : o \in S /\ ValidAt(f, o) => After(f, o) \in S
  PROVE  /\ \A fr \in Frames(f) : /\ fr.offset \in 0 .. f.size /\ fr.offset \in S
                                  /\ ValidAt(f, fr.offset)
                                  /\ fr = FrameAt(f, fr.offset)
                                  /\ EndOf(fr) \in S
         /\ \A p : Reached(f, p) => p \in S
<1> DEFINE Good(fr) == /\ fr.offset \in 0 .. f.size /\ fr.offset \in S
                       /\ ValidAt(f, fr.offset) /\ fr = FrameAt(f, fr.offset)
           T == {o \in 0 .. f.size : o \in S /\ \E fr \in Scan(f)[o] : ~Good(fr)}
<1>1. f.size \in Nat
  BY Sizes
<1>2. T = {}
  <2>1. SUFFICES ASSUME T # {} PROVE FALSE
    OBVIOUS
  <2>2. PICK o \in T : \A y \in T : y <= o
    <3>1. T \subseteq Nat /\ \A y \in T : y <= f.size
      BY <1>1
    <3> HIDE DEF T
    <3> QED
      BY <1>1, <2>1, <3>1, GreatestNumber
  <2>3. o \in 0 .. f.size /\ o \in S
    OBVIOUS
  <2>4. PICK fr \in Scan(f)[o] : ~Good(fr)
    OBVIOUS
  <2>5. ValidAt(f, o)
    BY <2>3, <2>4, ScanFrom
  <2>6. /\ Scan(f)[o] = {FrameAt(f, o)} \cup Scan(f)[After(f, o)]
        /\ After(f, o) \in 0 .. f.size /\ After(f, o) > o /\ After(f, o) \in S
    BY <2>3, <2>5, ScanFrom
  <2>7. After(f, o) \notin T
    BY <1>1, <2>2, <2>3, <2>6
  <2>8. fr # FrameAt(f, o)
    BY <2>3, <2>4, <2>5, FrameAtIs
  <2>9. fr \in Scan(f)[After(f, o)]
    BY <2>4, <2>6, <2>8
  <2> HIDE DEF Good
  <2> QED
    BY <2>4, <2>6, <2>7, <2>9
<1>3. \A fr \in Frames(f) : Good(fr)
  <2>1. 0 \in 0 .. f.size
    BY <1>1
  <2> HIDE DEF Good
  <2> QED
    BY <1>2, <2>1, FramesUnfold
<1>4. \A fr \in Frames(f) : EndOf(fr) \in S
  BY <1>3, FrameAtIs
<1> HIDE DEF T
<1> QED
  BY <1>3, <1>4 DEF Reached

\* What each frame a replay finds is.
LEMMA FramesAre ==
  ASSUME NEW f, f.size \in 0 .. FileBound, NEW fr \in Frames(f)
  PROVE  /\ fr.offset \in Cells /\ ValidAt(f, fr.offset) /\ fr = FrameAt(f, fr.offset)
         /\ EndOf(fr) = After(f, fr.offset) /\ EndOf(fr) \in 0 .. f.size
         /\ EndOf(fr) > fr.offset
         /\ f.cells[fr.offset] = Magic
<1>1. f.size \in Nat
  BY Sizes
<1>2. /\ fr.offset \in Nat /\ ValidAt(f, fr.offset) /\ fr = FrameAt(f, fr.offset)
  <2>1. 0 \in Nat /\ \A o \in 0 .. f.size : ValidAt(f, o) => After(f, o) \in Nat
    BY <1>1, DataAtIs
  <2>2. \A x \in Frames(f) : /\ x.offset \in Nat /\ ValidAt(f, x.offset)
                             /\ x = FrameAt(f, x.offset)
    BY <2>1, ScanInduction
  <2> QED
    BY <2>2
<1>3. EndOf(fr) = After(f, fr.offset)
  BY <1>2, FrameAtIs
<1> QED
  BY <1>2, <1>3, ValidFits, DataAtIs

\* A replay gets no further than the end of the file.
LEMMA ReachedIs ==
  ASSUME NEW f, f.size \in 0 .. FileBound, NEW p, Reached(f, p)
  PROVE  p \in 0 .. f.size
<1>1. 0 \in 0 .. f.size
  BY Sizes
<1> QED
  BY <1>1, FramesAre DEF Reached

\* What a scan finds, a scan from further back finds too.
LEMMA ScanContains ==
  ASSUME NEW f, f.size \in 0 .. FileBound, NEW o \in 0 .. f.size,
         NEW fr \in Scan(f)[o]
  PROVE  EndOf(fr) \in 0 .. f.size /\ Scan(f)[EndOf(fr)] \subseteq Scan(f)[o]
<1> DEFINE Good(k) == \A x \in Scan(f)[k] : /\ EndOf(x) \in 0 .. f.size
                                            /\ Scan(f)[EndOf(x)] \subseteq Scan(f)[k]
           T == {k \in 0 .. f.size : ~Good(k)}
<1>1. f.size \in Nat
  BY Sizes
<1>2. SUFFICES ASSUME T # {} PROVE FALSE
  OBVIOUS
<1>3. PICK k \in T : \A y \in T : y <= k
  <2>1. T \subseteq Nat /\ \A y \in T : y <= f.size
    BY <1>1
  <2> HIDE DEF T
  <2> QED
    BY <1>1, <1>2, <2>1, GreatestNumber
<1>4. k \in 0 .. f.size /\ ~Good(k)
  OBVIOUS
<1>5. ValidAt(f, k)
  BY <1>4, ScanFrom
<1>6. /\ Scan(f)[k] = {FrameAt(f, k)} \cup Scan(f)[After(f, k)]
      /\ After(f, k) \in 0 .. f.size /\ After(f, k) > k
  BY <1>4, <1>5, ScanFrom
<1>7. Good(After(f, k))
  BY <1>1, <1>3, <1>4, <1>6
<1> HIDE DEF T
<1> QED
  BY <1>4, <1>6, <1>7, FrameAtIs

\* A valid frame at an offset a replay reaches is found.
LEMMA ReachedFrame ==
  ASSUME NEW f, f.size \in 0 .. FileBound, NEW o, Reached(f, o), ValidAt(f, o)
  PROVE  FrameAt(f, o) \in Frames(f) /\ Reached(f, After(f, o))
<1>1. 0 \in 0 .. f.size
  BY Sizes
<1>2. o \in 0 .. f.size
  BY ReachedIs
<1>3. FrameAt(f, o) \in Scan(f)[o]
  BY <1>2, ScanFrom
<1>4. Scan(f)[o] \subseteq Scan(f)[0]
  BY <1>1, ScanContains, FramesUnfold DEF Reached
<1>5. FrameAt(f, o) \in Frames(f)
  BY <1>3, <1>4, FramesUnfold
<1> QED
  BY <1>5, FrameAtIs DEF Reached

\* A replay gets to each of its frames and to the end of each.
LEMMA FrameReached ==
  ASSUME NEW f, f.size \in 0 .. FileBound, NEW fr \in Frames(f)
  PROVE  Reached(f, fr.offset) /\ Reached(f, EndOf(fr))
<1> DEFINE S == {o \in 0 .. f.size : Reached(f, o)}
<1>1. 0 \in S
  BY Sizes DEF Reached
<1>2. \A o \in 0 .. f.size : o \in S /\ ValidAt(f, o) => After(f, o) \in S
  BY ReachedFrame, ReachedIs
<1>3. \A x \in Frames(f) : x.offset \in S
  <2> HIDE DEF S
  <2> QED
    BY <1>1, <1>2, ScanInduction
<1> QED
  BY <1>3 DEF Reached

\* Frames lie one after the other: none begins inside another.

\* Frames lie one after the other: none begins inside another.
LEMMA FramesTile ==
  ASSUME NEW f, f.size \in 0 .. FileBound, NEW p, Reached(f, p),
         NEW q, Reached(f, q), p < q
  PROVE  ValidAt(f, p) /\ After(f, p) <= q
<1> DEFINE Good(k) == \A x : Reached(f, x) /\ x < k => ValidAt(f, x) /\ After(f, x) <= k
           S == {k \in Nat : Good(k)}
<1>1. 0 \in S
  <2>1. \A x : Reached(f, x) => x \in Nat
    BY Sizes, ReachedIs
  <2> QED
    BY <2>1
<1>2. ASSUME NEW o \in 0 .. f.size, o \in S, ValidAt(f, o) PROVE After(f, o) \in S
  <2> DEFINE n == After(f, o)
             U == {x \in Nat : Reached(f, x) /\ (x <= o \/ x >= n)}
  <2>1. o \in Nat /\ n \in Nat /\ n > o
    BY Sizes, DataAtIs
  <2>2. \A x : Reached(f, x) /\ x < o => ValidAt(f, x) /\ After(f, x) <= o
    BY <1>2
  <2>3. 0 \in U
    BY <2>1 DEF Reached
  <2>4. ASSUME NEW x \in 0 .. f.size, x \in U, ValidAt(f, x)
        PROVE  After(f, x) \in U
    <3>1. x \in Nat /\ After(f, x) \in Nat /\ After(f, x) > x
      BY Sizes, DataAtIs
    <3>2. Reached(f, x) /\ (x <= o \/ x >= n)
      BY <2>4
    <3>3. Reached(f, After(f, x))
      BY <3>2, <2>4, ReachedFrame
    <3>4. CASE x < o
      BY <2>1, <2>2, <3>1, <3>2, <3>3, <3>4
    <3>5. CASE x = o
      BY <2>1, <3>3, <3>5
    <3>6. CASE x >= n
      <4> HIDE DEF n
      <4> QED
        BY <2>1, <3>1, <3>3, <3>6
    <3> HIDE DEF n, U
    <3> QED
      BY <2>1, <3>1, <3>2, <3>4, <3>5, <3>6
  <2>5. \A x : Reached(f, x) => x \in U
    <3> HIDE DEF U
    <3> QED
      BY <2>3, <2>4, ScanInduction
  <2>6. Good(n)
    <3> SUFFICES ASSUME NEW x, Reached(f, x), x < n
                 PROVE  ValidAt(f, x) /\ After(f, x) <= n
      OBVIOUS
    <3>1. x \in Nat /\ x <= o /\ After(f, x) \in Nat
      <4>1. x \in Nat /\ (x <= o \/ x >= n)
        BY <2>5
      <4> HIDE DEF n
      <4> QED
        BY <2>1, <4>1, DataAtIs
    <3>2. CASE x < o
      <4>1. ValidAt(f, x) /\ After(f, x) <= o
        BY <2>2, <3>2
      <4> HIDE DEF n
      <4> QED
        BY <2>1, <3>1, <4>1
    <3>3. CASE x = o
      BY <1>2, <2>1, <3>3
    <3> QED
      BY <2>1, <3>1, <3>2, <3>3
  <2> HIDE DEF Good
  <2> QED
    BY <2>1, <2>6
<1>3. q \in S
  <2> HIDE DEF S
  <2> QED
    BY <1>1, <1>2, ScanInduction
<1> QED
  BY <1>3

\* Below an offset a replay reaches every cell is in a frame it finds.
LEMMA FramesCover ==
  ASSUME NEW f, f.size \in 0 .. FileBound, NEW p, Reached(f, p), NEW c \in Nat, c < p
  PROVE  \E fr \in Frames(f) : fr.offset <= c /\ c < EndOf(fr) /\ EndOf(fr) <= p
<1> DEFINE S == {k \in Nat : /\ Reached(f, k)
                             /\ \A x \in Nat : x < k =>
                                  \E fr \in Frames(f) : /\ fr.offset <= x /\ x < EndOf(fr)
                                                        /\ EndOf(fr) <= k}
<1>1. 0 \in S
  BY DEF Reached
<1>2. ASSUME NEW o \in 0 .. f.size, o \in S, ValidAt(f, o) PROVE After(f, o) \in S
  <2>1. o \in Nat /\ After(f, o) \in Nat /\ After(f, o) > o
    BY Sizes, DataAtIs
  <2>2. FrameAt(f, o) \in Frames(f) /\ Reached(f, After(f, o))
    BY <1>2, ReachedFrame
  <2>3. FrameAt(f, o).offset = o /\ EndOf(FrameAt(f, o)) = After(f, o)
    BY FrameAtIs
  <2>4. ASSUME NEW x \in Nat, x < After(f, o)
        PROVE  \E fr \in Frames(f) : /\ fr.offset <= x /\ x < EndOf(fr)
                                     /\ EndOf(fr) <= After(f, o)
    <3>1. CASE x < o
      <4>1. PICK fr \in Frames(f) : /\ fr.offset <= x /\ x < EndOf(fr) /\ EndOf(fr) <= o
        BY <1>2, <3>1
      <4>2. EndOf(fr) \in Nat
        BY <4>1, FramesAre, Sizes
      <4> QED
        BY <2>1, <4>1, <4>2
    <3>2. CASE x >= o
      BY <2>1, <2>2, <2>3, <2>4, <3>2
    <3> QED
      BY <2>1, <3>1, <3>2
  <2> QED
    BY <2>1, <2>2, <2>4
<1>3. p \in S
  <2> HIDE DEF S
  <2> QED
    BY <1>1, <1>2, ScanInduction
<1> QED
  BY <1>3

-----------------------------------------------------------------------------
(* Files that agree *)

\* Two files hold the same cells below p.
Agree(f, g, p) == \A c \in Cells : c < p => f.cells[c] = g.cells[c]

\* Files that agree up to p agree up to any offset before it, both ways.
LEMMA AgreeBelow ==
  ASSUME NEW f, NEW g, NEW p \in Nat, Agree(f, g, p), NEW q \in Nat, q <= p
  PROVE  Agree(f, g, q) /\ Agree(g, f, q) /\ Agree(g, f, p)
<1>1. \A c \in Cells : c < q => c < p
  BY Sizes DEF Cells
<1> QED
  BY <1>1 DEF Agree

\* A frame is valid in every file that agrees with this one up to its end.
LEMMA ValidLocal ==
  ASSUME NEW f, f.size \in 0 .. FileBound, NEW o \in Nat, ValidAt(f, o),
         NEW g, g.size \in 0 .. FileBound, Agree(f, g, After(f, o)), After(f, o) <= g.size
  PROVE  ValidAt(g, o) /\ FrameAt(g, o) = FrameAt(f, o) /\ After(g, o) = After(f, o)
<1> DEFINE n == DataSize(f.cells[o + 1])
<1>1. /\ n \in Nat /\ After(f, o) = o + 3 + n /\ After(f, o) \in 0 .. f.size
  BY DataAtIs, DataSizeIs, ValidFits
<1>2. \A c \in Nat : c < o + 3 + n => f.cells[c] = g.cells[c]
  <2> HIDE DEF n
  <2> QED
    BY <1>1, Sizes DEF Agree, Cells
<1>3. /\ f.cells[o] = g.cells[o] /\ f.cells[o + 1] = g.cells[o + 1]
      /\ f.cells[o + 2 + n] = g.cells[o + 2 + n]
      /\ \A i \in 1 .. n : f.cells[o + 1 + i] = g.cells[o + 1 + i]
  <2> HIDE DEF n
  <2> QED
    BY <1>1, <1>2
<1>4. DataAt(g, o) = DataAt(f, o)
  BY <1>3 DEF DataAt
<1>5. n = DataSize(g.cells[o + 1])
  BY <1>3
<1>6. o + 3 + n <= g.size /\ o + FrameSize(<<>>) <= g.size
  <2> HIDE DEF n
  <2> QED
    BY <1>1, Sizes DEF FrameSize
<1> HIDE DEF n
<1>7. f.cells[o] = Magic /\ f.cells[o + 2 + n] = Crc(DataAt(f, o))
  BY DEF ValidAt, n
<1> QED
  BY <1>3, <1>4, <1>5, <1>6, <1>7 DEF ValidAt, FrameAt, After

\* So a replay of a file that agrees with this one below p gets as far as p.
LEMMA ReachedLocal ==
  ASSUME NEW f, f.size \in 0 .. FileBound, NEW p, Reached(f, p),
         NEW g, g.size \in 0 .. FileBound, Agree(f, g, p), p <= g.size
  PROVE  /\ Reached(g, p)
         /\ \A fr \in Frames(f) : EndOf(fr) <= p => fr \in Frames(g)
<1> DEFINE S == {k \in Nat : Reached(f, k) /\ (k <= p => Reached(g, k))}
<1>1. p \in 0 .. f.size /\ p \in Nat
  BY ReachedIs, Sizes
<1>2. 0 \in S
  BY DEF Reached
<1>3. ASSUME NEW o \in 0 .. f.size, Reached(f, o), Reached(g, o), ValidAt(f, o),
             After(f, o) <= p
      PROVE  FrameAt(f, o) \in Frames(g) /\ Reached(g, After(f, o))
  <2>1. o \in Nat /\ After(f, o) \in Nat
    BY Sizes, DataAtIs
  <2>2. Agree(f, g, After(f, o)) /\ After(f, o) <= g.size
    BY <1>1, <1>3, <2>1, AgreeBelow, Sizes
  <2>3. ValidAt(g, o) /\ FrameAt(g, o) = FrameAt(f, o) /\ After(g, o) = After(f, o)
    BY <1>3, <2>1, <2>2, ValidLocal
  <2> QED
    BY <1>3, <2>3, ReachedFrame
<1>4. ASSUME NEW o \in 0 .. f.size, o \in S, ValidAt(f, o) PROVE After(f, o) \in S
  <2>1. o \in Nat /\ After(f, o) \in Nat /\ After(f, o) > o
    BY Sizes, DataAtIs
  <2>2. Reached(f, After(f, o))
    BY <1>4, ReachedFrame
  <2>3. After(f, o) <= p => Reached(g, After(f, o))
    BY <1>1, <1>3, <1>4, <2>1
  <2> QED
    BY <2>1, <2>2, <2>3
<1>5. \A k : Reached(f, k) => k \in S
  <2> HIDE DEF S
  <2> QED
    BY <1>2, <1>4, ScanInduction
<1>6. Reached(g, p)
  BY <1>1, <1>5
<1>7. ASSUME NEW fr \in Frames(f), EndOf(fr) <= p PROVE fr \in Frames(g)
  <2>1. /\ fr.offset \in Nat /\ fr.offset \in 0 .. f.size
        /\ ValidAt(f, fr.offset) /\ fr = FrameAt(f, fr.offset)
        /\ EndOf(fr) = After(f, fr.offset) /\ fr.offset < EndOf(fr)
    <3>1. /\ fr.offset \in Cells /\ ValidAt(f, fr.offset) /\ fr = FrameAt(f, fr.offset)
          /\ EndOf(fr) = After(f, fr.offset) /\ EndOf(fr) \in 0 .. f.size
          /\ EndOf(fr) > fr.offset
      BY FramesAre
    <3> QED
      BY <3>1, Sizes DEF Cells
  <2>2. Reached(f, fr.offset) /\ EndOf(fr) \in Nat
    BY FrameReached, FramesAre, Sizes
  <2>3. Reached(g, fr.offset)
    BY <1>1, <1>5, <1>7, <2>1, <2>2
  <2> QED
    BY <1>3, <1>7, <2>1, <2>2, <2>3
<1> QED
  BY <1>6, <1>7

\* The cells of a frame found in two files are the same in both.
LEMMA SharedFrame ==
  ASSUME NEW f, f.size \in 0 .. FileBound, NEW g, g.size \in 0 .. FileBound,
         NEW fr \in Frames(f), fr \in Frames(g),
         NEW c \in Nat, fr.offset <= c, c < EndOf(fr)
  PROVE  f.cells[c] = g.cells[c]
<1> DEFINE o == fr.offset
           n == Len(fr.data)
<1>1. /\ o \in Nat /\ ValidAt(f, o) /\ ValidAt(g, o)
      /\ fr.data = DataAt(f, o) /\ fr.data = DataAt(g, o)
      /\ EndOf(fr) = After(f, o)
  <2>1. /\ o \in Cells /\ ValidAt(f, o) /\ fr = FrameAt(f, o) /\ EndOf(fr) = After(f, o)
    BY FramesAre
  <2>2. ValidAt(g, o) /\ fr = FrameAt(g, o)
    BY FramesAre
  <2> QED
    BY <2>1, <2>2, FrameAtIs, Sizes DEF Cells
<1>2. n = DataSize(f.cells[o + 1]) /\ n = DataSize(g.cells[o + 1]) /\ n \in Nat
      /\ After(f, o) = o + 3 + n
  <2>1. /\ Len(DataAt(f, o)) = DataSize(f.cells[o + 1])
        /\ Len(DataAt(g, o)) = DataSize(g.cells[o + 1])
        /\ After(f, o) = o + 3 + DataSize(f.cells[o + 1])
    BY <1>1, DataAtIs
  <2>2. DataSize(f.cells[o + 1]) \in Nat
    BY DataSizeIs
  <2> QED
    BY <1>1, <2>1, <2>2
<1>3. f.cells[o] = g.cells[o] /\ f.cells[o + 1] = g.cells[o + 1]
  <2>1. /\ f.cells[o] = Magic /\ f.cells[o + 1] = Size(DataSize(f.cells[o + 1]))
    BY <1>1, ValidFits
  <2>2. /\ g.cells[o] = Magic /\ g.cells[o + 1] = Size(DataSize(g.cells[o + 1]))
    BY <1>1, ValidFits
  <2> QED
    BY <1>2, <2>1, <2>2
<1>4. f.cells[o + 2 + n] = g.cells[o + 2 + n]
  BY <1>1, <1>2 DEF ValidAt
<1>5. ASSUME NEW i \in 1 .. n PROVE f.cells[o + 1 + i] = g.cells[o + 1 + i]
  <2>1. DataAt(f, o)[i] = f.cells[o + 1 + i] /\ DataAt(g, o)[i] = g.cells[o + 1 + i]
    BY <1>2 DEF DataAt
  <2> QED
    BY <1>1, <2>1
<1>6. c = o \/ c = o + 1 \/ c = o + 2 + n \/ c - o - 1 \in 1 .. n
  <2> HIDE DEF n, o
  <2> QED
    BY <1>1, <1>2 DEF o
<1>7. CASE c - o - 1 \in 1 .. n
  <2>1. c = o + 1 + (c - o - 1)
    BY <1>1
  <2> HIDE DEF n, o
  <2> QED
    BY <1>5, <1>7, <2>1
<1> QED
  BY <1>3, <1>4, <1>6, <1>7

\* Files with the same frames up to p agree up to p.
LEMMA SharedPrefix ==
  ASSUME NEW f, f.size \in 0 .. FileBound, NEW g, g.size \in 0 .. FileBound,
         NEW p, Reached(f, p),
         \A fr \in Frames(f) : EndOf(fr) <= p => fr \in Frames(g)
  PROVE  Agree(f, g, p) /\ p <= g.size
<1>1. Agree(f, g, p)
  <2>1. ASSUME NEW c \in Cells, c < p PROVE f.cells[c] = g.cells[c]
    <3>1. c \in Nat
      BY Sizes DEF Cells
    <3>2. PICK fr \in Frames(f) : fr.offset <= c /\ c < EndOf(fr) /\ EndOf(fr) <= p
      BY <2>1, <3>1, FramesCover
    <3> QED
      BY <3>1, <3>2, SharedFrame
  <2> QED
    BY <2>1 DEF Agree
<1>2. p <= g.size
  <2>1. CASE p = 0
    BY <2>1, Sizes
  <2>2. CASE p # 0
    <3>1. PICK fr \in Frames(f) : p = EndOf(fr)
      BY <2>2 DEF Reached
    <3>2. fr \in Frames(g) /\ p \in Nat
      BY <3>1, ReachedIs, Sizes
    <3> QED
      BY <3>1, <3>2, FramesAre, Sizes
  <2> QED
    BY <2>1, <2>2
<1> QED
  BY <1>1, <1>2

\* A replay finds finitely many frames.
LEMMA FramesFinite ==
  ASSUME NEW f, f.size \in 0 .. FileBound
  PROVE  IsFiniteSet(Frames(f))
<1> DEFINE T == {k \in 0 .. f.size : ~IsFiniteSet(Scan(f)[k])}
<1>1. f.size \in Nat
  BY Sizes
<1>2. T = {}
  <2>1. SUFFICES ASSUME T # {} PROVE FALSE
    OBVIOUS
  <2>2. PICK k \in T : \A y \in T : y <= k
    <3>1. T \subseteq Nat /\ \A y \in T : y <= f.size
      BY <1>1
    <3> HIDE DEF T
    <3> QED
      BY <1>1, <2>1, <3>1, GreatestNumber
  <2>3. k \in 0 .. f.size /\ ~IsFiniteSet(Scan(f)[k])
    OBVIOUS
  <2>4. ValidAt(f, k)
    BY <2>3, ScanFrom, FS_EmptySet
  <2>5. /\ Scan(f)[k] = {FrameAt(f, k)} \cup Scan(f)[After(f, k)]
        /\ After(f, k) \in 0 .. f.size /\ After(f, k) > k
    BY <2>3, <2>4, ScanFrom
  <2>6. IsFiniteSet(Scan(f)[After(f, k)])
    BY <1>1, <2>2, <2>3, <2>5
  <2> QED
    BY <2>3, <2>5, <2>6, FS_AddElement
<1> QED
  BY <1>1, <1>2, FramesUnfold

\* The greatest of a bounded set of numbers is one of them.
LEMMA MaxIs ==
  ASSUME NEW T, T \subseteq Nat, T # {}, NEW b \in Nat, \A y \in T : y <= b
  PROVE  Max(T) \in T /\ \A y \in T : y <= Max(T)
<1>1. PICK x \in T : \A y \in T : y <= x
  BY GreatestNumber
<1>2. \E x1 \in T : \A y \in T : x1 >= y
  BY <1>1
<1> QED
  BY <1>2 DEF Max

\* The end of the log: reached, last, and no frame is valid there.
LEMMA EndIs ==
  ASSUME NEW f, f.size \in 0 .. FileBound
  PROVE  /\ Reached(f, End(Frames(f))) /\ ~ValidAt(f, End(Frames(f)))
         /\ \A p : Reached(f, p) => p <= End(Frames(f))
<1> DEFINE T == {0} \cup {fr.offset + FrameSize(fr.data) : fr \in Frames(f)}
<1>1. \A p : Reached(f, p) <=> p \in T
  BY DEF Reached, EndOf
<1>2. T \subseteq Nat /\ T # {} /\ \A y \in T : y <= f.size
  <2>1. \A p \in T : p \in 0 .. f.size
    BY <1>1, ReachedIs
  <2> HIDE DEF T
  <2>2. 0 \in T
    BY DEF T
  <2> QED
    BY <2>1, <2>2, Sizes
<1>3. End(Frames(f)) = Max(T)
  BY DEF End
<1> HIDE DEF T
<1>4. Max(T) \in T /\ \A y \in T : y <= Max(T)
  <2>1. f.size \in Nat
    BY Sizes
  <2> QED
    BY <1>2, <2>1, MaxIs
<1>5. ASSUME ValidAt(f, Max(T)) PROVE FALSE
  <2>1. Reached(f, After(f, Max(T))) /\ Max(T) \in Nat
    BY <1>1, <1>2, <1>4, <1>5, ReachedFrame
  <2> QED
    BY <1>1, <1>4, <2>1, DataAtIs
<1> QED
  BY <1>1, <1>3, <1>4, <1>5

\* It is the only reached offset where no frame is valid.
LEMMA EndUnique ==
  ASSUME NEW f, f.size \in 0 .. FileBound, NEW p, Reached(f, p), ~ValidAt(f, p)
  PROVE  p = End(Frames(f))
<1>1. p \in Nat /\ End(Frames(f)) \in Nat /\ p <= End(Frames(f))
  BY EndIs, ReachedIs, Sizes
<1>2. ~(p < End(Frames(f)))
  BY EndIs, FramesTile
<1> QED
  BY <1>1, <1>2

-----------------------------------------------------------------------------
\* The frames that begin before p.
Below(f, p) == {fr \in Frames(f) : fr.offset < p}

\* A frame that begins before an offset a replay reaches ends before it too.
LEMMA BelowEnds ==
  ASSUME NEW f, f.size \in 0 .. FileBound, NEW p, Reached(f, p), NEW fr \in Frames(f)
  PROVE  fr.offset < p <=> EndOf(fr) <= p
<1>1. p \in Nat /\ fr.offset \in Nat /\ EndOf(fr) \in Nat /\ EndOf(fr) > fr.offset
      /\ EndOf(fr) = After(f, fr.offset)
  BY ReachedIs, FramesAre, Sizes DEF Cells
<1>2. fr.offset < p => EndOf(fr) <= p
  BY <1>1, FrameReached, FramesTile
<1> QED
  BY <1>1, <1>2

\* The frames before an offset depend on the cells before it alone.
LEMMA BelowLocal ==
  ASSUME NEW f, f.size \in 0 .. FileBound, NEW p, Reached(f, p),
         NEW g, g.size \in 0 .. FileBound, Agree(f, g, p), p <= g.size
  PROVE  Below(g, p) = Below(f, p)
<1>1. p \in Nat /\ p <= f.size
  BY ReachedIs, Sizes
<1>2. Reached(g, p) /\ Agree(g, f, p)
  BY <1>1, ReachedLocal, AgreeBelow
<1>3. ASSUME NEW fr \in Below(f, p) PROVE fr \in Below(g, p)
  <2>1. fr \in Frames(f) /\ fr.offset < p
    BY DEF Below
  <2>2. EndOf(fr) <= p
    BY <2>1, BelowEnds
  <2> QED
    BY <2>1, <2>2, ReachedLocal DEF Below
<1>4. ASSUME NEW fr \in Below(g, p) PROVE fr \in Below(f, p)
  <2>1. fr \in Frames(g) /\ fr.offset < p
    BY DEF Below
  <2>2. EndOf(fr) <= p
    BY <1>2, <2>1, BelowEnds
  <2> QED
    BY <1>1, <1>2, <2>1, <2>2, ReachedLocal DEF Below
<1> QED
  BY <1>3, <1>4

\* The frames before an offset can be counted.
LEMMA BelowFinite ==
  ASSUME NEW f, f.size \in 0 .. FileBound, NEW p
  PROVE  IsFiniteSet(Below(f, p)) /\ Cardinality(Below(f, p)) \in Nat
<1>1. Below(f, p) \subseteq Frames(f)
  BY DEF Below
<1>2. IsFiniteSet(Below(f, p))
  BY <1>1, FramesFinite, FS_Subset
<1> QED
  BY <1>2, FS_CardinalityType

\* All frames begin before the end of the log ...
LEMMA BelowEnd ==
  ASSUME NEW f, f.size \in 0 .. FileBound
  PROVE  Below(f, End(Frames(f))) = Frames(f)
<1>1. \A fr \in Frames(f) : EndOf(fr) <= End(Frames(f))
  BY EndIs, FrameReached
<1> QED
  BY <1>1, EndIs, BelowEnds DEF Below

\* ... and a frame adds one to those before it.
LEMMA BelowNext ==
  ASSUME NEW f, f.size \in 0 .. FileBound, NEW p, Reached(f, p), ValidAt(f, p)
  PROVE  /\ Below(f, After(f, p)) = Below(f, p) \cup {FrameAt(f, p)}
         /\ Cardinality(Below(f, After(f, p))) = Cardinality(Below(f, p)) + 1
<1> DEFINE q == After(f, p)
<1>1. p \in Nat /\ q \in Nat /\ q > p /\ Reached(f, q) /\ FrameAt(f, p) \in Frames(f)
  BY ReachedIs, ReachedFrame, DataAtIs, Sizes
<1>2. FrameAt(f, p).offset = p
  BY FrameAtIs
<1>3. ASSUME NEW fr \in Frames(f), fr.offset < q, ~(fr.offset < p)
      PROVE  fr = FrameAt(f, p)
  <2>1. fr.offset \in Nat /\ fr = FrameAt(f, fr.offset) /\ Reached(f, fr.offset)
    BY FramesAre, FrameReached, Sizes DEF Cells
  <2>2. ~(p < fr.offset)
    <3> HIDE DEF q
    <3>1. SUFFICES ASSUME p < fr.offset PROVE FALSE
      OBVIOUS
    <3>2. q <= fr.offset
      BY <2>1, <3>1, FramesTile DEF q
    <3> QED
      BY <1>1, <1>3, <2>1, <3>2
  <2>3. fr.offset = p
    BY <1>1, <1>3, <2>1, <2>2
  <2> QED
    BY <2>1, <2>3
<1>4. \A fr \in Frames(f) : fr.offset \in Nat
  BY FramesAre, Sizes DEF Cells
<1> HIDE DEF q
<1>5. Below(f, q) = Below(f, p) \cup {FrameAt(f, p)}
  <2>1. \A fr \in Below(f, q) : fr \in Below(f, p) \cup {FrameAt(f, p)}
    BY <1>3 DEF Below
  <2>2. \A fr \in Below(f, p) : fr \in Below(f, q)
    BY <1>1, <1>4 DEF Below
  <2>3. FrameAt(f, p) \in Below(f, q)
    BY <1>1, <1>2 DEF Below
  <2> QED
    BY <2>1, <2>2, <2>3
<1>6. FrameAt(f, p) \notin Below(f, p)
  BY <1>1, <1>2 DEF Below
<1>7. Cardinality(Below(f, q)) = Cardinality(Below(f, p)) + 1
  BY <1>5, <1>6, BelowFinite, FS_AddElement
<1> QED
  BY <1>5, <1>7 DEF q

-----------------------------------------------------------------------------
(* Cells *)

\* What append writes is a sequence of words, and not an empty one.
LEMMA PayloadIs ==
  ASSUME NEW data \in Payloads
  PROVE  /\ Len(data) \in 1 .. MaxPayload /\ data \in [1 .. Len(data) -> Words]
         /\ data \in Seq(Words) /\ data # <<>>
         /\ Crc(data) = <<"crc", data>>
<1>1. PICK n \in 1 .. MaxPayload : data \in [1 .. n -> Words]
  BY DEF Payloads
<1>2. n \in Nat /\ Len(data) = n /\ data \in Seq(Words)
  BY <1>1, Sizes
<1>3. data # <<>>
  BY <1>1, <1>2
<1> QED
  BY <1>1, <1>2, <1>3 DEF Crc

\* The frame field by field.
LEMMA FrameIs ==
  ASSUME NEW data \in Payloads
  PROVE  /\ Frame(data)[1] = Magic /\ Frame(data)[2] = Size(Len(data))
         /\ \A i \in 1 .. Len(data) : Frame(data)[2 + i] = data[i]
         /\ Frame(data)[3 + Len(data)] = <<"crc", data>>
         /\ FrameSize(data) = Len(data) + 3
<1> DEFINE head == <<Magic, Size(Len(data))>>
           All == Words \cup {Magic, Size(Len(data)), Crc(data)}
<1>1. data \in Seq(All) /\ Len(data) \in Nat
  BY PayloadIs
<1>2. head \in Seq(All) /\ Len(head) = 2 /\ head[1] = Magic /\ head[2] = Size(Len(data))
  OBVIOUS
<1>3. <<Crc(data)>> \in Seq(All) /\ Len(<<Crc(data)>>) = 1 /\ <<Crc(data)>>[1] = Crc(data)
  OBVIOUS
<1> HIDE DEF head, All
<1>4. /\ head \o data \in Seq(All) /\ Len(head \o data) = 2 + Len(data)
      /\ (head \o data)[1] = Magic /\ (head \o data)[2] = Size(Len(data))
      /\ \A i \in 1 .. Len(data) : (head \o data)[2 + i] = data[i]
  <2>1. head \in Seq(All) /\ data \in Seq(All)
    BY <1>1, <1>2
  <2>2. /\ head \o data \in Seq(All) /\ Len(head \o data) = Len(head) + Len(data)
        /\ \A i \in 1 .. Len(head) + Len(data) :
             (head \o data)[i] = IF i <= Len(head) THEN head[i] ELSE data[i - Len(head)]
    BY <2>1, ConcatProperties
  <2>3. (head \o data)[1] = Magic /\ (head \o data)[2] = Size(Len(data))
    BY <1>1, <1>2, <2>2
  <2>4. \A i \in 1 .. Len(data) : (head \o data)[2 + i] = data[i]
    BY <1>1, <1>2, <2>2
  <2> QED
    BY <1>2, <2>2, <2>3, <2>4
<1>5. Frame(data) = (head \o data) \o <<Crc(data)>>
  BY DEF Frame, head
<1> DEFINE body == head \o data
<1> HIDE DEF body
<1>6. /\ \A i \in 1 .. Len(body) : Frame(data)[i] = body[i]
      /\ Frame(data)[Len(body) + 1] = Crc(data)
  BY <1>3, <1>4, <1>5 DEF body
<1>7. /\ \A i \in 1 .. 2 + Len(data) : Frame(data)[i] = (head \o data)[i]
      /\ Frame(data)[3 + Len(data)] = Crc(data)
  BY <1>1, <1>4, <1>6 DEF body
<1> QED
  BY <1>1, <1>4, <1>7, PayloadIs DEF FrameSize

\* A size is read back as it was written.
LEMMA SizeIs ==
  ASSUME NEW n \in 0 .. MaxPayload
  PROVE  DataSize(Size(n)) = n
<1>1. ASSUME NEW m \in 0 .. MaxPayload, Size(m) = Size(n) PROVE m = n
  <2>1. CASE m = 0 \/ n = 0
    BY <1>1, <2>1, CellAssumption, Sizes DEF Size
  <2>2. CASE m # 0 /\ n # 0
    BY <1>1, <2>2 DEF Size
  <2> QED
    BY <2>1, <2>2
<1>2. \E m \in 0 .. MaxPayload : Size(n) = Size(m)
  OBVIOUS
<1> QED
  BY <1>1, <1>2 DEF DataSize

\* The sequences of cells a reader may take for a payload.
DataRead == UNION {[1 .. n -> Cell] : n \in 1 .. MaxPayload}

\* The checksum of what was read, found in the file, is that of a payload.
LEMMA CrcIs ==
  ASSUME NEW data \in DataRead, Crc(data) \in Cell
  PROVE  data \in Payloads /\ Crc(data) = <<"crc", data>>
<1>1. PICK n \in 1 .. MaxPayload : data \in [1 .. n -> Cell]
  BY DEF DataRead
<1>2. data # <<>>
  BY <1>1, Sizes
<1>3. Crc(data) = <<"crc", data>>
  BY <1>2 DEF Crc
<1>4. Crc(data) \notin Words \cup {Zero, Magic}
  BY CellAssumption DEF DataRead
<1>5. \A m \in 1 .. MaxPayload : Crc(data) # Size(m)
  BY <1>3 DEF Size
<1>6. PICK d \in Payloads : Crc(data) = Crc(d)
  BY <1>4, <1>5 DEF Cell
<1>7. Crc(d) = <<"crc", d>>
  BY PayloadIs
<1>8. data = d
  BY <1>3, <1>6, <1>7
<1> QED
  BY <1>3, <1>8

\* The magic, the sizes, the checksums and the words can be told apart.
LEMMA CellsAre ==
  /\ Zero \in Cell /\ Magic \in Cell /\ Magic # Zero /\ Words \subseteq Cell
  /\ Magic \notin Words
  /\ \A n \in 0 .. MaxPayload : Size(n) \in Cell /\ Size(n) # Magic
  /\ \A data \in Payloads : /\ <<"crc", data>> \in Cell /\ <<"crc", data>> # Magic
                            /\ <<"crc", data>> \notin Words \cup {Zero}
                            /\ \A n \in 0 .. MaxPayload : Size(n) # <<"crc", data>>
<1>1. Magic # Zero /\ Magic \notin Words
  BY CellAssumption
<1>2. ASSUME NEW n \in 0 .. MaxPayload PROVE Size(n) \in Cell /\ Size(n) # Magic
  <2>1. CASE n = 0
    BY <1>1, <2>1 DEF Size, Cell
  <2>2. CASE n # 0
    <3>1. n \in 1 .. MaxPayload
      BY <2>2, Sizes
    <3> QED
      BY <3>1, CellAssumption DEF Cell
  <2> QED
    BY <2>1, <2>2
<1>3. ASSUME NEW data \in Payloads
      PROVE  /\ <<"crc", data>> \in Cell /\ <<"crc", data>> # Magic
             /\ <<"crc", data>> \notin Words \cup {Zero}
             /\ \A n \in 0 .. MaxPayload : Size(n) # <<"crc", data>>
  <2>1. Crc(data) = <<"crc", data>>
    BY PayloadIs
  <2>2. data \in DataRead
    <3>1. PICK n \in 1 .. MaxPayload : data \in [1 .. n -> Words]
      BY DEF Payloads
    <3>2. data \in [1 .. n -> Cell]
      BY <3>1 DEF Cell
    <3> QED
      BY <3>2 DEF DataRead
  <2>3. Crc(data) \notin Words \cup {Zero, Magic}
    BY <2>2, CellAssumption DEF DataRead
  <2>4. \A n \in 0 .. MaxPayload : Size(n) = Zero \/ Size(n) = <<"size", n>>
    BY DEF Size
  <2>5. \A n : <<"size", n>> # <<"crc", data>>
    OBVIOUS
  <2> QED
    BY <2>1, <2>3, <2>4, <2>5 DEF Cell
<1> QED
  BY <1>1, <1>2, <1>3 DEF Cell

\* Where the magic and the checksum of a frame stand.
LEMMA FrameCells ==
  ASSUME NEW data \in Payloads, NEW i \in 1 .. FrameSize(data)
  PROVE  /\ Frame(data)[i] \in Cell
         /\ Frame(data)[i] = Magic => i = 1
         /\ \A d \in Payloads : Frame(data)[i] = Crc(d) => d = data /\ i = 3 + Len(data)
<1>1. Len(data) \in 1 .. MaxPayload /\ data \in [1 .. Len(data) -> Words]
  BY PayloadIs
<1>2. FrameSize(data) = Len(data) + 3
  BY FrameIs
<1>3. i = 1 \/ i = 2 \/ i - 2 \in 1 .. Len(data) \/ i = 3 + Len(data)
  BY <1>1, <1>2, Sizes
<1>4. \A d \in Payloads : Crc(d) = <<"crc", d>>
  BY PayloadIs
<1>5. CASE i = 1
  BY <1>4, <1>5, FrameIs, CellsAre
<1>6. CASE i = 2
  <2>1. Frame(data)[i] = Size(Len(data)) /\ Len(data) \in 0 .. MaxPayload
    BY <1>1, <1>6, FrameIs, Sizes
  <2> QED
    BY <1>4, <2>1, CellsAre
<1>7. CASE i - 2 \in 1 .. Len(data)
  <2>1. Frame(data)[2 + (i - 2)] = data[i - 2] /\ data[i - 2] \in Words
    BY <1>1, <1>7, FrameIs
  <2>2. Frame(data)[i] \in Words
    BY <1>2, <2>1
  <2> QED
    BY <1>4, <2>2, CellsAre
<1>8. CASE i = 3 + Len(data)
  <2>1. Frame(data)[i] = <<"crc", data>>
    BY <1>8, FrameIs
  <2>2. \A d \in Payloads : <<"crc", data>> = <<"crc", d>> => d = data
    OBVIOUS
  <2> QED
    BY <1>4, <1>8, <2>1, <2>2, CellsAre
<1> QED
  BY <1>3, <1>5, <1>6, <1>7, <1>8

\* A frame that is written whole is valid, and is the frame that was written.
LEMMA WrittenFrame ==
  ASSUME NEW f, NEW o \in Nat, NEW data \in Payloads, o + FrameSize(data) <= f.size,
         f.size \in 0 .. FileBound,
         \A i \in 1 .. FrameSize(data) : f.cells[o + i - 1] = Frame(data)[i]
  PROVE  /\ ValidAt(f, o) /\ FrameAt(f, o) = [offset |-> o, data |-> data]
         /\ After(f, o) = o + FrameSize(data)
<1> DEFINE n == Len(data)
<1>1. n \in 1 .. MaxPayload /\ data \in [1 .. n -> Words] /\ n \in Nat
  BY PayloadIs
<1>2. FrameSize(data) = n + 3
  BY FrameIs
<1>3. \A i \in 1 .. n + 3 : f.cells[o + i - 1] = Frame(data)[i]
  BY <1>2
<1>4. /\ Frame(data)[1] = Magic /\ Frame(data)[2] = Size(n)
      /\ \A i \in 1 .. n : Frame(data)[2 + i] = data[i]
      /\ Frame(data)[3 + n] = <<"crc", data>>
  BY FrameIs
<1> HIDE DEF n
<1>5. f.cells[o] = Magic /\ f.cells[o + 1] = Size(n) /\ f.cells[o + 2 + n] = <<"crc", data>>
  <2>1. f.cells[o + 1 - 1] = Frame(data)[1] /\ f.cells[o + 2 - 1] = Frame(data)[2]
    BY <1>1, <1>3
  <2>2. f.cells[o + (3 + n) - 1] = Frame(data)[3 + n]
    BY <1>1, <1>3
  <2>3. o + 1 - 1 = o /\ o + 2 - 1 = o + 1 /\ o + (3 + n) - 1 = o + 2 + n
    BY <1>1
  <2> QED
    BY <1>4, <2>1, <2>2, <2>3
<1>6. DataSize(f.cells[o + 1]) = n
  BY <1>1, <1>5, SizeIs
<1>7. DataAt(f, o) = data
  <2>1. ASSUME NEW i \in 1 .. n PROVE f.cells[o + 1 + i] = data[i]
    <3>1. f.cells[o + (2 + i) - 1] = Frame(data)[2 + i]
      BY <1>1, <1>3
    <3>2. o + (2 + i) - 1 = o + 1 + i
      BY <1>1
    <3> QED
      BY <1>4, <3>1, <3>2
  <2>2. DataAt(f, o) = [i \in 1 .. n |-> f.cells[o + 1 + i]]
    BY <1>6 DEF DataAt
  <2> QED
    BY <1>1, <2>1, <2>2
<1>8. Crc(DataAt(f, o)) = <<"crc", data>>
  BY <1>7, PayloadIs
<1>9. o + 3 + n <= f.size /\ o + FrameSize(<<>>) <= f.size
  BY <1>1, <1>2, Sizes DEF FrameSize
<1> QED
  BY <1>5, <1>6, <1>7, <1>8, <1>9 DEF ValidAt, FrameAt, After

-----------------------------------------------------------------------------
(* Sizes of files *)

\* ftruncate keeps what lies before the new end and fills up with zeros.
LEMMA TruncateIs ==
  ASSUME NEW f, NEW size
  PROVE  /\ Truncate(f, size).size = size
         /\ \A c \in Cells : Truncate(f, size).cells[c] =
                               IF c < size THEN f.cells[c] ELSE Zero
         /\ \A p \in Nat : size \in Nat /\ p <= size => Agree(f, Truncate(f, size), p)
<1>1. /\ Truncate(f, size).size = size
      /\ \A c \in Cells : Truncate(f, size).cells[c] =
                            IF c < size THEN f.cells[c] ELSE Zero
  BY DEF Truncate
<1> QED
  BY <1>1, Sizes DEF Agree, Cells

\* Nothing is stored past the end of a file.
FileTypeOK(f) == f \in File /\ \A c \in Cells : c >= f.size => f.cells[c] = Zero

\* A truncated file is a file.
LEMMA TruncateType ==
  ASSUME NEW f, FileTypeOK(f), NEW size \in 0 .. FileBound
  PROVE  FileTypeOK(Truncate(f, size))
<1>1. /\ f.cells \in [Cells -> Cell] /\ f.size \in 0 .. FileBound
  BY DEF FileTypeOK, File
<1>2. [c \in Cells |-> IF c < size THEN f.cells[c] ELSE Zero] \in [Cells -> Cell]
  BY <1>1, CellsAre
<1>3. Truncate(f, size) \in File
  BY <1>2 DEF Truncate, File
<1>4. \A c \in Cells : c >= size => ~(c < size)
  BY Sizes DEF Cells
<1> QED
  BY <1>3, <1>4, TruncateIs DEF FileTypeOK

\* Aligning down does not go up, aligning up does not go down.
LEMMA AlignIs ==
  ASSUME NEW c \in Nat
  PROVE  /\ align_down(c) \in Nat /\ align_down(c) <= c
         /\ align_to_page(c) \in Nat /\ align_to_page(c) >= c
<1>1. ASSUME NEW x \in Nat
      PROVE  align_down(x) \in Nat /\ align_down(x) <= x /\ align_down(x) > x - PageSize
  <2>1. x \div PageSize \in Nat /\ PageSize \in Nat
    BY Sizes
  <2>2. PageSize * (x \div PageSize) <= x /\ PageSize * (x \div PageSize) > x - PageSize
    BY Sizes
  <2> QED
    BY <2>1, <2>2 DEF align_down
<1>2. c + PageSize - 1 \in Nat
  BY Sizes
<1>3. align_to_page(c) = align_down(c + PageSize - 1)
  BY DEF align_to_page
<1>4. align_down(c + PageSize - 1) \in Nat
      /\ align_down(c + PageSize - 1) > (c + PageSize - 1) - PageSize
  BY <1>1, <1>2
<1> QED
  BY <1>1, <1>3, <1>4, Sizes

-----------------------------------------------------------------------------
(* The inductive invariant *)

\* The log is open and replayed.
Using == pc \in {"ready", "grow", "write", "sync"}

\* The process knows where the log ends, how many frames it has, and what it has
\* written of the frame it is appending.
ProcessInv ==
  /\ pc = "opened" => file.size = InitialSize
  /\ Using => /\ Reached(file, write_offset)
              /\ sequence = Cardinality(Below(file, write_offset))
  /\ pc \in {"grow", "write", "sync"} =>
       payload \in Payloads /\ [offset |-> write_offset, data |-> payload] \in begun
  /\ pc \in {"write", "sync"} =>
       /\ write_offset + FrameSize(payload) <= file.size
       /\ \A i \in 1 .. written : file.cells[write_offset + i - 1] = Frame(payload)[i]
  /\ pc = "grow" => written = 0
  /\ pc = "write" => written < FrameSize(payload)
  /\ pc = "sync" => written = FrameSize(payload)

\* A magic or a checksum was written by an append, and stands where it put it.
WrittenBy(f, frames) ==
  \A c \in Cells :
    /\ f.cells[c] = Magic => \E b \in frames : b.offset = c
    /\ \A data \in Payloads : f.cells[c] = Crc(data) =>
         [offset |-> c - 2 - Len(data), data |-> data] \in frames

\* Until power is lost over a frame that was not durable: a replay of the file finds
\* what was acknowledged, gets to every magic, and appends go on after all of them.
KillInv ==
  unsynced # "lost" =>
    /\ \A fr \in acked \ cut : fr \in Frames(file) /\ (Using => EndOf(fr) <= write_offset)
    /\ \A c \in Cells : file.cells[c] = Magic /\ (pc # "down" \/ c < InitialSize) =>
         Reached(file, c) /\ (Using => c <= write_offset)
    /\ pc = "ready" => ~ValidAt(file, write_offset)

\* A replay of the file f gets as far as p, and so does one of the disk d.
Durable(f, d, p) == Reached(f, p) /\ Agree(f, d, p) /\ p <= d.size

\* Until a replay accepts a frame that is not durable: what was acknowledged or
\* recovered is durable, and so is all that lies before the log's end and before
\* any magic, in the file or on the disk, that the next start leaves standing.
PowerInv ==
  unsynced = "no" =>
    /\ \A fr \in (acked \ cut) \cup recovered :
         /\ fr \in Frames(file) /\ Durable(file, disk, EndOf(fr))
         /\ Using => EndOf(fr) <= write_offset
    /\ \A fr \in recovered : EndOf(fr) <= InitialSize
    /\ Using => Durable(file, disk, write_offset)
    /\ \A c \in Cells : c < InitialSize /\ Magic \in {file.cells[c], disk.cells[c]} =>
         Durable(file, disk, c) /\ (Using => c <= write_offset)

LogInv == TypeOK /\ ProcessInv /\ WrittenBy(file, begun)
          /\ WrittenBy(disk, begun) /\ KillInv /\ PowerInv

-----------------------------------------------------------------------------
(* Types *)

\* What TypeOK says of the two files.
LEMMA Files ==
  ASSUME TypeOK
  PROVE  /\ FileTypeOK(file) /\ FileTypeOK(disk)
         /\ file.size \in 0 .. FileBound /\ disk.size \in 0 .. FileBound
         /\ file.size \in Nat /\ disk.size \in Nat /\ write_offset \in Nat
         /\ written \in Nat
<1>1. FileTypeOK(file) /\ FileTypeOK(disk)
  BY DEF TypeOK, FileTypeOK
<1>2. file.size \in 0 .. FileBound /\ disk.size \in 0 .. FileBound
  BY <1>1 DEF FileTypeOK, File
<1> QED
  BY <1>1, <1>2, Sizes DEF TypeOK

\* What a replay reports has the type of what was logged.
LEMMA FramesLogged ==
  ASSUME NEW f, FileTypeOK(f), NEW fr \in Frames(f)
  PROVE  /\ fr \in Logged
         /\ fr.data # <<>> => /\ fr.data \in Payloads
                              /\ fr.offset + 2 + Len(fr.data) \in Cells
                              /\ f.cells[fr.offset + 2 + Len(fr.data)] = Crc(fr.data)
<1> DEFINE o == fr.offset
           n == DataSize(f.cells[o + 1])
<1>1. f.size \in 0 .. FileBound /\ f.cells \in [Cells -> Cell]
  BY DEF FileTypeOK, File
<1>2. /\ o \in Cells /\ o \in Nat /\ ValidAt(f, o) /\ fr = FrameAt(f, o)
  BY <1>1, FramesAre, Sizes DEF Cells
<1>3. n \in 0 .. MaxPayload /\ After(f, o) \in 0 .. f.size
  BY <1>1, <1>2, ValidFits
<1>4. fr.data = DataAt(f, o) /\ Len(fr.data) = n /\ After(f, o) = o + 3 + n
  BY <1>2, DataAtIs, FrameAtIs
<1>5. DataAt(f, o) = [i \in 1 .. n |-> f.cells[o + 1 + i]]
  BY DEF DataAt
<1>6. f.cells[o + 2 + n] = Crc(DataAt(f, o))
  BY <1>2 DEF ValidAt
<1>7. fr = [offset |-> o, data |-> fr.data] /\ o \in 0 .. FileBound
  BY <1>2, <1>4, Sizes DEF FrameAt, Cells
<1> HIDE DEF o, n
<1>8. \A i \in 1 .. n + 2 : o + i \in Cells
  BY <1>1, <1>2, <1>3, <1>4, Sizes DEF Cells
<1>9. CASE n = 0
  <2>1. fr.data = <<>>
    BY <1>4, <1>5, <1>9
  <2> QED
    BY <1>7, <2>1 DEF Logged
<1>10. CASE n # 0
  <2>1. n \in 1 .. MaxPayload
    BY <1>3, <1>10, Sizes
  <2>2. DataAt(f, o) \in [1 .. n -> Cell]
    <3>1. ASSUME NEW i \in 1 .. n PROVE f.cells[o + 1 + i] \in Cell
      <4>1. o + (1 + i) \in Cells /\ o + (1 + i) = o + 1 + i
        BY <1>2, <1>8, <2>1, Sizes
      <4> QED
        BY <1>1, <4>1
    <3> QED
      BY <1>5, <3>1
  <2>3. DataAt(f, o) \in DataRead
    BY <2>1, <2>2 DEF DataRead
  <2>4. o + 2 + n \in Cells
    <3>1. o + (n + 2) \in Cells /\ o + (n + 2) = o + 2 + n
      BY <1>2, <1>8, <2>1, Sizes
    <3> QED
      BY <3>1
  <2>5. Crc(DataAt(f, o)) \in Cell
    BY <1>1, <1>6, <2>4
  <2>6. DataAt(f, o) \in Payloads
    BY <2>3, <2>5, CrcIs
  <2> QED
    BY <1>4, <1>6, <1>7, <2>4, <2>6 DEF Logged, o
<1> QED
  BY <1>9, <1>10

\* grow makes the file long enough, if it can.
LEMMA GrownSize ==
  ASSUME TypeOK, payload \in Payloads
  PROVE  LET new_size == align_to_page(Max({2 * file.size,
                                            write_offset + FrameSize(payload) + PageSize}))
         IN  /\ new_size \in Nat /\ new_size >= file.size
             /\ new_size >= write_offset + FrameSize(payload)
<1> DEFINE a == 2 * file.size
           b == write_offset + FrameSize(payload) + PageSize
<1>1. FrameSize(payload) \in Nat
  BY FrameIs, PayloadIs
<1>2. a \in Nat /\ a >= file.size /\ b \in Nat /\ b >= write_offset + FrameSize(payload)
  BY <1>1, Files, Sizes
<1> HIDE DEF a, b
<1>3. {a, b} \subseteq Nat /\ {a, b} # {}
  BY <1>2
<1>4. a + b \in Nat /\ \A y \in {a, b} : y <= a + b
  BY <1>2
<1>5. Max({a, b}) \in {a, b} /\ \A y \in {a, b} : y <= Max({a, b})
  BY <1>3, <1>4, MaxIs
<1>6. Max({a, b}) \in Nat /\ Max({a, b}) >= a /\ Max({a, b}) >= b
  BY <1>2, <1>5
<1>7. align_to_page(Max({a, b})) \in Nat /\ align_to_page(Max({a, b})) >= Max({a, b})
  BY <1>6, AlignIs
<1>8. align_to_page(Max({a, b})) >= a /\ align_to_page(Max({a, b})) >= b
  BY <1>2, <1>6, <1>7
<1> QED
  BY <1>1, <1>2, <1>7, <1>8, Files DEF a, b

\* One cell of the frame is written, above all that was there.
LEMMA CellWritten ==
  ASSUME TypeOK, ProcessInv, WriteCell
  PROVE  /\ FileTypeOK(file') /\ file'.size = file.size
         /\ payload \in Payloads /\ written + 1 \in 1 .. FrameSize(payload)
         /\ write_offset + written \in Cells
         /\ \A c \in Cells : file'.cells[c] = IF c = write_offset + written
                                                THEN Frame(payload)[written + 1]
                                                ELSE file.cells[c]
         /\ Agree(file, file', write_offset)
<1>1. /\ payload \in Payloads /\ written < FrameSize(payload) /\ FrameSize(payload) \in Nat
      /\ write_offset + FrameSize(payload) <= file.size
  BY FrameIs, PayloadIs DEF ProcessInv, WriteCell
<1>2. /\ written \in Nat /\ write_offset \in Nat /\ file.size \in 0 .. FileBound
      /\ file \in File /\ \A c \in Cells : c >= file.size => file.cells[c] = Zero
  BY Files DEF FileTypeOK
<1>3. /\ written + 1 \in 1 .. FrameSize(payload) /\ write_offset + written \in Cells
      /\ write_offset + written < file.size
  BY <1>1, <1>2, Sizes DEF Cells
<1>4. Frame(payload)[written + 1] \in Cell
  BY <1>1, <1>3, FrameCells
<1> DEFINE k == write_offset + written
           v == Frame(payload)[written + 1]
<1>5. file' = [file EXCEPT !.cells[k] = v]
  BY DEF WriteCell
<1>6. file = [size |-> file.size, cells |-> file.cells] /\ file.cells \in [Cells -> Cell]
  BY <1>2 DEF File
<1> HIDE DEF k, v
<1>7. file'.size = file.size /\ file'.cells = [file.cells EXCEPT ![k] = v]
  BY <1>5, <1>6
<1>8. \A c \in Cells : file'.cells[c] = IF c = k THEN v ELSE file.cells[c]
  BY <1>6, <1>7
<1>9. file' \in File
  <2>1. file'.cells \in [Cells -> Cell]
    BY <1>4, <1>6, <1>7 DEF v
  <2>2. file' = [size |-> file'.size, cells |-> file'.cells]
    BY <1>5, <1>6
  <2> QED
    BY <1>2, <1>7, <2>1, <2>2 DEF File
<1>10. \A c \in Cells : c >= file'.size => file'.cells[c] = Zero
  <2>1. k < file.size /\ k \in Nat
    BY <1>2, <1>3 DEF k
  <2> QED
    BY <1>2, <1>7, <1>8, <2>1, Sizes DEF Cells
<1>11. Agree(file, file', write_offset)
  <2>1. \A c \in Cells : c < write_offset => c # k
    BY <1>2, Sizes DEF k, Cells
  <2> QED
    BY <1>8, <2>1 DEF Agree
<1> QED
  BY <1>1, <1>3, <1>7, <1>8, <1>9, <1>10, <1>11 DEF FileTypeOK, k, v

-----------------------------------------------------------------------------
(* Flushes *)

\* The disk d becomes e: cell by cell it stays or becomes the file f.
Flushed(d, f, e) ==
  /\ FileTypeOK(e) /\ e.size \in {d.size, f.size}
  /\ \A c \in Cells : /\ e.cells[c] \in {d.cells[c], f.cells[c], Zero}
                      /\ c < f.size => e.cells[c] \in {d.cells[c], f.cells[c]}

\* msync brings the disk closer to the page cache, and all of its range onto it.
LEMMA SyncedIs ==
  ASSUME TypeOK, NEW from \in Nat, NEW to \in Nat
  PROVE  /\ Flushed(disk, file, Synced(from, to))
         /\ Synced(from, to).size = file.size
         /\ \A c \in Cells : from <= c /\ c < to => Synced(from, to).cells[c] = file.cells[c]
<1> DEFINE sized == Truncate(disk, file.size)
           In(c) == align_down(from) <= c /\ c < align_to_page(to)
           e == Synced(from, to)
<1>1. /\ FileTypeOK(file) /\ FileTypeOK(disk) /\ FileTypeOK(sized)
      /\ sized.size = file.size /\ file.size \in 0 .. FileBound
      /\ \A c \in Cells : sized.cells[c] = IF c < file.size THEN disk.cells[c] ELSE Zero
  BY Files, TruncateType, TruncateIs
<1>2. sized = [size |-> sized.size, cells |-> sized.cells]
  BY <1>1 DEF FileTypeOK, File
<1>3. e = [sized EXCEPT !.cells = [c \in Cells |-> IF In(c) THEN file.cells[c]
                                                   ELSE sized.cells[c]]]
  BY DEF Synced
<1> HIDE DEF sized, In, e
<1>4. /\ e.size = file.size /\ e = [size |-> e.size, cells |-> e.cells]
      /\ e.cells = [c \in Cells |-> IF In(c) THEN file.cells[c] ELSE sized.cells[c]]
  BY <1>1, <1>2, <1>3
<1>5. \A c \in Cells : e.cells[c] = IF In(c) THEN file.cells[c] ELSE sized.cells[c]
  BY <1>4
<1>6. FileTypeOK(e)
  <2>1. file.cells \in [Cells -> Cell] /\ sized.cells \in [Cells -> Cell]
    BY <1>1 DEF FileTypeOK, File
  <2>2. e.cells \in [Cells -> Cell]
    BY <1>4, <2>1
  <2>3. e \in File
    BY <1>1, <1>4, <2>2 DEF File
  <2>4. \A c \in Cells : c >= e.size => file.cells[c] = Zero /\ sized.cells[c] = Zero
    BY <1>1, <1>4 DEF FileTypeOK
  <2> QED
    BY <1>5, <2>3, <2>4 DEF FileTypeOK
<1>7. \A c \in Cells : from <= c /\ c < to => In(c)
  <2>1. /\ align_down(from) \in Nat /\ align_down(from) <= from
        /\ align_to_page(to) \in Nat /\ align_to_page(to) >= to
    BY AlignIs
  <2> QED
    BY <2>1, Sizes DEF In, Cells
<1>8. \A c \in Cells : /\ e.cells[c] \in {disk.cells[c], file.cells[c], Zero}
                       /\ c < file.size => e.cells[c] \in {disk.cells[c], file.cells[c]}
  BY <1>1, <1>5
<1> QED
  BY <1>4, <1>5, <1>6, <1>7, <1>8 DEF Flushed, e

\* So does the kernel, one cell at a time.
LEMMA WritebackIs ==
  ASSUME TypeOK, Writeback
  PROVE  Flushed(disk, file, disk')
<1>1. CASE disk' = Truncate(disk, file.size)
  BY <1>1, Files, TruncateType, TruncateIs DEF Flushed
<1>2. ASSUME NEW k \in Cells, k < disk.size, k < file.size,
             disk' = [disk EXCEPT !.cells[k] = file.cells[k]]
      PROVE  Flushed(disk, file, disk')
  <2>1. /\ disk \in File /\ file \in File
        /\ \A c \in Cells : c >= disk.size => disk.cells[c] = Zero
    BY Files DEF FileTypeOK
  <2>2. /\ disk = [size |-> disk.size, cells |-> disk.cells] /\ disk.size \in 0 .. FileBound
        /\ disk.cells \in [Cells -> Cell] /\ file.cells \in [Cells -> Cell]
    BY <2>1 DEF File
  <2>3. disk'.size = disk.size /\ disk'.cells = [disk.cells EXCEPT ![k] = file.cells[k]]
        /\ disk' = [size |-> disk'.size, cells |-> disk'.cells]
    BY <1>2, <2>2
  <2>4. disk'.cells \in [Cells -> Cell]
    BY <2>2, <2>3
  <2>5. disk' \in File
    BY <2>2, <2>3, <2>4 DEF File
  <2>6. \A c \in Cells : disk'.cells[c] = IF c = k THEN file.cells[c] ELSE disk.cells[c]
    BY <2>2, <2>3
  <2>7. \A c \in Cells : c >= disk.size => c # k
    BY <1>2, <2>2, Sizes DEF Cells
  <2> QED
    BY <2>1, <2>3, <2>5, <2>6, <2>7 DEF Flushed, FileTypeOK
<1> QED
  BY <1>1, <1>2 DEF Writeback

\* What agrees with the file stays so.
LEMMA FlushAgree ==
  ASSUME NEW d, NEW f, NEW e, Flushed(d, f, e), NEW p \in Nat, p <= f.size,
         f.size \in Nat, Agree(f, d, p), p <= d.size
  PROVE  Agree(f, e, p) /\ p <= e.size
<1>1. \A c \in Cells : c < p => c < f.size
  BY Sizes DEF Cells
<1> QED
  BY <1>1 DEF Agree, Flushed

\* What each step does to the disk.
LEMMA FlushStep ==
  ASSUME TypeOK, ProcessInv, SyncAndReturn \/ Close \/ Writeback \/ disk' = disk
  PROVE  Flushed(disk, file, disk')
<1>1. CASE SyncAndReturn
  <2>1. /\ disk' = Synced(write_offset, write_offset + FrameSize(payload))
        /\ payload \in Payloads
    BY <1>1 DEF SyncAndReturn, ProcessInv
  <2>2. write_offset \in Nat /\ write_offset + FrameSize(payload) \in Nat
    BY <2>1, Files, FrameIs, PayloadIs
  <2> QED
    BY <2>1, <2>2, SyncedIs
<1>2. CASE Close
  <2>1. disk' = Synced(0, file.size) /\ file.size \in Nat /\ 0 \in Nat
    BY <1>2, Files DEF Close
  <2> QED
    BY <2>1, SyncedIs
<1>3. CASE disk' = disk
  BY <1>3, Files DEF Flushed
<1> QED
  BY <1>1, <1>2, <1>3, WritebackIs

-----------------------------------------------------------------------------
(* Each step keeps the types *)

\* The disk stays a file ...
LEMMA DiskStep ==
  ASSUME TypeOK, ProcessInv, Next
  PROVE  FileTypeOK(disk')
<1>1. SyncAndReturn \/ Close \/ Writeback \/ disk' = disk
  BY DEF Next, append, Open, Replay, BeginAppend, Grow, WriteCell, Kill, PowerLoss
<1> QED
  BY <1>1, FlushStep DEF Flushed

\* ... and so does the page cache: a frame that is being written fits.
LEMMA FileStep ==
  ASSUME TypeOK, ProcessInv, Next
  PROVE  FileTypeOK(file')
<1>1. FileTypeOK(file) /\ FileTypeOK(disk)
  BY Files
<1>2. CASE Open
  BY <1>1, <1>2, TruncateType, Sizes DEF Open
<1>3. CASE Grow
  <2>1. payload \in Payloads
    BY <1>3 DEF Grow, ProcessInv
  <2> DEFINE new_size == align_to_page(Max({2 * file.size,
                                            write_offset + FrameSize(payload) + PageSize}))
  <2>2. new_size \in Nat
    BY <2>1, GrownSize
  <2>3. file' = file \/ (new_size <= FileBound /\ file' = Truncate(file, new_size))
    BY <1>3 DEF Grow
  <2> HIDE DEF new_size
  <2>4. new_size <= FileBound => new_size \in 0 .. FileBound
    BY <2>2, Sizes
  <2> QED
    BY <1>1, <2>3, <2>4, TruncateType
<1>4. CASE WriteCell
  BY <1>4, CellWritten
<1>5. CASE PowerLoss
  BY <1>1, <1>5 DEF PowerLoss
<1> QED
  BY <1>1, <1>2, <1>3, <1>4, <1>5 DEF Next, append, Replay, BeginAppend, SyncAndReturn,
     Close, Writeback, Kill

\* Each step keeps the types.
LEMMA TypeStep ==
  ASSUME TypeOK, ProcessInv, [Next]_vars
  PROVE  TypeOK'
<1> DEFINE Rest == /\ pc \in {"down", "opened", "ready", "grow", "write", "sync"}
                   /\ write_offset \in 0 .. FileBound
                   /\ sequence \in Nat /\ life \in 0 .. MaxLives
                   /\ payload \in Payloads \cup {<<>>} /\ written \in 0 .. MaxPayload + 3
                   /\ begun \cup acked \cup recovered \subseteq Logged
                   /\ unsynced \in {"no", "yes", "lost"}
<1>1. TypeOK <=> FileTypeOK(file) /\ FileTypeOK(disk) /\ Rest
  BY DEF TypeOK, FileTypeOK
<1>2. FileTypeOK(file') /\ FileTypeOK(disk') /\ Rest' => TypeOK'
  BY DEF TypeOK, FileTypeOK
<1>3. Rest
  BY <1>1
<1>4. CASE UNCHANGED vars
  BY <1>4 DEF vars, TypeOK, File, Logged, Cells
<1>5. ASSUME Open PROVE Rest'
  BY <1>3, <1>5, Sizes DEF Open
<1>6. ASSUME Replay PROVE Rest'
  <2>1. End(Frames(file)) \in 0 .. FileBound
    BY Files, EndIs, ReachedIs, Sizes
  <2>2. Cardinality(Frames(file)) \in Nat
    BY Files, FramesFinite, FS_CardinalityType
  <2>3. Frames(file) \subseteq Logged
    BY Files, FramesLogged
  <2> QED
    BY <1>3, <1>6, <2>1, <2>2, <2>3 DEF Replay, NoteUnsynced
<1>7. ASSUME NEW data \in Payloads, BeginAppend(data) PROVE Rest'
  <2>1. [offset |-> write_offset, data |-> data] \in Logged
    BY <1>3 DEF Logged
  <2> QED
    BY <1>3, <1>7, <2>1, Sizes DEF BeginAppend
<1>8. ASSUME Grow PROVE Rest'
  <2>1. pc' \in {"write", "down"}
    BY <1>8 DEF Grow
  <2> QED
    BY <1>3, <1>8, <2>1 DEF Grow
<1>9. ASSUME WriteCell PROVE Rest'
  <2>1. payload \in Payloads /\ written + 1 \in 1 .. FrameSize(payload)
    BY <1>9, CellWritten
  <2>2. FrameSize(payload) = Len(payload) + 3 /\ Len(payload) \in 1 .. MaxPayload
    BY <2>1, FrameIs, PayloadIs
  <2>3. written + 1 \in 0 .. MaxPayload + 3
    BY <2>1, <2>2, Sizes
  <2> QED
    BY <1>3, <1>9, <2>3 DEF WriteCell
<1>10. ASSUME SyncAndReturn PROVE Rest'
  <2>1. /\ payload \in Payloads /\ write_offset + FrameSize(payload) <= file.size
        /\ write_offset' = write_offset + FrameSize(payload) /\ FrameSize(payload) \in Nat
    BY <1>10, FrameIs, PayloadIs DEF SyncAndReturn, ProcessInv
  <2>2. write_offset' \in 0 .. FileBound
    BY <2>1, Files, Sizes
  <2>3. [offset |-> write_offset, data |-> payload] \in Logged
    BY <1>3, <2>1 DEF Logged
  <2> QED
    BY <1>3, <1>10, <2>2, <2>3, Sizes DEF SyncAndReturn
<1>11. ASSUME Close PROVE Rest'
  BY <1>3, <1>11 DEF Close
<1>12. ASSUME Writeback PROVE Rest'
  BY <1>3, <1>12 DEF Writeback
<1>13. ASSUME Kill PROVE Rest'
  BY <1>3, <1>13 DEF Kill
<1>14. ASSUME PowerLoss PROVE Rest'
  BY <1>3, <1>14 DEF PowerLoss
<1> HIDE DEF Rest
<1> QED
  BY <1>2, <1>4, <1>5, <1>6, <1>7, <1>8, <1>9, <1>10, <1>11, <1>12, <1>13, <1>14,
     FileStep, DiskStep DEF Next, append

-----------------------------------------------------------------------------
(* What the process knows *)

\* The file below p counts as before when no cell below p changes.
LEMMA KeepsPlace ==
  ASSUME NEW f, f.size \in 0 .. FileBound, NEW g, g.size \in 0 .. FileBound,
         NEW p, Reached(f, p), Agree(f, g, p), p <= g.size
  PROVE  Reached(g, p) /\ Below(g, p) = Below(f, p)
BY ReachedLocal, BelowLocal

\* A file that grows keeps its cells.
LEMMA GrownFile ==
  ASSUME TypeOK, payload \in Payloads, Grow, pc' # "down"
  PROVE  /\ file'.size \in 0 .. FileBound /\ file'.size >= file.size
         /\ file'.size >= write_offset + FrameSize(payload) /\ pc' = "write"
         /\ \A c \in Cells : file'.cells[c] = file.cells[c]
         /\ \A p : Agree(file, file', p)
<1> DEFINE new_size == align_to_page(Max({2 * file.size,
                                          write_offset + FrameSize(payload) + PageSize}))
<1>1. /\ new_size \in Nat /\ new_size >= file.size
      /\ new_size >= write_offset + FrameSize(payload)
  BY GrownSize
<1>2. new_size <= FileBound /\ file' = Truncate(file, new_size) /\ pc' = "write"
  BY DEF Grow
<1> HIDE DEF new_size
<1>3. \A c \in Cells : file'.cells[c] = file.cells[c]
  <2>1. \A c \in Cells : c >= file.size => file.cells[c] = Zero
    BY Files DEF FileTypeOK
  <2>2. \A c \in Cells : ~(c < new_size) => c >= file.size
    BY <1>1, Files, Sizes DEF Cells
  <2> QED
    BY <1>2, <2>1, <2>2, TruncateIs
<1>4. file'.size = new_size
  BY <1>2, TruncateIs
<1>5. new_size \in 0 .. FileBound
  BY <1>1, <1>2, Sizes
<1> QED
  BY <1>1, <1>2, <1>3, <1>4, <1>5 DEF Agree

\* The frame that is about to be synced is whole.
LEMMA FrameWhole ==
  ASSUME TypeOK, ProcessInv, pc = "sync"
  PROVE  /\ ValidAt(file, write_offset)
         /\ FrameAt(file, write_offset) = [offset |-> write_offset, data |-> payload]
         /\ After(file, write_offset) = write_offset + FrameSize(payload)
         /\ FrameAt(file, write_offset) \in Frames(file)
         /\ Reached(file, write_offset + FrameSize(payload))
<1>1. /\ payload \in Payloads /\ write_offset + FrameSize(payload) <= file.size
      /\ \A i \in 1 .. FrameSize(payload) :
           file.cells[write_offset + i - 1] = Frame(payload)[i]
      /\ Reached(file, write_offset)
  BY DEF ProcessInv, Using
<1>2. /\ ValidAt(file, write_offset)
      /\ FrameAt(file, write_offset) = [offset |-> write_offset, data |-> payload]
      /\ After(file, write_offset) = write_offset + FrameSize(payload)
  BY <1>1, Files, WrittenFrame
<1> QED
  BY <1>1, <1>2, Files, ReachedFrame

\* Each step keeps what the process knows.
LEMMA ProcessStep ==
  ASSUME TypeOK, ProcessInv, [Next]_vars
  PROVE  ProcessInv'
<1>1. CASE UNCHANGED vars
  BY <1>1 DEF vars, ProcessInv, Using
<1>2. CASE Open
  BY <1>2, TruncateIs DEF Open, ProcessInv, Using
<1>3. CASE Replay
  <2>1. Reached(file, End(Frames(file))) /\ Below(file, End(Frames(file))) = Frames(file)
    BY Files, EndIs, BelowEnd
  <2> QED
    BY <1>3, <2>1 DEF Replay, ProcessInv, Using
<1>4. ASSUME NEW data \in Payloads, BeginAppend(data) PROVE ProcessInv'
  <2>1. FrameSize(data) \in Nat /\ FrameSize(data) > 0
    BY FrameIs, PayloadIs
  <2>2. /\ pc = "ready" /\ pc' \in {"grow", "write"} /\ payload' = data /\ written' = 0
        /\ pc' = "write" => ~(write_offset + FrameSize(data) > file.size)
        /\ UNCHANGED <<file, write_offset, sequence>>
        /\ [offset |-> write_offset, data |-> data] \in begun'
    BY <1>4 DEF BeginAppend
  <2>3. Using' /\ Reached(file, write_offset) /\ sequence = Cardinality(Below(file, write_offset))
    BY <2>2 DEF ProcessInv, Using
  <2>4. pc' = "write" => write_offset + FrameSize(data) <= file.size
    BY <2>1, <2>2, Files
  <2> QED
    BY <2>1, <2>2, <2>3, <2>4 DEF ProcessInv
<1>5. CASE Grow
  <2>1. payload \in Payloads /\ written = 0 /\ Using
    BY <1>5 DEF Grow, ProcessInv, Using
  <2>2. CASE pc' = "down"
    BY <1>5, <2>2 DEF Grow, ProcessInv, Using
  <2>3. CASE pc' # "down"
    <3>1. /\ file'.size \in 0 .. FileBound /\ file'.size >= file.size
          /\ file'.size >= write_offset + FrameSize(payload) /\ pc' = "write"
          /\ Agree(file, file', write_offset)
      BY <1>5, <2>1, <2>3, GrownFile
    <3>2. Reached(file, write_offset) /\ write_offset <= file'.size
      <4>1. Reached(file, write_offset)
        BY <2>1 DEF ProcessInv
      <4> QED
        BY <3>1, <4>1, Files, ReachedIs
    <3>3. Reached(file', write_offset) /\ Below(file', write_offset) = Below(file, write_offset)
      BY <3>1, <3>2, Files, KeepsPlace
    <3>4. FrameSize(payload) \in Nat /\ FrameSize(payload) > 0
      BY <2>1, FrameIs, PayloadIs
    <3>5. UNCHANGED <<write_offset, sequence, payload, written, begun>>
      BY <1>5 DEF Grow
    <3>6. write_offset + FrameSize(payload) <= file'.size
      BY <3>1, <3>4, Files
    <3>7. /\ sequence = Cardinality(Below(file, write_offset))
          /\ [offset |-> write_offset, data |-> payload] \in begun
      BY <1>5, <2>1 DEF Grow, ProcessInv
    <3> QED
      BY <2>1, <3>1, <3>3, <3>4, <3>5, <3>6, <3>7 DEF ProcessInv, Using
  <2> QED
    BY <2>2, <2>3
<1>6. CASE WriteCell
  <2>1. /\ file'.size = file.size /\ payload \in Payloads
        /\ written + 1 \in 1 .. FrameSize(payload)
        /\ \A c \in Cells : file'.cells[c] = IF c = write_offset + written
                                               THEN Frame(payload)[written + 1]
                                               ELSE file.cells[c]
        /\ write_offset + written \in Cells
        /\ Agree(file, file', write_offset)
    BY <1>6, CellWritten
  <2>2. /\ UNCHANGED <<write_offset, sequence, payload, begun>> /\ written' = written + 1
        /\ pc = "write" /\ pc' = IF written' = FrameSize(payload) THEN "sync" ELSE "write"
    BY <1>6 DEF WriteCell
  <2>3. Using /\ Using'
    BY <2>2 DEF Using
  <2>4. /\ Reached(file, write_offset) /\ sequence = Cardinality(Below(file, write_offset))
        /\ [offset |-> write_offset, data |-> payload] \in begun
        /\ write_offset + FrameSize(payload) <= file.size
        /\ \A i \in 1 .. written : file.cells[write_offset + i - 1] = Frame(payload)[i]
    BY <2>2, <2>3 DEF ProcessInv
  <2>5. Reached(file', write_offset) /\ Below(file', write_offset) = Below(file, write_offset)
    <3>1. write_offset <= file'.size /\ file'.size \in 0 .. FileBound
      BY <2>1, <2>4, Files, ReachedIs
    <3> QED
      BY <2>1, <2>4, <3>1, Files, KeepsPlace
  <2>6. FrameSize(payload) \in Nat
    BY <2>1, FrameIs, PayloadIs
  <2>7. ASSUME NEW i \in 1 .. written + 1
        PROVE  file'.cells[write_offset + i - 1] = Frame(payload)[i]
    <3>1. CASE i = written + 1
      <4>1. write_offset + i - 1 = write_offset + written
        BY <3>1, Files
      <4> QED
        BY <2>1, <3>1, <4>1
    <3>2. CASE i # written + 1
      <4>1. /\ i \in 1 .. written /\ write_offset + i - 1 # write_offset + written
            /\ write_offset + i - 1 \in 0 .. write_offset + written
        BY <3>2, Files
      <4>2. write_offset + i - 1 \in Cells
        BY <2>1, <4>1, Files, Sizes DEF Cells
      <4> QED
        BY <2>1, <2>4, <4>1, <4>2
    <3> QED
      BY <3>1, <3>2
  <2>8. written' < FrameSize(payload) \/ written' = FrameSize(payload)
    BY <2>1, <2>2, <2>6, Files
  <2> QED
    BY <2>1, <2>2, <2>3, <2>4, <2>5, <2>7, <2>8 DEF ProcessInv
<1>7. CASE SyncAndReturn
  <2>1. /\ pc = "sync" /\ pc' = "ready" /\ Using /\ UNCHANGED file
        /\ write_offset' = write_offset + FrameSize(payload)
        /\ sequence' = sequence + 1
    BY <1>7 DEF SyncAndReturn, Using
  <2>2. /\ ValidAt(file, write_offset) /\ Reached(file, write_offset')
        /\ After(file, write_offset) = write_offset'
    BY <2>1, FrameWhole
  <2>3. Reached(file, write_offset) /\ sequence = Cardinality(Below(file, write_offset))
    BY <2>1 DEF ProcessInv
  <2>4. Cardinality(Below(file, write_offset')) = Cardinality(Below(file, write_offset)) + 1
    BY <2>2, <2>3, Files, BelowNext
  <2> QED
    BY <2>1, <2>2, <2>3, <2>4 DEF ProcessInv, Using
<1>8. CASE Close \/ Kill \/ PowerLoss
  BY <1>8 DEF Close, Kill, PowerLoss, ProcessInv, Using
<1>9. CASE Writeback
  BY <1>9 DEF Writeback, ProcessInv, Using
<1> QED
  BY <1>1, <1>2, <1>3, <1>4, <1>5, <1>6, <1>7, <1>8, <1>9 DEF Next, append

-----------------------------------------------------------------------------
(* What is in the file was written *)

\* Cells copied from one file to another, or cleared, were still written by an append.
LEMMA WrittenMix ==
  ASSUME NEW f, NEW g, NEW h, NEW B, NEW C, B \subseteq C,
         WrittenBy(f, B), WrittenBy(h, B),
         \A c \in Cells : g.cells[c] \in {f.cells[c], h.cells[c], Zero}
  PROVE  WrittenBy(g, C)
<1>1. Zero # Magic /\ \A data \in Payloads : Zero # Crc(data)
  BY CellsAre, PayloadIs
<1>2. ASSUME NEW c \in Cells, g.cells[c] = Magic PROVE \E b \in C : b.offset = c
  <2>1. f.cells[c] = Magic \/ h.cells[c] = Magic
    BY <1>1, <1>2
  <2>2. \E b \in B : b.offset = c
    BY <2>1 DEF WrittenBy
  <2> QED
    BY <2>2
<1>3. ASSUME NEW c \in Cells, NEW data \in Payloads, g.cells[c] = Crc(data)
      PROVE  [offset |-> c - 2 - Len(data), data |-> data] \in C
  <2>1. f.cells[c] = Crc(data) \/ h.cells[c] = Crc(data)
    BY <1>1, <1>3
  <2> QED
    BY <2>1 DEF WrittenBy
<1> QED
  BY <1>2, <1>3 DEF WrittenBy

\* Each step keeps magics and checksums where appends put them.
LEMMA WrittenStep ==
  ASSUME TypeOK, ProcessInv, WrittenBy(file, begun), WrittenBy(disk, begun), [Next]_vars
  PROVE  WrittenBy(file', begun') /\ WrittenBy(disk', begun')
<1>1. begun \subseteq begun'
  BY DEF vars, Next, append, Open, Replay, BeginAppend, Grow, WriteCell, SyncAndReturn,
     Close, Writeback, Kill, PowerLoss
<1>2. ASSUME \A c \in Cells : file'.cells[c] \in {file.cells[c], disk.cells[c], Zero}
      PROVE  WrittenBy(file', begun')
  BY <1>1, <1>2, WrittenMix
<1>3. ASSUME \A c \in Cells : disk'.cells[c] \in {disk.cells[c], file.cells[c], Zero}
      PROVE  WrittenBy(disk', begun')
  BY <1>1, <1>3, WrittenMix
<1>4. CASE UNCHANGED vars
  BY <1>2, <1>3, <1>4 DEF vars
<1>5. CASE Open
  <2>1. file' = Truncate(file, InitialSize) /\ disk' = disk
    BY <1>5 DEF Open
  <2> QED
    BY <1>2, <1>3, <2>1, TruncateIs
<1>6. CASE Replay \/ Kill \/ \E data \in Payloads : BeginAppend(data)
  BY <1>2, <1>3, <1>6 DEF Replay, Kill, BeginAppend
<1>7. CASE Grow
  <2>1. disk' = disk /\ payload \in Payloads
    BY <1>7 DEF Grow, ProcessInv
  <2>2. CASE pc' = "down"
    <3>1. file' = file
      BY <1>7, <2>2 DEF Grow
    <3> QED
      BY <1>2, <1>3, <2>1, <3>1
  <2>3. CASE pc' # "down"
    BY <1>2, <1>3, <1>7, <2>1, <2>3, GrownFile
  <2> QED
    BY <2>2, <2>3
<1>8. CASE WriteCell
  <2> DEFINE k == write_offset + written
  <2>1. /\ payload \in Payloads /\ written + 1 \in 1 .. FrameSize(payload) /\ k \in Cells
        /\ \A c \in Cells : file'.cells[c] = IF c = k THEN Frame(payload)[written + 1]
                                                      ELSE file.cells[c]
    BY <1>8, CellWritten
  <2>2. /\ disk' = disk /\ begun' = begun
        /\ [offset |-> write_offset, data |-> payload] \in begun
    BY <1>8 DEF WriteCell, ProcessInv
  <2>3. file'.cells[k] = Frame(payload)[written + 1]
    BY <2>1
  <2>4. ASSUME file'.cells[k] = Magic PROVE \E b \in begun : b.offset = k
    <3>1. written + 1 = 1
      BY <2>1, <2>3, <2>4, FrameCells
    <3>2. k = write_offset
      BY <3>1, Files
    <3> QED
      BY <2>2, <3>2
  <2>5. ASSUME NEW data \in Payloads, file'.cells[k] = Crc(data)
        PROVE  [offset |-> k - 2 - Len(data), data |-> data] \in begun
    <3>1. data = payload /\ written + 1 = 3 + Len(payload)
      <4>1. Frame(payload)[written + 1] = Crc(data)
        BY <2>3, <2>5
      <4>2. payload \in Payloads /\ written + 1 \in 1 .. FrameSize(payload)
        BY <2>1
      <4> QED
        BY <4>1, <4>2, FrameCells
    <3>2. k - 2 - Len(data) = write_offset
      <4>1. write_offset \in Int /\ written \in Int /\ Len(payload) \in Int
        BY Files, PayloadIs
      <4> QED
        BY <3>1, <4>1
    <3> QED
      BY <2>2, <3>1, <3>2
  <2> HIDE DEF k
  <2>6. WrittenBy(file', begun)
    <3>1. \A c \in Cells : c # k => file'.cells[c] = file.cells[c]
      BY <2>1
    <3> QED
      BY <2>4, <2>5, <3>1 DEF WrittenBy
  <2> QED
    BY <2>2, <2>6
<1>9. CASE SyncAndReturn \/ Close \/ Writeback
  <2>1. file' = file
    BY <1>9 DEF SyncAndReturn, Close, Writeback
  <2>2. Flushed(disk, file, disk')
    BY <1>9, FlushStep
  <2> QED
    BY <1>2, <1>3, <2>1, <2>2 DEF Flushed
<1>10. CASE PowerLoss
  BY <1>2, <1>3, <1>10 DEF PowerLoss
<1> QED
  BY <1>4, <1>5, <1>6, <1>7, <1>8, <1>9, <1>10 DEF Next, append

-----------------------------------------------------------------------------
(* Process death *)

\* The part of the file below the end of a frame carries it into another file.
LEMMA FrameKept ==
  ASSUME NEW f, f.size \in 0 .. FileBound, NEW g, g.size \in 0 .. FileBound,
         NEW fr \in Frames(f), Agree(f, g, EndOf(fr)), EndOf(fr) <= g.size
  PROVE  fr \in Frames(g)
<1>1. Reached(f, EndOf(fr)) /\ EndOf(fr) <= EndOf(fr)
  BY FrameReached, FramesAre, Sizes
<1> QED
  BY <1>1, ReachedLocal

\* Each step keeps what a kill must not lose.
LEMMA KillStep ==
  ASSUME LogInv, [Next]_vars
  PROVE  KillInv'
<1>1. SUFFICES ASSUME unsynced' # "lost" PROVE KillInv'
  BY DEF KillInv
<1>2. TypeOK /\ ProcessInv /\ KillInv /\ PowerInv /\ TypeOK' /\ ProcessInv'
  BY TypeStep, ProcessStep DEF LogInv
<1>3. unsynced # "lost"
  BY <1>1 DEF vars, Next, append, Open, Replay, NoteUnsynced, BeginAppend, Grow,
     WriteCell, SyncAndReturn, Close, Writeback, Kill, PowerLoss
<1>4. /\ \A fr \in acked \ cut : fr \in Frames(file) /\ (Using => EndOf(fr) <= write_offset)
      /\ \A c \in Cells : file.cells[c] = Magic /\ (pc # "down" \/ c < InitialSize) =>
           Reached(file, c) /\ (Using => c <= write_offset)
      /\ pc = "ready" => ~ValidAt(file, write_offset)
  BY <1>2, <1>3 DEF KillInv
<1>5. file.size \in 0 .. FileBound /\ file'.size \in 0 .. FileBound
  <2>1. FileTypeOK(file')
    BY <1>2 DEF TypeOK, FileTypeOK
  <2> QED
    BY <1>2, <2>1, Files DEF FileTypeOK, File
<1>6. \A fr \in Frames(file) : EndOf(fr) \in 0 .. file.size /\ Reached(file, EndOf(fr))
  BY <1>5, FramesAre, FrameReached
<1>7. ASSUME UNCHANGED <<file, write_offset, acked, cut>>, Using' => Using,
             pc' # "down" => pc # "down", pc' = "ready" => pc = "ready"
      PROVE  KillInv'
  BY <1>4, <1>7 DEF KillInv
<1>8. CASE UNCHANGED vars
  BY <1>7, <1>8 DEF vars, Using
<1>9. CASE Open
  <2>1. /\ file' = Truncate(file, InitialSize) /\ pc' = "opened" /\ acked' = acked
        /\ cut' = cut \cup {f \in acked : f.offset + FrameSize(f.data) > InitialSize}
    BY <1>9 DEF Open
  <2>2. /\ file'.size = InitialSize
        /\ \A c \in Cells : file'.cells[c] = IF c < InitialSize THEN file.cells[c] ELSE Zero
        /\ \A p \in Nat : p <= InitialSize => Agree(file, file', p)
    BY <2>1, TruncateIs, Sizes
  <2>3. ASSUME NEW fr \in acked' \ cut' PROVE fr \in Frames(file')
    <3>1. fr \in Frames(file) /\ ~(EndOf(fr) > InitialSize)
      BY <1>4, <2>1 DEF EndOf
    <3>2. EndOf(fr) \in Nat /\ EndOf(fr) <= InitialSize
      BY <1>6, <3>1, Sizes
    <3> QED
      BY <1>5, <2>2, <3>1, <3>2, FrameKept
  <2>4. ASSUME NEW c \in Cells, file'.cells[c] = Magic PROVE Reached(file', c)
    <3>1. c < InitialSize /\ file.cells[c] = Magic
      BY <2>2, <2>4, CellsAre
    <3>2. Reached(file, c) /\ c \in Nat
      BY <1>4, <3>1, Sizes DEF Cells
    <3>3. Agree(file, file', c) /\ c <= file'.size
      BY <2>2, <3>1, <3>2, Sizes
    <3> QED
      BY <1>5, <3>2, <3>3, ReachedLocal
  <2> QED
    BY <2>1, <2>3, <2>4 DEF KillInv, Using
<1>10. CASE Replay
  <2> DEFINE e == End(Frames(file))
  <2>1. /\ file' = file /\ write_offset' = e /\ pc = "opened" /\ pc' = "ready"
        /\ UNCHANGED <<acked, cut>>
    BY <1>10 DEF Replay
  <2>2. ~ValidAt(file, e) /\ \A p : Reached(file, p) => p <= e
    BY <1>5, EndIs
  <2> HIDE DEF e
  <2>3. \A c \in Cells : file.cells[c] = Magic => Reached(file, c)
    BY <1>4, <2>1
  <2> QED
    BY <1>4, <1>6, <2>1, <2>2, <2>3 DEF KillInv
<1>11. ASSUME NEW data \in Payloads, BeginAppend(data) PROVE KillInv'
  BY <1>7, <1>11 DEF BeginAppend, Using
<1>12. CASE Grow
  <2>1. /\ UNCHANGED <<write_offset, acked, cut>> /\ pc = "grow" /\ payload \in Payloads
        /\ pc' = "down" => file' = file
    BY <1>2, <1>12 DEF Grow, ProcessInv
  <2>2. CASE pc' = "down"
    BY <1>7, <2>1, <2>2 DEF Using
  <2>3. CASE pc' # "down"
    <3>1. /\ pc' = "write" /\ file'.size >= file.size
          /\ \A c \in Cells : file'.cells[c] = file.cells[c]
          /\ \A p : Agree(file, file', p)
      BY <1>2, <1>12, <2>1, <2>3, GrownFile
    <3>2. Using
      BY <2>1 DEF Using
    <3>3. ASSUME NEW fr \in acked \ cut PROVE fr \in Frames(file')
      <4>1. fr \in Frames(file) /\ EndOf(fr) <= file'.size
        BY <1>4, <1>5, <1>6, <3>1, Sizes
      <4> QED
        BY <1>5, <3>1, <4>1, FrameKept
    <3>4. ASSUME NEW c \in Cells, file'.cells[c] = Magic
          PROVE  Reached(file', c) /\ c <= write_offset
      <4>1. Reached(file, c) /\ c <= write_offset
        BY <1>4, <2>1, <3>1, <3>2, <3>4
      <4>2. c <= file'.size
        BY <1>5, <3>1, <4>1, ReachedIs, Sizes
      <4> QED
        BY <1>5, <3>1, <4>1, <4>2, ReachedLocal
    <3> QED
      BY <1>4, <2>1, <3>1, <3>2, <3>3, <3>4 DEF KillInv
  <2> QED
    BY <2>2, <2>3
<1>13. CASE WriteCell
  <2>1. /\ UNCHANGED <<write_offset, acked, cut>> /\ pc = "write"
        /\ pc' \in {"write", "sync"}
    BY <1>13 DEF WriteCell
  <2>2. /\ file'.size = file.size /\ Agree(file, file', write_offset)
        /\ payload \in Payloads /\ written + 1 \in 1 .. FrameSize(payload)
        /\ \A c \in Cells : file'.cells[c] = IF c = write_offset + written
                                               THEN Frame(payload)[written + 1]
                                               ELSE file.cells[c]
    BY <1>2, <1>13, CellWritten
  <2>3. Using /\ Using' /\ write_offset \in Nat
    BY <1>2, <2>1, Files DEF Using
  <2>4. Reached(file', write_offset)
    BY <1>2, <2>1, <2>3 DEF ProcessInv
  <2>5. ASSUME NEW fr \in acked \ cut PROVE fr \in Frames(file')
    <3>1. fr \in Frames(file) /\ EndOf(fr) <= write_offset /\ EndOf(fr) \in Nat
          /\ EndOf(fr) <= file'.size
      BY <1>4, <1>5, <1>6, <2>2, <2>3, Sizes
    <3> QED
      BY <1>5, <2>2, <2>3, <3>1, AgreeBelow, FrameKept
  <2>6. ASSUME NEW c \in Cells, file'.cells[c] = Magic
        PROVE  Reached(file', c) /\ c <= write_offset
    <3>1. CASE c = write_offset + written
      <4>1. Frame(payload)[written + 1] = Magic
        BY <2>2, <2>6, <3>1
      <4>2. written + 1 = 1
        BY <2>2, <4>1, FrameCells
      <4>3. c = write_offset
        BY <1>2, <3>1, <4>2, Files
      <4> QED
        BY <2>3, <2>4, <4>3
    <3>2. CASE c # write_offset + written
      <4>1. Reached(file, c) /\ c <= write_offset /\ c \in Nat
        BY <1>4, <2>1, <2>2, <2>3, <2>6, <3>2, Sizes DEF Cells
      <4>2. Agree(file, file', c) /\ c <= file'.size
        BY <1>5, <2>2, <2>3, <4>1, AgreeBelow, ReachedIs, Sizes
      <4> QED
        BY <1>5, <4>1, <4>2, ReachedLocal
    <3> QED
      BY <3>1, <3>2
  <2> QED
    BY <1>4, <2>1, <2>3, <2>5, <2>6 DEF KillInv
<1>14. CASE SyncAndReturn
  <2> DEFINE new == [offset |-> write_offset, data |-> payload]
  <2>1. /\ file' = file /\ pc = "sync" /\ pc' = "ready"
        /\ write_offset' = write_offset + FrameSize(payload)
        /\ acked' = acked \cup {new} /\ cut' = cut \ {new}
    BY <1>14 DEF SyncAndReturn
  <2>2. new \in Frames(file) /\ EndOf(new) = write_offset'
    BY <1>2, <2>1, FrameWhole DEF EndOf
  <2>3. Using /\ write_offset \in Nat /\ write_offset' \in Nat /\ write_offset < write_offset'
    <3>1. payload \in Payloads
      BY <1>2, <2>1 DEF ProcessInv
    <3> QED
      BY <1>2, <2>1, <3>1, Files, FrameIs, PayloadIs DEF Using
  <2> HIDE DEF new
  <2>4. ASSUME NEW fr \in acked' \ cut'
        PROVE  fr \in Frames(file) /\ EndOf(fr) <= write_offset'
    <3>1. CASE fr = new
      BY <2>2, <2>3, <3>1
    <3>2. CASE fr # new
      <4>1. fr \in Frames(file) /\ EndOf(fr) <= write_offset
        BY <1>4, <2>1, <2>3, <2>4, <3>2
      <4>2. EndOf(fr) \in Nat
        BY <1>5, <1>6, <4>1, Sizes
      <4> QED
        BY <2>3, <4>1, <4>2
    <3> QED
      BY <3>1, <3>2
  <2>5. ASSUME NEW c \in Cells, file.cells[c] = Magic
        PROVE  Reached(file, c) /\ c <= write_offset /\ c < write_offset'
    <3>1. Reached(file, c) /\ c <= write_offset
      BY <1>4, <2>1, <2>3, <2>5
    <3> QED
      BY <2>3, <3>1, Sizes DEF Cells
  <2>6. ~ValidAt(file, write_offset')
    <3>1. SUFFICES ASSUME ValidAt(file, write_offset') PROVE FALSE
      OBVIOUS
    <3>2. write_offset' \in Cells /\ file.cells[write_offset'] = Magic
      BY <1>5, <2>3, <3>1, ValidFits
    <3> QED
      BY <2>3, <2>5, <3>2
  <2>7. \A c \in Cells : file.cells[c] = Magic => c <= write_offset'
    BY <2>3, <2>5, Sizes DEF Cells
  <2> QED
    BY <2>1, <2>4, <2>5, <2>6, <2>7 DEF KillInv
<1>15. CASE Close \/ Writeback \/ Kill
  BY <1>7, <1>15 DEF Close, Writeback, Kill, Using
<1>16. CASE PowerLoss
  <2>1. /\ file' = disk /\ pc' = "down" /\ UNCHANGED <<acked, cut>> /\ unsynced = "no"
    BY <1>1, <1>2, <1>3, <1>16 DEF PowerLoss, TypeOK
  <2>2. /\ \A fr \in acked \ cut : fr \in Frames(file) /\ Durable(file, disk, EndOf(fr))
        /\ \A c \in Cells : c < InitialSize /\ disk.cells[c] = Magic => Durable(file, disk, c)
    BY <1>2, <2>1 DEF PowerInv
  <2>3. disk.size \in 0 .. FileBound
    BY <1>5, <2>1
  <2>4. \A fr \in acked \ cut : fr \in Frames(disk)
    BY <1>5, <2>2, <2>3, FrameKept DEF Durable
  <2>5. \A c \in Cells : c < InitialSize /\ disk.cells[c] = Magic => Reached(disk, c)
    BY <1>5, <2>2, <2>3, ReachedLocal DEF Durable
  <2> QED
    BY <2>1, <2>4, <2>5 DEF KillInv, Using
<1> QED
  BY <1>8, <1>9, <1>10, <1>11, <1>12, <1>13, <1>14, <1>15, <1>16 DEF Next, append

-----------------------------------------------------------------------------
(* Power loss *)

\* What is durable stays so when the file changes above it ...
LEMMA DurableFile ==
  ASSUME NEW f, f.size \in 0 .. FileBound, NEW g, g.size \in 0 .. FileBound,
         NEW d, NEW p, Durable(f, d, p), Agree(f, g, p), p <= g.size
  PROVE  Durable(g, d, p)
<1>1. Reached(g, p)
  BY ReachedLocal DEF Durable
<1>2. Agree(g, d, p)
  BY DEF Durable, Agree
<1> QED
  BY <1>1, <1>2 DEF Durable

\* ... when the disk catches up ...
LEMMA DurableFlush ==
  ASSUME NEW f, f.size \in 0 .. FileBound, NEW d, NEW e, Flushed(d, f, e),
         NEW p, Durable(f, d, p)
  PROVE  Durable(f, e, p)
<1>1. p \in Nat /\ p <= f.size /\ f.size \in Nat
  BY ReachedIs, Sizes DEF Durable
<1> QED
  BY <1>1, FlushAgree DEF Durable

\* ... and when the disk is all that is left.
LEMMA DurableDisk ==
  ASSUME NEW f, f.size \in 0 .. FileBound, NEW d, d.size \in 0 .. FileBound,
         NEW p, Durable(f, d, p)
  PROVE  Durable(d, d, p)
<1>1. Reached(d, p)
  BY ReachedLocal DEF Durable
<1> QED
  BY <1>1 DEF Durable, Agree

\* What lies before something durable is durable.
LEMMA DurableBelow ==
  ASSUME NEW f, f.size \in 0 .. FileBound, NEW d, d.size \in 0 .. FileBound,
         NEW p, Durable(f, d, p), NEW q, Reached(f, q), q <= p
  PROVE  Durable(f, d, q)
<1>1. p \in Nat /\ q \in Nat
  BY ReachedIs, Sizes DEF Durable
<1>2. Agree(f, d, q)
  BY <1>1, AgreeBelow DEF Durable
<1> QED
  BY <1>1, <1>2, Sizes DEF Durable

\* A frame that is durable is found on the disk.
LEMMA DurableFrame ==
  ASSUME NEW f, f.size \in 0 .. FileBound, NEW d, d.size \in 0 .. FileBound,
         NEW fr \in Frames(f), Durable(f, d, EndOf(fr))
  PROVE  fr \in Frames(d)
BY FrameKept DEF Durable

\* Each step keeps what a loss of power must not take.
LEMMA PowerStep ==
  ASSUME LogInv, [Next]_vars
  PROVE  PowerInv'
<1>1. SUFFICES ASSUME unsynced' = "no" PROVE PowerInv'
  BY DEF PowerInv
<1>2. TypeOK /\ ProcessInv /\ KillInv /\ PowerInv /\ TypeOK' /\ ProcessInv'
  BY TypeStep, ProcessStep DEF LogInv
<1>3. unsynced = "no"
  BY <1>1 DEF vars, Next, append, Open, Replay, NoteUnsynced, BeginAppend, Grow,
     WriteCell, SyncAndReturn, Close, Writeback, Kill, PowerLoss
<1> DEFINE Kept == (acked \ cut) \cup recovered
<1>4. /\ \A fr \in Kept : /\ fr \in Frames(file) /\ Durable(file, disk, EndOf(fr))
                          /\ Using => EndOf(fr) <= write_offset
      /\ \A fr \in recovered : EndOf(fr) <= InitialSize
      /\ Using => Durable(file, disk, write_offset)
      /\ \A c \in Cells : c < InitialSize /\ Magic \in {file.cells[c], disk.cells[c]} =>
           Durable(file, disk, c) /\ (Using => c <= write_offset)
  BY <1>2, <1>3 DEF PowerInv
<1>5. /\ file.size \in 0 .. FileBound /\ file'.size \in 0 .. FileBound
      /\ disk.size \in 0 .. FileBound /\ disk'.size \in 0 .. FileBound
  <2>1. FileTypeOK(file') /\ FileTypeOK(disk')
    BY <1>2 DEF TypeOK, FileTypeOK
  <2> QED
    BY <1>2, <2>1, Files DEF FileTypeOK, File
<1>6. \A fr \in Frames(file) : EndOf(fr) \in 0 .. file.size /\ EndOf(fr) \in Nat
                               /\ Reached(file, EndOf(fr))
  BY <1>5, FramesAre, FrameReached, Sizes
<1>7. ASSUME Flushed(disk, file, disk'), Using' => Using,
             UNCHANGED <<file, write_offset, acked, cut, recovered>>
      PROVE  PowerInv'
  <2>1. \A p : Durable(file, disk, p) => Durable(file, disk', p)
    BY <1>5, <1>7, DurableFlush
  <2>2. \A c \in Cells : Magic \in {file.cells[c], disk'.cells[c]} =>
                         Magic \in {file.cells[c], disk.cells[c]}
    BY <1>7, CellsAre DEF Flushed
  <2>3. ASSUME NEW fr \in Kept
        PROVE  /\ fr \in Frames(file') /\ Durable(file', disk', EndOf(fr))
               /\ Using' => EndOf(fr) <= write_offset'
    BY <1>4, <1>7, <2>1
  <2>4. Using' => Durable(file', disk', write_offset')
    BY <1>4, <1>7, <2>1
  <2>5. ASSUME NEW c \in Cells, c < InitialSize,
               Magic \in {file'.cells[c], disk'.cells[c]}
        PROVE  Durable(file', disk', c) /\ (Using' => c <= write_offset')
    BY <1>4, <1>7, <2>1, <2>2, <2>5
  <2> QED
    BY <1>4, <1>7, <2>3, <2>4, <2>5 DEF PowerInv
<1>8. CASE UNCHANGED vars
  BY <1>2, <1>7, <1>8, FlushStep DEF vars, Using
<1>9. CASE Open
  <2>1. /\ file' = Truncate(file, InitialSize) /\ pc' = "opened"
        /\ UNCHANGED <<disk, acked, recovered>>
        /\ cut' = cut \cup {f \in acked : f.offset + FrameSize(f.data) > InitialSize}
    BY <1>9 DEF Open
  <2>2. /\ file'.size = InitialSize
        /\ \A c \in Cells : file'.cells[c] = IF c < InitialSize THEN file.cells[c] ELSE Zero
        /\ \A p \in Nat : p <= InitialSize => Agree(file, file', p)
    BY <2>1, TruncateIs, Sizes
  <2>3. \A p \in Nat : p <= InitialSize /\ Durable(file, disk, p) => Durable(file', disk, p)
    BY <1>5, <2>2, DurableFile
  <2>4. ASSUME NEW fr \in (acked' \ cut') \cup recovered'
        PROVE  fr \in Frames(file') /\ Durable(file', disk', EndOf(fr))
    <3>1. fr \in Kept
      BY <2>1
    <3>2. fr \in Frames(file) /\ Durable(file, disk, EndOf(fr)) /\ EndOf(fr) \in Nat
      BY <1>4, <1>6, <3>1
    <3>3. EndOf(fr) <= InitialSize
      <4>1. CASE fr \in recovered
        BY <1>4, <4>1
      <4>2. CASE fr \in acked' \ cut'
        BY <2>1, <3>2, <4>2, Sizes DEF EndOf
      <4> QED
        BY <2>1, <4>1, <4>2
    <3> QED
      BY <1>5, <2>1, <2>2, <2>3, <3>2, <3>3, FrameKept
  <2>5. ASSUME NEW c \in Cells, c < InitialSize,
               Magic \in {file'.cells[c], disk'.cells[c]}
        PROVE  Durable(file', disk', c)
    <3>1. Durable(file, disk, c)
      BY <1>4, <2>1, <2>2, <2>5
    <3>2. c \in Nat /\ c <= InitialSize
      BY <2>5, Sizes DEF Cells
    <3> QED
      BY <2>1, <2>3, <3>1, <3>2
  <2> QED
    BY <1>4, <2>1, <2>4, <2>5 DEF PowerInv, Using
<1>10. CASE Replay
  <2> DEFINE e == End(Frames(file))
  <2>1. /\ UNCHANGED <<file, disk, acked, cut>> /\ write_offset' = e
        /\ recovered' = Frames(file) /\ pc = "opened" /\ pc' = "ready"
    BY <1>10 DEF Replay
  <2>2. Frames(file) \subseteq Frames(disk)
    BY <1>1, <1>10 DEF Replay, NoteUnsynced
  <2>3. Reached(file, e) /\ \A p : Reached(file, p) => p <= e
    BY <1>5, EndIs
  <2> HIDE DEF e
  <2>4. Durable(file, disk, e)
    <3>1. Agree(file, disk, e) /\ e <= disk.size
      BY <1>5, <2>2, <2>3, SharedPrefix
    <3> QED
      BY <2>3, <3>1 DEF Durable
  <2>5. ASSUME NEW fr \in (acked \ cut) \cup Frames(file)
        PROVE  fr \in Frames(file) /\ Durable(file, disk, EndOf(fr)) /\ EndOf(fr) <= e
    <3>1. fr \in Frames(file)
      BY <1>4
    <3>2. Reached(file, EndOf(fr)) /\ EndOf(fr) <= e
      BY <1>6, <2>3, <3>1
    <3> QED
      BY <1>5, <2>4, <3>1, <3>2, DurableBelow
  <2>6. \A fr \in Frames(file) : EndOf(fr) <= InitialSize
    BY <1>2, <1>6, <2>1, Sizes DEF ProcessInv
  <2>7. ASSUME NEW c \in Cells, c < InitialSize, Magic \in {file.cells[c], disk.cells[c]}
        PROVE  Durable(file, disk, c) /\ c <= e
    BY <1>4, <2>3, <2>7 DEF Durable
  <2> QED
    BY <2>1, <2>4, <2>5, <2>6, <2>7 DEF PowerInv
<1>11. ASSUME NEW data \in Payloads, BeginAppend(data) PROVE PowerInv'
  BY <1>2, <1>7, <1>11, FlushStep DEF BeginAppend, Using
<1>12. CASE Grow
  <2>1. /\ UNCHANGED <<disk, write_offset, acked, cut, recovered>> /\ pc = "grow"
        /\ payload \in Payloads
        /\ pc' = "down" => file' = file
    BY <1>2, <1>12 DEF Grow, ProcessInv
  <2>2. Using
    BY <2>1 DEF Using
  <2>3. CASE pc' = "down"
    BY <1>2, <1>7, <2>1, <2>2, <2>3, FlushStep
  <2>4. CASE pc' # "down"
    <3>1. /\ file'.size >= file.size
          /\ \A c \in Cells : file'.cells[c] = file.cells[c]
          /\ \A p : Agree(file, file', p)
      BY <1>2, <1>12, <2>1, <2>4, GrownFile
    <3>2. ASSUME NEW p, Durable(file, disk, p) PROVE Durable(file', disk', p)
      <4>1. p \in 0 .. file.size
        BY <1>5, <3>2, ReachedIs DEF Durable
      <4>2. p <= file'.size
        BY <1>5, <3>1, <4>1, Sizes
      <4> QED
        BY <1>5, <2>1, <3>1, <3>2, <4>2, DurableFile
    <3>3. ASSUME NEW fr \in Kept
          PROVE  /\ fr \in Frames(file') /\ Durable(file', disk', EndOf(fr))
                 /\ EndOf(fr) <= write_offset'
      <4>1. fr \in Frames(file) /\ EndOf(fr) <= write_offset /\ Durable(file, disk, EndOf(fr))
        BY <1>4, <2>2
      <4>2. EndOf(fr) <= file'.size
        BY <1>5, <1>6, <3>1, <4>1, Sizes
      <4> QED
        BY <1>5, <2>1, <3>1, <3>2, <4>1, <4>2, FrameKept
    <3>4. ASSUME NEW c \in Cells, c < InitialSize,
                 Magic \in {file'.cells[c], disk'.cells[c]}
          PROVE  Durable(file', disk', c) /\ c <= write_offset'
      BY <1>4, <2>1, <2>2, <3>1, <3>2, <3>4
    <3> HIDE DEF Kept
    <3>5. (acked' \ cut') \cup recovered' = Kept
      BY <2>1 DEF Kept
    <3> QED
      BY <1>4, <2>1, <2>2, <3>2, <3>3, <3>4, <3>5 DEF PowerInv
  <2> QED
    BY <2>3, <2>4
<1>13. CASE WriteCell
  <2>1. /\ UNCHANGED <<disk, write_offset, acked, cut, recovered>> /\ pc = "write"
    BY <1>13 DEF WriteCell
  <2>2. /\ file'.size = file.size /\ Agree(file, file', write_offset)
        /\ payload \in Payloads /\ written + 1 \in 1 .. FrameSize(payload)
        /\ \A c \in Cells : file'.cells[c] = IF c = write_offset + written
                                               THEN Frame(payload)[written + 1]
                                               ELSE file.cells[c]
    BY <1>2, <1>13, CellWritten
  <2>3. Using /\ write_offset \in Nat
    BY <1>2, <2>1, Files DEF Using
  <2>4. ASSUME NEW p, Durable(file, disk, p), p <= write_offset
        PROVE  Durable(file', disk', p) /\ Agree(file, file', p) /\ p <= file'.size
    <3>1. p \in Nat /\ p <= file'.size
      BY <1>5, <2>2, <2>4, ReachedIs, Sizes DEF Durable
    <3>2. Agree(file, file', p)
      BY <2>2, <2>3, <2>4, <3>1, AgreeBelow
    <3> QED
      BY <1>5, <2>1, <2>4, <3>1, <3>2, DurableFile
  <2>5. Durable(file', disk', write_offset')
    BY <1>4, <2>1, <2>3, <2>4
  <2>6. ASSUME NEW fr \in Kept
        PROVE  /\ fr \in Frames(file') /\ Durable(file', disk', EndOf(fr))
               /\ EndOf(fr) <= write_offset'
    <3>1. fr \in Frames(file) /\ EndOf(fr) <= write_offset /\ Durable(file, disk, EndOf(fr))
      BY <1>4, <2>3
    <3> QED
      BY <1>5, <2>1, <2>4, <3>1, FrameKept
  <2>7. ASSUME NEW c \in Cells, c < InitialSize,
               Magic \in {file'.cells[c], disk'.cells[c]}
        PROVE  Durable(file', disk', c) /\ c <= write_offset'
    <3>1. CASE Magic \in {file.cells[c], disk.cells[c]}
      BY <1>4, <2>1, <2>3, <2>4, <2>7, <3>1
    <3>2. CASE Magic \notin {file.cells[c], disk.cells[c]}
      <4>1. c = write_offset + written /\ Frame(payload)[written + 1] = Magic
        BY <2>1, <2>2, <2>7, <3>2
      <4>2. written + 1 = 1
        BY <2>2, <4>1, FrameCells
      <4>3. c = write_offset
        BY <1>2, <4>1, <4>2, Files
      <4> QED
        BY <2>1, <2>3, <2>5, <4>3
    <3> QED
      BY <3>1, <3>2
  <2> HIDE DEF Kept
  <2>8. (acked' \ cut') \cup recovered' = Kept
    BY <2>1 DEF Kept
  <2> QED
    BY <1>4, <2>1, <2>5, <2>6, <2>7, <2>8 DEF PowerInv
<1>14. CASE SyncAndReturn
  <2> DEFINE new == [offset |-> write_offset, data |-> payload]
  <2>1. /\ file' = file /\ recovered' = recovered /\ pc = "sync" /\ pc' = "ready"
        /\ write_offset' = write_offset + FrameSize(payload)
        /\ acked' = acked \cup {new} /\ cut' = cut \ {new}
        /\ disk' = Synced(write_offset, write_offset')
    BY <1>14 DEF SyncAndReturn
  <2>2. new \in Frames(file) /\ EndOf(new) = write_offset' /\ Reached(file, write_offset')
    BY <1>2, <2>1, FrameWhole DEF EndOf
  <2>3. Using /\ write_offset \in Nat /\ write_offset' \in Nat /\ write_offset < write_offset'
    <3>1. payload \in Payloads
      BY <1>2, <2>1 DEF ProcessInv
    <3> QED
      BY <1>2, <2>1, <3>1, Files, FrameIs, PayloadIs DEF Using
  <2>4. /\ Flushed(disk, file, disk') /\ disk'.size = file.size
        /\ \A c \in Cells : write_offset <= c /\ c < write_offset' =>
             disk'.cells[c] = file.cells[c]
    BY <1>2, <2>1, <2>3, SyncedIs
  <2>5. \A p : Durable(file, disk, p) => Durable(file, disk', p)
    BY <1>5, <2>4, DurableFlush
  <2>6. Durable(file, disk', write_offset')
    <3>1. Agree(file, disk', write_offset)
      BY <1>4, <2>3, <2>5 DEF Durable
    <3>2. \A c \in Cells : c < write_offset' => c < write_offset \/ write_offset <= c
      BY <2>3, Sizes DEF Cells
    <3>3. Agree(file, disk', write_offset')
      BY <2>4, <3>1, <3>2 DEF Agree
    <3>4. write_offset' <= disk'.size
      BY <1>5, <2>2, <2>4, ReachedIs, Sizes
    <3> QED
      BY <2>2, <3>3, <3>4 DEF Durable
  <2> HIDE DEF new
  <2>7. ASSUME NEW fr \in (acked' \ cut') \cup recovered'
        PROVE  /\ fr \in Frames(file') /\ Durable(file', disk', EndOf(fr))
               /\ EndOf(fr) <= write_offset'
    <3>1. CASE fr = new
      BY <2>1, <2>2, <2>3, <2>6, <3>1
    <3>2. CASE fr # new
      <4>1. fr \in Kept
        BY <2>1, <2>7, <3>2
      <4>2. /\ fr \in Frames(file) /\ EndOf(fr) <= write_offset
            /\ Durable(file, disk, EndOf(fr)) /\ EndOf(fr) \in Nat
        BY <1>4, <1>6, <2>3, <4>1
      <4> QED
        BY <2>1, <2>3, <2>5, <4>2
    <3> QED
      BY <3>1, <3>2
  <2>8. ASSUME NEW c \in Cells, c < InitialSize,
               Magic \in {file'.cells[c], disk'.cells[c]}
        PROVE  Durable(file', disk', c) /\ c <= write_offset'
    <3>1. Magic \in {file.cells[c], disk.cells[c]}
      BY <2>1, <2>4, <2>8, CellsAre DEF Flushed
    <3>2. Durable(file, disk, c) /\ c <= write_offset
      BY <1>4, <2>3, <2>8, <3>1
    <3> QED
      BY <2>1, <2>3, <2>5, <3>2, Sizes DEF Cells
  <2> QED
    BY <1>4, <2>1, <2>6, <2>7, <2>8 DEF PowerInv
<1>15. CASE Close \/ Writeback
  BY <1>2, <1>7, <1>15, FlushStep DEF Close, Writeback, Using
<1>16. CASE Kill
  BY <1>2, <1>7, <1>16, FlushStep DEF Kill, Using
<1>17. CASE PowerLoss
  <2>1. /\ file' = disk /\ disk' = disk /\ pc' = "down" /\ UNCHANGED <<acked, cut, recovered>>
    BY <1>17 DEF PowerLoss
  <2>2. \A p : Durable(file, disk, p) => Durable(disk, disk, p)
    BY <1>5, DurableDisk
  <2>3. \A fr \in Kept : fr \in Frames(disk) /\ Durable(disk, disk, EndOf(fr))
    BY <1>4, <1>5, <2>2, DurableFrame
  <2>4. \A c \in Cells : c < InitialSize /\ disk.cells[c] = Magic => Durable(disk, disk, c)
    BY <1>4, <2>2
  <2> QED
    BY <1>4, <2>1, <2>3, <2>4 DEF PowerInv, Using
<1> QED
  BY <1>8, <1>9, <1>10, <1>11, <1>12, <1>13, <1>14, <1>15, <1>16, <1>17 DEF Next, append

-----------------------------------------------------------------------------
(* Theorems *)

\* The empty file satisfies the invariant ...
LEMMA LogInit ==
  ASSUME Init
  PROVE  LogInv
<1>1. FileTypeOK(EmptyFile)
  <2>1. EmptyFile \in File
    BY CellsAre, Sizes DEF EmptyFile, File
  <2> QED
    BY <2>1 DEF EmptyFile, FileTypeOK
<1>2. TypeOK
  BY <1>1, Sizes DEF Init, TypeOK, FileTypeOK
<1>3. \A c \in Cells : EmptyFile.cells[c] = Zero
  BY DEF EmptyFile
<1>4. WrittenBy(file, begun) /\ WrittenBy(disk, begun)
  BY <1>3, CellsAre, PayloadIs DEF Init, WrittenBy
<1>5. ProcessInv /\ KillInv /\ PowerInv
  BY <1>3, CellsAre DEF Init, ProcessInv, KillInv, PowerInv, Using
<1> QED
  BY <1>2, <1>4, <1>5 DEF LogInv

\* ... and every step keeps it.
LEMMA LogStep ==
  ASSUME LogInv, [Next]_vars
  PROVE  LogInv'
<1>1. TypeOK' /\ ProcessInv'
  BY TypeStep, ProcessStep DEF LogInv
<1>2. WrittenBy(file', begun') /\ WrittenBy(disk', begun')
  BY WrittenStep DEF LogInv
<1>3. KillInv' /\ PowerInv'
  BY KillStep, PowerStep
<1> QED
  BY <1>1, <1>2, <1>3 DEF LogInv

\* The inductive invariant of the log.
LEMMA LogInvHolds == Spec => []LogInv
<1>1. Init => LogInv
  BY LogInit
<1>2. LogInv /\ [Next]_vars => LogInv'
  BY LogStep
<1> QED
  BY <1>1, <1>2, PTL DEF Spec

\* Every variable of the log keeps its type, and nothing is stored past the end of
\* a file (wal.cpp:198, 253-355).
THEOREM TypeCorrect == Spec => []TypeOK
<1>1. LogInv => TypeOK
  BY DEF LogInv
<1> QED
  BY <1>1, LogInvHolds, PTL

\* wal.cpp:291-294: a frame whose append has returned is found on the disk, until a
\* replay accepts a frame that was not there, or a start cuts it off.
THEOREM AckedSurvivePowerLossHolds == Spec => []AckedSurvivePowerLoss
<1>1. LogInv => AckedSurvivePowerLoss
  BY Files, DurableFrame DEF LogInv, PowerInv, AckedSurvivePowerLoss
<1> QED
  BY <1>1, LogInvHolds, PTL

\* The death of the process loses no frame whose append has returned: it is found in
\* the page cache, accepted ones included (wal.cpp:291-294).
THEOREM AckedSurviveKillHolds == Spec => []AckedSurviveKill
<1>1. LogInv => AckedSurviveKill
  BY DEF LogInv, KillInv, AckedSurviveKill
<1> QED
  BY <1>1, LogInvHolds, PTL

\* What a replay finds, whatever was lost before, was appended at that offset; only
\* an empty frame may stand for the torn beginning of one (wal.cpp:318-349).
THEOREM NoForgedFramesHolds == Spec => []NoForgedFrames
<1>1. ASSUME LogInv, NEW f \in {file, disk}, NEW fr \in Frames(f)
      PROVE  fr \in begun \/ (fr.data = <<>> /\ \E g \in begun : g.offset = fr.offset)
  <2>1. FileTypeOK(f) /\ f.size \in 0 .. FileBound /\ WrittenBy(f, begun)
    BY <1>1, Files DEF LogInv
  <2>2. /\ fr.offset \in Cells /\ f.cells[fr.offset] = Magic
        /\ fr = FrameAt(f, fr.offset)
    BY <2>1, FramesAre
  <2>3. CASE fr.data = <<>>
    BY <2>1, <2>2, <2>3 DEF WrittenBy
  <2>4. CASE fr.data # <<>>
    <3>1. /\ fr.data \in Payloads /\ fr.offset + 2 + Len(fr.data) \in Cells
          /\ f.cells[fr.offset + 2 + Len(fr.data)] = Crc(fr.data)
      BY <2>1, <2>4, FramesLogged
    <3>2. (fr.offset + 2 + Len(fr.data)) - 2 - Len(fr.data) = fr.offset
      BY <2>2, <3>1, PayloadIs, Sizes DEF Cells
    <3>3. [offset |-> fr.offset, data |-> fr.data] \in begun
      BY <2>1, <3>1, <3>2 DEF WrittenBy
    <3>4. fr = [offset |-> fr.offset, data |-> fr.data]
      BY <2>2 DEF FrameAt
    <3> QED
      BY <3>3, <3>4
  <2> QED
    BY <2>3, <2>4
<1>2. LogInv => NoForgedFrames
  BY <1>1 DEF NoForgedFrames
<1> QED
  BY <1>2, LogInvHolds, PTL

\* Between appends write_offset_ is where a replay of the file would stop, and
\* sequence_ the number of frames it would find (wal.cpp:351-355).
THEOREM ResumesAfterLastFrameHolds == Spec => []ResumesAfterLastFrame
<1>1. ASSUME LogInv, pc = "ready", unsynced # "lost"
      PROVE  /\ write_offset = End(Frames(file))
             /\ sequence = Cardinality(Frames(file))
  <2>1. /\ Reached(file, write_offset) /\ ~ValidAt(file, write_offset)
        /\ sequence = Cardinality(Below(file, write_offset))
    BY <1>1 DEF LogInv, ProcessInv, KillInv, Using
  <2>2. file.size \in 0 .. FileBound
    BY <1>1, Files DEF LogInv
  <2> QED
    BY <2>1, <2>2, EndUnique, BelowEnd
<1>2. LogInv => ResumesAfterLastFrame
  BY <1>1 DEF ResumesAfterLastFrame
<1> QED
  BY <1>2, LogInvHolds, PTL

\* What a replay reported stays durable, if it was when it was reported
\* (wal.cpp:291-355).
THEOREM RecoveredSurvivePowerLossHolds == Spec => []RecoveredSurvivePowerLoss
<1>1. LogInv => RecoveredSurvivePowerLoss
  BY Files, DurableFrame DEF LogInv, PowerInv, RecoveredSurvivePowerLoss
<1> QED
  BY <1>1, LogInvHolds, PTL
=============================================================================
