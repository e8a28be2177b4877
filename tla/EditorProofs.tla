---------------------------- MODULE EditorProofs ----------------------------
(***************************************************************************)
(* For every set of canvases, nodes, edges and folders and every bound:    *)
(* the two stacks of records implement a line of canvases, a save that is  *)
(* answered has been stored, the panel of a bucket shows its folder, and   *)
(* what the agent is told of a catalog leaves nothing out that fits.       *)
(***************************************************************************)
EXTENDS Editor, Integers, SequenceTheorems, FiniteSets, FiniteSetTheorems,
        WellFoundedInduction, TLAPS

-----------------------------------------------------------------------------
(* Lemmas about the stacks.                                                 *)

\* What Pushed returns: one canvas more on top, and the oldest given up if need be.
LEMMA PushedSequence ==
    ASSUME past \in Seq(Canvas), NEW c \in Canvas
    PROVE  /\ Len(past) < Limit => Pushed(c) = Append(past, c)
           /\ Len(past) >= Limit => Pushed(c) = Tail(Append(past, c))
           /\ Pushed(c) \in Seq(Canvas)
           /\ Len(past) < Limit => Len(Pushed(c)) = Len(past) + 1
           /\ Len(past) >= Limit => Len(Pushed(c)) = Len(past)
<1>1. /\ Append(past, c) \in Seq(Canvas) /\ Append(past, c) # <<>>
      /\ Len(Append(past, c)) = Len(past) + 1 /\ Len(past) \in Nat
    BY AppendProperties, LenProperties
<1>2. /\ Tail(Append(past, c)) \in Seq(Canvas)
      /\ Len(Tail(Append(past, c))) = Len(past)
    BY <1>1, HeadTailProperties
<1> QED
    BY <1>1, <1>2, HistoryAssumption DEF Pushed

\* What Pop and Top return.
LEMMA PoppedSequence ==
    ASSUME NEW s \in Seq(Canvas), s # <<>>
    PROVE  /\ Len(s) \in Nat \ {0} /\ Top(s) \in Canvas
           /\ Pop(s) \in Seq(Canvas) /\ Len(Pop(s)) = Len(s) - 1
           /\ \A i \in 1..(Len(s) - 1) : Pop(s)[i] = s[i]
<1>1. Len(s) \in Nat \ {0}
    BY EmptySeq
<1>2. \A i \in 1..Len(s) : s[i] \in Canvas
    BY ElementOfSeq
<1>3. /\ SubSeq(s, 1, Len(s) - 1) \in Seq(Canvas)
      /\ Len(SubSeq(s, 1, Len(s) - 1)) = Len(s) - 1
      /\ \A i \in 1..(Len(s) - 1) : SubSeq(s, 1, Len(s) - 1)[i] = s[i]
    <2> DEFINE n == Len(s) - 1
    <2>1. n \in Nat /\ \A i \in 1..n : s[i] \in Canvas
        BY <1>1, <1>2
    <2> HIDE DEF n
    <2>2. /\ SubSeq(s, 1, n) \in Seq(Canvas)
          /\ Len(SubSeq(s, 1, n)) = IF 1 <= n THEN n - 1 + 1 ELSE 0
          /\ \A i \in 1..(n - 1 + 1) : SubSeq(s, 1, n)[i] = s[1 + i - 1]
        BY <2>1, SubSeqProperties
    <2>3. /\ Len(SubSeq(s, 1, n)) = n
          /\ \A i \in 1..n : SubSeq(s, 1, n)[i] = s[i]
        BY <2>1, <2>2
    <2> QED
        BY <2>2, <2>3 DEF n
<1> QED
    BY <1>1, <1>2, <1>3 DEF Pop, Top

\* A line of two stacks and a canvas: what stands where.
IsLine(l, p, c, f) ==
    /\ l \in Seq(Canvas) /\ Len(l) = Len(p) + 1 + Len(f)
    /\ \A i \in 1..Len(p) : l[i] = p[i]
    /\ l[Len(p) + 1] = c
    /\ \A j \in 1..Len(f) : l[Len(p) + 1 + j] = f[Len(f) + 1 - j]

\* LineOf is such a line.
LEMMA LineSequence ==
    ASSUME NEW p \in Seq(Canvas), NEW c \in Canvas, NEW f \in Seq(Canvas)
    PROVE  IsLine(LineOf(p, c, f), p, c, f)
<1>1. Len(p) \in Nat /\ Len(f) \in Nat
    BY LenProperties
<1> DEFINE n == Len(p) + 1 + Len(f)
           At(i) == IF i <= Len(p) THEN p[i]
                    ELSE IF i = Len(p) + 1 THEN c ELSE f[Len(p) + Len(f) + 2 - i]
<1>2. ASSUME NEW i \in 1..n PROVE At(i) \in Canvas
    <2>1. CASE i <= Len(p)
        BY <1>1, <2>1, ElementOfSeq
    <2>2. CASE i = Len(p) + 1
        BY <1>1, <2>2
    <2>3. CASE i > Len(p) + 1
        <3>1. Len(p) + Len(f) + 2 - i \in 1..Len(f)
            BY <1>1, <2>3
        <3> QED
            BY <1>1, <2>3, <3>1, ElementOfSeq
    <2> QED
        BY <1>1, <2>1, <2>2, <2>3
<1>3. LineOf(p, c, f) = [i \in 1..n |-> At(i)]
    BY DEF LineOf
<1>4. n \in Nat
    BY <1>1
<1>5. LineOf(p, c, f) \in Seq(Canvas) /\ Len(LineOf(p, c, f)) = n
    <2> HIDE DEF n, At
    <2> QED
        BY <1>2, <1>3, <1>4
<1>6. \A i \in 1..n : LineOf(p, c, f)[i] = At(i)
    BY <1>3
<1>7. /\ \A i \in 1..Len(p) : i \in 1..n /\ At(i) = p[i]
      /\ Len(p) + 1 \in 1..n /\ At(Len(p) + 1) = c
      /\ \A j \in 1..Len(f) : Len(p) + 1 + j \in 1..n /\ At(Len(p) + 1 + j) = f[Len(f) + 1 - j]
    BY <1>1
<1> QED
    BY <1>5, <1>6, <1>7 DEF IsLine

-----------------------------------------------------------------------------
(* Types.                                                                   *)

\* Every step preserves the types and the bound on the records.
LEMMA TypeStep == TypeOK /\ [Next]_vars => TypeOK'
<1> SUFFICES ASSUME TypeOK, [Next]_vars PROVE TypeOK'
    OBVIOUS
<1>0. /\ shown \in Canvas /\ past \in Seq(Canvas) /\ future \in Seq(Canvas)
      /\ Len(past) \in Nat /\ Len(future) \in Nat /\ Len(past) + Len(future) <= Limit
      /\ <<>> \in Seq(Canvas) /\ Len(<<>>) = 0
    BY LenProperties, EmptySeq DEF TypeOK
<1>1. ASSUME NEW c \in Canvas, Record(c) PROVE TypeOK'
    <2>1. /\ past' \in Seq(Canvas)
          /\ Len(past) < Limit => Len(past') = Len(past) + 1
          /\ Len(past) >= Limit => Len(past') = Len(past)
        BY <1>0, <1>1, PushedSequence DEF Record
    <2>2. Len(past') <= Limit /\ Len(past') \in Nat
        BY <1>0, <2>1, HistoryAssumption
    <2> QED
        BY <1>0, <1>1, <2>1, <2>2 DEF Record, NoFuture, TypeOK
<1>2. ASSUME NEW c \in Canvas, Edit(c) PROVE TypeOK'
    BY <1>0, <1>2 DEF Edit, TypeOK
<1>3. ASSUME NEW c \in Canvas, loadSketch(c) PROVE TypeOK'
    BY <1>0, <1>3, HistoryAssumption DEF loadSketch, TypeOK
<1>4. CASE Undo
    <2>1. past' \in Seq(Canvas) /\ Len(past') = Len(past) - 1 /\ shown' \in Canvas
        BY <1>0, <1>4, PoppedSequence DEF Undo
    <2>2. future' \in Seq(Canvas) /\ Len(future') = Len(future) + 1
        BY <1>0, <1>4, AppendProperties DEF Undo, Current
    <2> QED
        BY <1>0, <2>1, <2>2 DEF TypeOK
<1>5. CASE Redo
    <2>1. future' \in Seq(Canvas) /\ Len(future') = Len(future) - 1 /\ shown' \in Canvas
        BY <1>0, <1>5, PoppedSequence DEF Redo
    <2>2. past' \in Seq(Canvas) /\ Len(past') = Len(past) + 1
        BY <1>0, <1>5, AppendProperties DEF Redo
    <2> QED
        BY <1>0, <2>1, <2>2 DEF TypeOK
<1>6. CASE UNCHANGED vars
    BY <1>6 DEF vars, TypeOK
<1> QED
    BY <1>1, <1>2, <1>3, <1>4, <1>5, <1>6 DEF Next

\* The stacks hold canvases, and together never more of them than the limit.
THEOREM HistoryTypeCorrect == Spec => []TypeOK
<1>1. Init => TypeOK
    BY EmptySeq, HistoryAssumption DEF Init, TypeOK
<1> QED
    BY <1>1, TypeStep, PTL DEF Spec

-----------------------------------------------------------------------------
(* Refinement: what each action does to the line.                           *)

\* Undo leaves the line as it is: one record less, one canvas more to redo.
LEMMA UndoLine ==
    ASSUME NEW p \in Seq(Canvas), p # <<>>, NEW c \in Canvas, NEW f \in Seq(Canvas)
    PROVE  LineOf(Pop(p), Top(p), Append(f, c)) = LineOf(p, c, f)
<1> DEFINE old == LineOf(p, c, f)
           new == LineOf(Pop(p), Top(p), Append(f, c))
<1>1. /\ Len(p) \in Nat \ {0} /\ Top(p) \in Canvas /\ Top(p) = p[Len(p)]
      /\ Pop(p) \in Seq(Canvas) /\ Len(Pop(p)) = Len(p) - 1
      /\ \A i \in 1..(Len(p) - 1) : Pop(p)[i] = p[i]
    BY PoppedSequence DEF Top
<1>2. /\ Append(f, c) \in Seq(Canvas) /\ Len(Append(f, c)) = Len(f) + 1
      /\ \A i \in 1..Len(f) : Append(f, c)[i] = f[i]
      /\ Append(f, c)[Len(f) + 1] = c /\ Len(f) \in Nat
    BY AppendProperties, LenProperties
<1>3. IsLine(old, p, c, f)
    BY LineSequence
<1>4. IsLine(new, Pop(p), Top(p), Append(f, c))
    BY <1>1, <1>2, LineSequence
<1> HIDE DEF old, new
<1>o. /\ old \in Seq(Canvas) /\ Len(old) = Len(p) + 1 + Len(f)
      /\ \A i \in 1..Len(p) : old[i] = p[i]
      /\ old[Len(p) + 1] = c
      /\ \A j \in 1..Len(f) : old[Len(p) + 1 + j] = f[Len(f) + 1 - j]
    BY <1>3 DEF IsLine
<1>n. /\ new \in Seq(Canvas) /\ Len(new) = Len(p) + 1 + Len(f)
      /\ \A i \in 1..(Len(p) - 1) : new[i] = p[i]
      /\ new[Len(p)] = p[Len(p)]
      /\ \A j \in 1..(Len(f) + 1) : new[Len(p) + j] = Append(f, c)[Len(f) + 2 - j]
    BY <1>1, <1>2, <1>4 DEF IsLine
<1>5. ASSUME NEW i \in 1..Len(old) PROVE new[i] = old[i]
    <2>0. i \in 1..(Len(p) + 1 + Len(f))
        BY <1>o
    <2>1. CASE i <= Len(p) - 1
        <3>1. i \in 1..(Len(p) - 1) /\ i \in 1..Len(p)
            BY <1>1, <2>0, <2>1
        <3> QED
            BY <1>o, <1>n, <3>1
    <2>2. CASE i = Len(p)
        <3>1. i \in 1..Len(p)
            BY <1>1, <2>2
        <3> QED
            BY <1>o, <1>n, <2>2, <3>1
    <2>3. CASE i = Len(p) + 1
        <3>1. 1 \in 1..(Len(f) + 1) /\ Len(f) + 2 - 1 = Len(f) + 1
            BY <1>2
        <3>2. new[Len(p) + 1] = Append(f, c)[Len(f) + 2 - 1]
            BY <1>n, <3>1
        <3> QED
            BY <1>2, <1>o, <2>3, <3>1, <3>2
    <2>4. CASE i > Len(p) + 1
        <3> DEFINE j == i - (Len(p) + 1)
        <3>1. /\ j \in 1..Len(f) /\ j + 1 \in 1..(Len(f) + 1)
              /\ Len(f) + 1 - j \in 1..Len(f)
              /\ i = Len(p) + 1 + j /\ i = Len(p) + (j + 1)
              /\ Len(f) + 2 - (j + 1) = Len(f) + 1 - j
            BY <1>1, <1>2, <2>0, <2>4
        <3> HIDE DEF j
        <3>2. new[Len(p) + (j + 1)] = Append(f, c)[Len(f) + 2 - (j + 1)]
            BY <1>n, <3>1
        <3>3. old[Len(p) + 1 + j] = f[Len(f) + 1 - j]
            BY <1>o, <3>1
        <3>4. Append(f, c)[Len(f) + 1 - j] = f[Len(f) + 1 - j]
            BY <1>2, <3>1
        <3> QED
            BY <3>1, <3>2, <3>3, <3>4
    <2> QED
        BY <1>1, <1>2, <2>0, <2>1, <2>2, <2>3, <2>4
<1>6. Len(new) = Len(old)
    BY <1>o, <1>n
<1>7. new = old
    BY <1>o, <1>n, <1>5, <1>6, SeqEqual
<1> QED
    BY <1>7 DEF old, new

\* Redo leaves the line as it is: it is an undo read backwards.
LEMMA RedoLine ==
    ASSUME NEW p \in Seq(Canvas), NEW c \in Canvas, NEW f \in Seq(Canvas), f # <<>>
    PROVE  LineOf(Append(p, c), Top(f), Pop(f)) = LineOf(p, c, f)
<1>1. /\ Append(p, c) \in Seq(Canvas) /\ Append(p, c) # <<>>
      /\ Len(Append(p, c)) = Len(p) + 1 /\ Len(p) \in Nat
      /\ \A i \in 1..Len(p) : Append(p, c)[i] = p[i]
      /\ Append(p, c)[Len(p) + 1] = c
    BY AppendProperties, LenProperties
<1>2. /\ Top(f) \in Canvas /\ Pop(f) \in Seq(Canvas) /\ Len(Pop(f)) = Len(f) - 1
      /\ \A i \in 1..(Len(f) - 1) : Pop(f)[i] = f[i]
      /\ Len(f) \in Nat \ {0}
    BY PoppedSequence
<1>3. Top(Append(p, c)) = c
    BY <1>1 DEF Top
<1>4. Pop(Append(p, c)) = p
    <2>1. /\ Pop(Append(p, c)) \in Seq(Canvas) /\ Len(Pop(Append(p, c))) = Len(p)
          /\ \A i \in 1..Len(p) : Pop(Append(p, c))[i] = Append(p, c)[i]
        <3>1. /\ Pop(Append(p, c)) \in Seq(Canvas)
              /\ Len(Pop(Append(p, c))) = Len(Append(p, c)) - 1
              /\ \A i \in 1..(Len(Append(p, c)) - 1) : Pop(Append(p, c))[i] = Append(p, c)[i]
            BY <1>1, PoppedSequence
        <3> QED
            BY <1>1, <3>1
    <2> QED
        BY <1>1, <2>1, SeqEqual
<1>5. Append(Pop(f), Top(f)) = f
    <2>1. /\ Append(Pop(f), Top(f)) \in Seq(Canvas)
          /\ Len(Append(Pop(f), Top(f))) = Len(f)
          /\ \A i \in 1..(Len(f) - 1) : Append(Pop(f), Top(f))[i] = Pop(f)[i]
          /\ Append(Pop(f), Top(f))[Len(f)] = f[Len(f)]
        <3>1. /\ Append(Pop(f), Top(f)) \in Seq(Canvas)
              /\ Len(Append(Pop(f), Top(f))) = Len(Pop(f)) + 1
              /\ \A i \in 1..Len(Pop(f)) : Append(Pop(f), Top(f))[i] = Pop(f)[i]
              /\ Append(Pop(f), Top(f))[Len(Pop(f)) + 1] = Top(f)
            BY <1>2, AppendProperties
        <3> QED
            BY <1>2, <3>1 DEF Top
    <2>2. \A i \in 1..Len(f) : Append(Pop(f), Top(f))[i] = f[i]
        BY <1>2, <2>1
    <2> QED
        BY <2>1, <2>2, SeqEqual
<1>6. LineOf(Pop(Append(p, c)), Top(Append(p, c)), Append(Pop(f), Top(f)))
      = LineOf(Append(p, c), Top(f), Pop(f))
    BY <1>1, <1>2, UndoLine
<1> QED
    BY <1>3, <1>4, <1>5, <1>6

\* A change of the canvas alone changes the line in one place.
LEMMA EditLine ==
    ASSUME NEW p \in Seq(Canvas), NEW c \in Canvas, NEW f \in Seq(Canvas), NEW d \in Canvas
    PROVE  LineOf(p, d, f) = [LineOf(p, c, f) EXCEPT ![Len(p) + 1] = d]
<1>1. Len(p) \in Nat /\ Len(f) \in Nat
    BY LenProperties
<1>2. ASSUME NEW i \in 1..(Len(p) + 1 + Len(f)), i # Len(p) + 1
      PROVE  LineOf(p, d, f)[i] = LineOf(p, c, f)[i]
    BY <1>1, <1>2 DEF LineOf
<1>3. LineOf(p, d, f)[Len(p) + 1] = d
    BY <1>1 DEF LineOf
<1>4. /\ LineOf(p, d, f) = [i \in 1..(Len(p) + 1 + Len(f)) |-> LineOf(p, d, f)[i]]
      /\ LineOf(p, c, f) = [i \in 1..(Len(p) + 1 + Len(f)) |-> LineOf(p, c, f)[i]]
    BY DEF LineOf
<1> QED
    BY <1>2, <1>3, <1>4

\* A record ends the line at the canvas it keeps.
LEMMA RecordLine ==
    ASSUME NEW p \in Seq(Canvas), NEW c \in Canvas, NEW f \in Seq(Canvas), NEW d \in Canvas
    PROVE  LineOf(Append(p, c), d, <<>>)
           = Append(SubSeq(LineOf(p, c, f), 1, Len(p) + 1), d)
<1> DEFINE old == LineOf(p, c, f)
           kept == SubSeq(old, 1, Len(p) + 1)
           new == LineOf(Append(p, c), d, <<>>)
<1>1. /\ Append(p, c) \in Seq(Canvas) /\ Len(Append(p, c)) = Len(p) + 1
      /\ \A i \in 1..Len(p) : Append(p, c)[i] = p[i]
      /\ Append(p, c)[Len(p) + 1] = c
      /\ Len(p) \in Nat /\ Len(f) \in Nat /\ <<>> \in Seq(Canvas) /\ Len(<<>>) = 0
    BY AppendProperties, LenProperties, EmptySeq
<1>a. IsLine(old, p, c, f)
    BY LineSequence
<1>b. IsLine(new, Append(p, c), d, <<>>)
    BY <1>1, LineSequence
<1> HIDE DEF old, new
<1>2. /\ old \in Seq(Canvas) /\ Len(old) = Len(p) + 1 + Len(f)
      /\ \A i \in 1..Len(p) : old[i] = p[i]
      /\ old[Len(p) + 1] = c
    BY <1>a DEF IsLine
<1>3. /\ new \in Seq(Canvas) /\ Len(new) = Len(p) + 1 + 1
      /\ \A i \in 1..(Len(p) + 1) : new[i] = Append(p, c)[i]
      /\ new[Len(p) + 1 + 1] = d
    BY <1>1, <1>b DEF IsLine
<1>4. /\ kept \in Seq(Canvas) /\ Len(kept) = Len(p) + 1
      /\ \A i \in 1..(Len(p) + 1) : kept[i] = old[i]
    <2> DEFINE n == Len(p) + 1
    <2>1. n \in Nat /\ \A i \in 1..n : old[i] \in Canvas
        <3>1. \A i \in 1..Len(old) : old[i] \in Canvas
            BY <1>2, ElementOfSeq
        <3> QED
            BY <1>1, <1>2, <3>1
    <2> HIDE DEF n
    <2>2. /\ SubSeq(old, 1, n) \in Seq(Canvas)
          /\ Len(SubSeq(old, 1, n)) = IF 1 <= n THEN n - 1 + 1 ELSE 0
          /\ \A i \in 1..(n - 1 + 1) : SubSeq(old, 1, n)[i] = old[1 + i - 1]
        BY <2>1, SubSeqProperties
    <2>3. /\ Len(SubSeq(old, 1, n)) = n
          /\ \A i \in 1..n : SubSeq(old, 1, n)[i] = old[i]
        BY <2>1, <2>2
    <2> QED
        BY <2>2, <2>3 DEF n
<1> HIDE DEF kept
<1>5. /\ Append(kept, d) \in Seq(Canvas) /\ Len(Append(kept, d)) = Len(p) + 1 + 1
      /\ \A i \in 1..(Len(p) + 1) : Append(kept, d)[i] = kept[i]
      /\ Append(kept, d)[Len(p) + 1 + 1] = d
    BY <1>4, AppendProperties
<1>6. \A i \in 1..(Len(p) + 1) : old[i] = Append(p, c)[i]
    <2>1. \A i \in 1..(Len(p) + 1) : i \in 1..Len(p) \/ i = Len(p) + 1
        BY <1>1
    <2> QED
        BY <2>1, <1>1, <1>2
<1>7. Len(new) = Len(Append(kept, d)) /\ \A i \in 1..Len(new) : new[i] = Append(kept, d)[i]
    BY <1>1, <1>3, <1>4, <1>5, <1>6
<1>8. new = Append(kept, d)
    BY <1>3, <1>5, <1>7, SeqEqual
<1> QED
    BY <1>8 DEF old, kept, new

\* Giving up the oldest record gives up the first canvas of the line.
LEMMA ShortenedLine ==
    ASSUME NEW p \in Seq(Canvas), p # <<>>, NEW d \in Canvas
    PROVE  LineOf(Tail(p), d, <<>>) = Tail(LineOf(p, d, <<>>))
<1> DEFINE old == LineOf(p, d, <<>>)
           new == LineOf(Tail(p), d, <<>>)
<1>1. /\ Len(p) \in Nat \ {0} /\ Tail(p) \in Seq(Canvas) /\ Len(Tail(p)) = Len(p) - 1
      /\ \A i \in 1..Len(Tail(p)) : Tail(p)[i] = p[i + 1]
      /\ <<>> \in Seq(Canvas) /\ Len(<<>>) = 0
    BY HeadTailProperties, LenProperties, EmptySeq
<1>a. IsLine(old, p, d, <<>>)
    BY <1>1, LineSequence
<1>b. IsLine(new, Tail(p), d, <<>>)
    BY <1>1, LineSequence
<1> HIDE DEF old, new
<1>2. /\ old \in Seq(Canvas) /\ Len(old) = Len(p) + 1
      /\ \A i \in 1..Len(p) : old[i] = p[i]
      /\ old[Len(p) + 1] = d
    BY <1>1, <1>a DEF IsLine
<1>3. /\ new \in Seq(Canvas) /\ Len(new) = Len(p)
      /\ \A i \in 1..(Len(p) - 1) : new[i] = p[i + 1]
      /\ new[Len(p)] = d
    BY <1>1, <1>b DEF IsLine
<1>4. old # <<>>
    BY <1>1, <1>2
<1>5. /\ Tail(old) \in Seq(Canvas) /\ Len(Tail(old)) = Len(old) - 1
      /\ \A i \in 1..Len(Tail(old)) : Tail(old)[i] = old[i + 1]
    BY <1>2, <1>4, HeadTailProperties
<1>6. Len(new) = Len(Tail(old)) /\ \A i \in 1..Len(new) : new[i] = Tail(old)[i]
    BY <1>1, <1>2, <1>3, <1>5
<1>7. new = Tail(old)
    BY <1>3, <1>5, <1>6, SeqEqual
<1> QED
    BY <1>7 DEF old, new

\* A line without records.
LEMMA FirstLine ==
    ASSUME NEW c \in Canvas
    PROVE  LineOf(<<>>, c, <<>>) = <<c>>
<1>0. <<>> \in Seq(Canvas) /\ Len(<<>>) = 0
    BY EmptySeq
<1>a. IsLine(LineOf(<<>>, c, <<>>), <<>>, c, <<>>)
    BY <1>0, LineSequence
<1>1. /\ LineOf(<<>>, c, <<>>) \in Seq(Canvas) /\ Len(LineOf(<<>>, c, <<>>)) = 1
      /\ LineOf(<<>>, c, <<>>)[1] = c
    BY <1>0, <1>a DEF IsLine
<1>2. <<c>> \in Seq(Canvas) /\ Len(<<c>>) = 1 /\ <<c>>[1] = c
    OBVIOUS
<1> QED
    BY <1>1, <1>2, SeqEqual

\* Every step of the stacks is a step along the line, or leaves it alone.
LEMMA LineStep ==
    TypeOK /\ [Next]_vars => [Timeline!Next]_(Timeline!vars)
<1> SUFFICES ASSUME TypeOK, [Next]_vars PROVE [Timeline!Next]_(Timeline!vars)
    OBVIOUS
<1> USE DEF line
<1>0. /\ shown \in Canvas /\ past \in Seq(Canvas) /\ future \in Seq(Canvas)
      /\ Len(past) \in Nat /\ Len(future) \in Nat /\ Limit \in Nat \ {0}
    BY LenProperties, HistoryAssumption DEF TypeOK
<1>1. ASSUME NEW c \in Canvas, Record(c) PROVE Timeline!Change
    <2>1. /\ Append(past, shown) \in Seq(Canvas) /\ Append(past, shown) # <<>>
        BY <1>0, AppendProperties
    <2>2. Timeline!Extended(c) = LineOf(Append(past, shown), c, <<>>)
        BY <1>0, RecordLine DEF Timeline!Extended
    <2>3. /\ shown' = c /\ future' = <<>> /\ past' = Pushed(shown)
        BY <1>1 DEF Record, NoFuture
    <2>4. CASE Len(past) < Limit
        <3>1. past' = Append(past, shown) /\ Len(past') = Len(past) + 1
            BY <1>0, <2>3, <2>4, PushedSequence
        <3>2. line' = Timeline!Extended(c)
            BY <2>2, <2>3, <3>1
        <3> QED
            BY <1>0, <2>4, <3>1, <3>2 DEF Timeline!Change
    <2>5. CASE Len(past) >= Limit
        <3>1. past' = Tail(Append(past, shown)) /\ Len(past') = Len(past)
            BY <1>0, <2>3, <2>5, PushedSequence
        <3>2. line' = Tail(Timeline!Extended(c))
            BY <2>1, <2>2, <2>3, <3>1, ShortenedLine
        <3> QED
            BY <1>0, <2>5, <3>1, <3>2 DEF Timeline!Change
    <2> QED
        BY <1>0, <2>4, <2>5
<1>2. ASSUME NEW c \in Canvas, Edit(c) PROVE Timeline!Retouch
    <2>1. line' = [line EXCEPT ![Len(past) + 1] = c]
        BY <1>0, <1>2, EditLine DEF Edit
    <2> QED
        BY <1>2, <2>1 DEF Edit, Timeline!Retouch
<1>3. ASSUME NEW c \in Canvas, loadSketch(c) PROVE Timeline!Load
    BY <1>3, FirstLine, EmptySeq DEF loadSketch, Timeline!Load
<1>4. CASE Undo
    <2>1. Len(past) \in Nat \ {0} /\ Len(past') = Len(past) - 1
        BY <1>0, <1>4, PoppedSequence DEF Undo
    <2>2. line' = line
        BY <1>0, <1>4, UndoLine DEF Undo, Current
    <2> QED
        BY <2>1, <2>2 DEF Timeline!Undo, Timeline!Next
<1>5. CASE Redo
    <2>1. Len(past') = Len(past) + 1 /\ Len(future) \in Nat \ {0}
        BY <1>0, <1>5, AppendProperties, PoppedSequence DEF Redo
    <2>2. line' = line
        BY <1>0, <1>5, RedoLine DEF Redo
    <2>3. Len(line) = Len(past) + 1 + Len(future)
        BY <1>0, LineSequence DEF IsLine
    <2> QED
        BY <1>0, <2>1, <2>2, <2>3 DEF Timeline!Redo, Timeline!Next
<1>6. CASE UNCHANGED vars
    BY <1>6 DEF vars, Timeline!vars
<1> QED
    BY <1>1, <1>2, <1>3, <1>4, <1>5, <1>6 DEF Next, Timeline!Next

\* Undo and redo over two bounded stacks walk along one line of canvases: no
\* canvas of a visit is lost but the oldest, and a change ends what was undone.
THEOREM HistoryWalksALine == Spec => WalksALine
<1>1. Init => Timeline!Init
    BY FirstLine, EmptySeq DEF Init, Timeline!Init, line
<1> QED
    BY <1>1, LineStep, HistoryTypeCorrect, PTL DEF Spec, WalksALine, Timeline!Spec

\* The editor's history is the one of CanvasHistory.
THEOREM EditorWalksALine == EditorSpec => WalksALine
<1>1. EditorInit => Init
  BY DEF EditorInit
<1>2. [EditorNext]_editorVars => [Next]_vars
  BY DEF EditorNext, editorVars, vars
<1>3. EditorSpec => Spec
  BY <1>1, <1>2, PTL DEF EditorSpec, Spec
<1> QED BY <1>3, HistoryWalksALine

-----------------------------------------------------------------------------
(* The saves of an editor.                                                  *)

Ended(e) == {Ends[e][1], Ends[e][2]}

\* Edges join nodes that are there, no two of them the same ones.
IsGraph(c) ==
    /\ DOMAIN c = {"nodes", "edges", "place", "config"}
    /\ c.nodes \subseteq Node /\ c.edges \subseteq Edge
    /\ \A e \in c.edges : Ended(e) \subseteq c.nodes
    /\ \A e, f \in c.edges : Ends[e] = Ends[f] => e = f

\* An edge that has nothing to do with what a failed save had sent.
Apart(e, but) == but \cap {e, Ends[e][1], Ends[e][2]} = {}

\* What is left of the j-th batch of a save from b to d while w is left of the k-th.
Left(b, d, k, w, j) == IF j < k THEN {} ELSE IF j = k THEN w ELSE Autosave!diffCanvas(b, d)[j]

\* But for some nodes and edges, the stored graph is on its way from b to d: what is
\* not left has been done.
EdgesBetween(b, d, k, w, s, but) ==
    \A e \in Edge : Apart(e, but) =>
        (e \in s.edges <=> \/ /\ e \in b.edges
                              /\ e \in d.edges \/ Autosave!Request("deleteEdge", e) \in Left(b, d, k, w, 1)
                           \/ /\ e \in d.edges \ b.edges
                              /\ Autosave!Request("createEdge", e) \notin Left(b, d, k, w, 4))
NodesBetween(b, d, k, w, s, but) ==
    \A n \in Node \ but :
        (n \in s.nodes <=> \/ /\ n \in b.nodes
                              /\ n \in d.nodes \/ Autosave!Request("deleteNode", n) \in Left(b, d, k, w, 2)
                           \/ /\ n \in d.nodes \ b.nodes
                              /\ Autosave!NodeRequest("createNode", n, d) \notin Left(b, d, k, w, 3))
PlacesBetween(b, d, k, w, s, but) ==
    \A n \in Node \ but : n \in s.nodes \cap d.nodes =>
        Autosave!NodeRequest("moveNode", n, d) \in Left(b, d, k, w, 5) \/ s.place[n] = d.place[n]
ConfigsBetween(b, d, k, w, s, but) ==
    \A n \in Node \ but : n \in s.nodes \cap d.nodes =>
        \/ Autosave!NodeRequest("updateNode", n, d) \in Left(b, d, k, w, 6)
        \/ s.config[n] \in {d.config[n], Autosave!Kept(d.config[n])}
Between(b, d, k, w, s, but) ==
    /\ EdgesBetween(b, d, k, w, s, but) /\ NodesBetween(b, d, k, w, s, but)
    /\ PlacesBetween(b, d, k, w, s, but) /\ ConfigsBetween(b, d, k, w, s, but)

\* What the save of d has sent and still has to send, and what the server has made of
\* it; what has not been sent is as in the baseline.
Batch(d, j) == Autosave!diffCanvas(baseline, d)[j]
SavingAt(k) ==
    /\ DOMAIN save = {"active", "desired", "batches", "wait"} /\ save.active
    /\ IsGraph(save.desired)
    /\ save.batches \in Seq({Batch(save.desired, j) : j \in 1..6}) /\ Len(save.batches) = 6 - k
    /\ \A j \in 1..(6 - k) : save.batches[j] = Batch(save.desired, k + j)
    /\ save.wait \subseteq Batch(save.desired, k)
    /\ Between(baseline, save.desired, k, save.wait, server, stray)
    /\ Autosave!MatchesBut(baseline, stray \cup Autosave!Sent)

ServerTyped ==
    /\ DOMAIN server = {"nodes", "edges", "place", "config"}
    /\ DOMAIN server.place = Node /\ DOMAIN server.config = Node
Queued == {queue[i] : i \in DOMAIN queue}

QueueInv == queue \in Seq(Queued) /\ \A c \in Queued : IsGraph(c)
SaveInv ==
    \/ save = Autosave!NoSave /\ Autosave!MatchesBut(baseline, stray)
    \/ \E k \in 1..6 : SavingAt(k)

\* A request on its way is one that the save waits for, or names what a failed save
\* had sent.
Kinds == {"deleteEdge", "deleteNode", "createEdge", "createNode", "moveNode", "updateNode"}
FlightInv ==
    \A o \in DOMAIN flight :
        /\ o.kind \in Kinds
        /\ o.id \in stray \/ (save.active /\ o \in save.wait /\ flight[o] = 1)

\* Between saves the server holds the baseline, but for what failed saves had sent.
AutosaveInv ==
    /\ IsGraph(canvas) /\ IsGraph(baseline) /\ ServerTyped
    /\ QueueInv
    /\ loading = <<>>
    /\ FlightInv
    /\ SaveInv

\* A save that fails leaves behind what it had sent.
StrayStep == stray' = IF Autosave!SaveFails THEN stray \cup Autosave!Sent ELSE stray

\* What a request says.
LEMMA RequestFields ==
    /\ \A kd, i : Autosave!Request(kd, i).kind = kd /\ Autosave!Request(kd, i).id = i
    /\ \A kd, i, c : /\ Autosave!NodeRequest(kd, i, c).kind = kd /\ Autosave!NodeRequest(kd, i, c).id = i
                     /\ Autosave!NodeRequest(kd, i, c).place = c.place[i]
                     /\ Autosave!NodeRequest(kd, i, c).config = c.config[i]
BY DEF Autosave!Request, Autosave!NodeRequest

\* The six batches of a save from b to d.
AreBatches(b, d, diff) ==
    /\ diff[1] = {Autosave!Request("deleteEdge", e) : e \in b.edges \ d.edges}
    /\ diff[2] = {Autosave!Request("deleteNode", n) : n \in b.nodes \ d.nodes}
    /\ diff[3] = {Autosave!NodeRequest("createNode", n, d) : n \in d.nodes \ b.nodes}
    /\ diff[4] = {Autosave!Request("createEdge", e) : e \in d.edges \ b.edges}
    /\ diff[5] = {Autosave!NodeRequest("moveNode", n, d) : n \in {n \in b.nodes \cap d.nodes : b.place[n] # d.place[n]}}
    /\ diff[6] = {Autosave!NodeRequest("updateNode", n, d) : n \in {n \in b.nodes \cap d.nodes : b.config[n] # d.config[n]}}

\* What diffCanvas returns.
LEMMA Batches ==
    ASSUME NEW b, NEW d
    PROVE  LET diff == Autosave!diffCanvas(b, d) IN
           /\ AreBatches(b, d, diff)
           /\ diff \in Seq({diff[j] : j \in 1..6}) /\ Len(diff) = 6 /\ DOMAIN diff = 1..6
<1> DEFINE D1 == {Autosave!Request("deleteEdge", e) : e \in b.edges \ d.edges}
           D2 == {Autosave!Request("deleteNode", n) : n \in b.nodes \ d.nodes}
           D3 == {Autosave!NodeRequest("createNode", n, d) : n \in d.nodes \ b.nodes}
           D4 == {Autosave!Request("createEdge", e) : e \in d.edges \ b.edges}
           D5 == {Autosave!NodeRequest("moveNode", n, d) : n \in {n \in b.nodes \cap d.nodes : b.place[n] # d.place[n]}}
           D6 == {Autosave!NodeRequest("updateNode", n, d) : n \in {n \in b.nodes \cap d.nodes : b.config[n] # d.config[n]}}
<1>1. Autosave!diffCanvas(b, d) = <<D1, D2, D3, D4, D5, D6>>
  BY DEF Autosave!diffCanvas
<1> HIDE DEF D1, D2, D3, D4, D5, D6
<1> DEFINE diff == <<D1, D2, D3, D4, D5, D6>>
<1>2. diff[1] = D1 /\ diff[2] = D2 /\ diff[3] = D3 /\ diff[4] = D4 /\ diff[5] = D5 /\ diff[6] = D6
  OBVIOUS
<1>3. diff \in Seq({diff[j] : j \in 1..6}) /\ Len(diff) = 6 /\ DOMAIN diff = 1..6
  OBVIOUS
<1> HIDE DEF diff
<1>4. Autosave!diffCanvas(b, d) = diff
  BY <1>1 DEF diff
<1>5. AreBatches(b, d, diff)
  BY <1>2 DEF D1, D2, D3, D4, D5, D6, AreBatches
<1> QED BY <1>3, <1>4, <1>5

\* Every request of a batch has its kind.
LEMMA BatchKinds ==
    ASSUME NEW b, NEW d, NEW k \in 1..6, NEW o \in Autosave!diffCanvas(b, d)[k]
    PROVE  o.kind \in Kinds
<1>1. AreBatches(b, d, Autosave!diffCanvas(b, d))
  BY Batches
<1> DEFINE diff == Autosave!diffCanvas(b, d)
<1> HIDE DEF diff
<1>2. /\ \A r \in diff[1] : r.kind = "deleteEdge"
      /\ \A r \in diff[2] : r.kind = "deleteNode"
      /\ \A r \in diff[3] : r.kind = "createNode"
      /\ \A r \in diff[4] : r.kind = "createEdge"
      /\ \A r \in diff[5] : r.kind = "moveNode"
      /\ \A r \in diff[6] : r.kind = "updateNode"
  BY <1>1, RequestFields DEF AreBatches, diff
<1>3. o \in diff[k]
  BY DEF diff
<1> QED BY <1>2, <1>3 DEF Kinds

\* Before anything is sent, nothing has been done.
LEMMA BetweenStarts ==
    ASSUME NEW b, NEW d, NEW but, IsGraph(b), IsGraph(d), Autosave!MatchesBut(b, but)
    PROVE  Between(b, d, 1, Autosave!diffCanvas(b, d)[1], server, but)
<1> DEFINE diff == Autosave!diffCanvas(b, d)
           left(j) == Left(b, d, 1, diff[1], j)
<1>1. \A j \in 1..6 : left(j) = diff[j]
  BY DEF Left
<1>a. AreBatches(b, d, diff)
  BY Batches
<1> HIDE DEF diff, left
<1>2. /\ diff[1] = {Autosave!Request("deleteEdge", e) : e \in b.edges \ d.edges}
      /\ diff[2] = {Autosave!Request("deleteNode", n) : n \in b.nodes \ d.nodes}
      /\ diff[3] = {Autosave!NodeRequest("createNode", n, d) : n \in d.nodes \ b.nodes}
      /\ diff[4] = {Autosave!Request("createEdge", e) : e \in d.edges \ b.edges}
      /\ diff[5] = {Autosave!NodeRequest("moveNode", n, d) : n \in {n \in b.nodes \cap d.nodes : b.place[n] # d.place[n]}}
      /\ diff[6] = {Autosave!NodeRequest("updateNode", n, d) : n \in {n \in b.nodes \cap d.nodes : b.config[n] # d.config[n]}}
  BY <1>a DEF AreBatches
<1>3. /\ \A e \in b.edges \ d.edges : Autosave!Request("deleteEdge", e) \in left(1)
      /\ \A n \in b.nodes \ d.nodes : Autosave!Request("deleteNode", n) \in left(2)
      /\ \A n \in d.nodes \ b.nodes : Autosave!NodeRequest("createNode", n, d) \in left(3)
      /\ \A e \in d.edges \ b.edges : Autosave!Request("createEdge", e) \in left(4)
      /\ \A n \in b.nodes \cap d.nodes :
          /\ Autosave!NodeRequest("moveNode", n, d) \in left(5) \/ b.place[n] = d.place[n]
          /\ Autosave!NodeRequest("updateNode", n, d) \in left(6) \/ b.config[n] = d.config[n]
  <2>1. left(1) = diff[1] /\ left(2) = diff[2] /\ left(3) = diff[3] /\ left(4) = diff[4] /\ left(5) = diff[5] /\ left(6) = diff[6]
    BY <1>1
  <2>2. \A e \in b.edges \ d.edges : Autosave!Request("deleteEdge", e) \in left(1)
    BY <1>2, <2>1
  <2>3. \A n \in b.nodes \ d.nodes : Autosave!Request("deleteNode", n) \in left(2)
    BY <1>2, <2>1
  <2>4. \A n \in d.nodes \ b.nodes : Autosave!NodeRequest("createNode", n, d) \in left(3)
    BY <1>2, <2>1
  <2>5. \A e \in d.edges \ b.edges : Autosave!Request("createEdge", e) \in left(4)
    BY <1>2, <2>1
  <2>6. \A n \in b.nodes \cap d.nodes : Autosave!NodeRequest("moveNode", n, d) \in left(5) \/ b.place[n] = d.place[n]
    BY <1>2, <2>1
  <2>7. \A n \in b.nodes \cap d.nodes : Autosave!NodeRequest("updateNode", n, d) \in left(6) \/ b.config[n] = d.config[n]
    BY <1>2, <2>1
  <2> QED BY <2>2, <2>3, <2>4, <2>5, <2>6, <2>7
<1>4. /\ \A n \in Node \ but : n \in server.nodes <=> n \in b.nodes
      /\ \A n \in Node \ but : n \in b.nodes => /\ server.place[n] = b.place[n]
                                               /\ server.config[n] \in {b.config[n], Autosave!Kept(b.config[n])}
      /\ \A e \in Edge : Apart(e, but) => (e \in server.edges <=> e \in b.edges)
  BY DEF Autosave!MatchesBut, Apart
<1>5. EdgesBetween(b, d, 1, diff[1], server, but)
  <2>1. \A e \in Edge : Apart(e, but) =>
          (e \in server.edges <=> \/ /\ e \in b.edges
                                     /\ e \in d.edges \/ Autosave!Request("deleteEdge", e) \in left(1)
                                  \/ /\ e \in d.edges \ b.edges
                                     /\ Autosave!Request("createEdge", e) \notin left(4))
    BY <1>3, <1>4
  <2> QED BY <2>1 DEF EdgesBetween, left
<1>6. NodesBetween(b, d, 1, diff[1], server, but)
  <2>1. \A n \in Node \ but :
          (n \in server.nodes <=> \/ /\ n \in b.nodes
                                     /\ n \in d.nodes \/ Autosave!Request("deleteNode", n) \in left(2)
                                  \/ /\ n \in d.nodes \ b.nodes
                                     /\ Autosave!NodeRequest("createNode", n, d) \notin left(3))
    BY <1>3, <1>4
  <2> QED BY <2>1 DEF NodesBetween, left
<1>7. PlacesBetween(b, d, 1, diff[1], server, but)
  <2>1. \A n \in Node \ but : n \in server.nodes \cap d.nodes =>
            Autosave!NodeRequest("moveNode", n, d) \in left(5) \/ server.place[n] = d.place[n]
    BY <1>3, <1>4
  <2> QED BY <2>1 DEF PlacesBetween, left
<1>8. ConfigsBetween(b, d, 1, diff[1], server, but)
  <2>1. ASSUME NEW n \in Node \ but, n \in server.nodes \cap d.nodes
        PROVE  \/ Autosave!NodeRequest("updateNode", n, d) \in left(6)
               \/ server.config[n] \in {d.config[n], Autosave!Kept(d.config[n])}
    <3>1. n \in b.nodes \cap d.nodes
      BY <1>4, <2>1
    <3>2. CASE b.config[n] = d.config[n]
      BY <1>4, <2>1, <3>1, <3>2
    <3>3. CASE Autosave!NodeRequest("updateNode", n, d) \in left(6)
      BY <3>3
    <3> QED BY <1>3, <3>1, <3>2, <3>3
  <2> QED BY <2>1 DEF ConfigsBetween, left
<1> QED BY <1>5, <1>6, <1>7, <1>8 DEF Between, diff

\* A batch that is done and the next that is not begun leave the same to do.
LEMMA BetweenGoesOn ==
    ASSUME NEW b, NEW d, NEW k \in 1..5, NEW s, NEW but, Between(b, d, k, {}, s, but)
    PROVE  Between(b, d, k + 1, Autosave!diffCanvas(b, d)[k + 1], s, but)
<1> DEFINE L(j) == Left(b, d, k, {}, j)
           M(j) == Left(b, d, k + 1, Autosave!diffCanvas(b, d)[k + 1], j)
<1>1. \A j \in 1..6 : L(j) = M(j)
  BY DEF Left
<1> HIDE DEF L, M
<1>2. L(1) = M(1) /\ L(2) = M(2) /\ L(3) = M(3) /\ L(4) = M(4) /\ L(5) = M(5) /\ L(6) = M(6)
  BY <1>1
<1>3. EdgesBetween(b, d, k + 1, Autosave!diffCanvas(b, d)[k + 1], s, but)
  BY <1>2 DEF Between, EdgesBetween, L, M
<1>4. NodesBetween(b, d, k + 1, Autosave!diffCanvas(b, d)[k + 1], s, but)
  BY <1>2 DEF Between, NodesBetween, L, M
<1>5. PlacesBetween(b, d, k + 1, Autosave!diffCanvas(b, d)[k + 1], s, but)
  BY <1>2 DEF Between, PlacesBetween, L, M
<1>6. ConfigsBetween(b, d, k + 1, Autosave!diffCanvas(b, d)[k + 1], s, but)
  BY <1>2 DEF Between, ConfigsBetween, L, M
<1> QED BY <1>3, <1>4, <1>5, <1>6 DEF Between

\* When nothing is left the server holds d.
LEMMA BetweenEnds ==
    ASSUME NEW d, NEW but, IsGraph(d), IsGraph(baseline), Between(baseline, d, 6, {}, server, but)
    PROVE  Autosave!MatchesBut(d, but)
<1> DEFINE L(j) == Left(baseline, d, 6, {}, j)
<1>1. L(1) = {} /\ L(2) = {} /\ L(3) = {} /\ L(4) = {} /\ L(5) = {} /\ L(6) = {}
  BY DEF Left
<1> HIDE DEF L
<1>2. \A e \in Edge : Apart(e, but) => (e \in server.edges <=> e \in d.edges)
  BY <1>1 DEF Between, EdgesBetween, L
<1>3. \A n \in Node \ but : n \in server.nodes <=> n \in d.nodes
  BY <1>1 DEF Between, NodesBetween, L
<1>4. \A n \in Node \ but : n \in d.nodes => server.place[n] = d.place[n]
  BY <1>1, <1>3 DEF Between, PlacesBetween, L
<1>5. \A n \in Node \ but : n \in d.nodes => server.config[n] \in {d.config[n], Autosave!Kept(d.config[n])}
  BY <1>1, <1>3 DEF Between, ConfigsBetween, L
<1> QED BY <1>2, <1>3, <1>4, <1>5 DEF Autosave!MatchesBut, Apart

\* What an accepted update stores.
Updated(o) == IF Autosave!SameAsStored(o) THEN server.config[o.id] ELSE Autosave!Kept(o.config)

\* It is the config as it was sent or as it is kept.
LEMMA UpdatedConfig ==
    ASSUME NEW o
    PROVE  Updated(o) \in {o.config, Autosave!Kept(o.config)}
BY DEF Updated, Autosave!SameAsStored

\* What the server makes of a request, by its kind.
LEMMA AfterFields ==
    ASSUME NEW o, ServerTyped
    PROVE  LET s == Autosave!After(o) IN
           /\ o.kind = "deleteEdge" => s.nodes = server.nodes /\ s.edges = server.edges \ {o.id}
                                       /\ s.place = server.place /\ s.config = server.config
           /\ o.kind = "deleteNode" => s.nodes = server.nodes \ {o.id}
                                       /\ s.edges = {e \in server.edges : o.id \notin Ended(e)}
                                       /\ s.place = server.place /\ s.config = server.config
           /\ o.kind = "createNode" => s.nodes = server.nodes \cup {o.id} /\ s.edges = server.edges
                                       /\ s.place = [server.place EXCEPT ![o.id] = o.place]
                                       /\ s.config = [server.config EXCEPT ![o.id] = o.config]
           /\ o.kind = "createEdge" => s.nodes = server.nodes /\ s.edges = server.edges \cup {o.id}
                                       /\ s.place = server.place /\ s.config = server.config
           /\ o.kind = "moveNode" => s.nodes = server.nodes /\ s.edges = server.edges
                                     /\ s.place = [server.place EXCEPT ![o.id] = o.place] /\ s.config = server.config
           /\ o.kind = "updateNode" => s.nodes = server.nodes /\ s.edges = server.edges
                                       /\ s.place = [server.place EXCEPT ![o.id] = o.place]
                                       /\ s.config = [server.config EXCEPT ![o.id] = Updated(o)]
           /\ o.kind \in Kinds => DOMAIN s = DOMAIN server /\ DOMAIN s.place = Node /\ DOMAIN s.config = Node
<1>1. DOMAIN server = {"nodes", "edges", "place", "config"} /\ DOMAIN server.place = Node /\ DOMAIN server.config = Node
  BY DEF ServerTyped
<1> DEFINE s == Autosave!After(o)
<1>2. CASE o.kind = "deleteEdge"
  <2>1. s = [server EXCEPT !.edges = @ \ {o.id}]
    BY <1>2 DEF Autosave!After
  <2> HIDE DEF s
  <2>2. s.nodes = server.nodes /\ s.edges = server.edges \ {o.id} /\ s.place = server.place /\ s.config = server.config /\ DOMAIN s = DOMAIN server
    BY <2>1, <1>1
  <2> QED BY <2>2, <1>1, <1>2 DEF s
<1>3. CASE o.kind = "deleteNode"
  <2>1. s = [server EXCEPT !.nodes = @ \ {o.id}, !.edges = {e \in @ : o.id \notin {Ends[e][1], Ends[e][2]}}]
    BY <1>3 DEF Autosave!After
  <2> HIDE DEF s
  <2>2. s.nodes = server.nodes \ {o.id} /\ s.edges = {e \in server.edges : o.id \notin Ended(e)} /\ s.place = server.place /\ s.config = server.config /\ DOMAIN s = DOMAIN server
    BY <2>1, <1>1 DEF Ended
  <2> QED BY <2>2, <1>1, <1>3 DEF s
<1>4. CASE o.kind = "createNode"
  <2>1. s = [server EXCEPT !.nodes = @ \cup {o.id}, !.place[o.id] = o.place, !.config[o.id] = o.config]
    BY <1>4 DEF Autosave!After
  <2> HIDE DEF s
  <2>2. s.nodes = server.nodes \cup {o.id} /\ s.edges = server.edges /\ s.place = [server.place EXCEPT ![o.id] = o.place] /\ s.config = [server.config EXCEPT ![o.id] = o.config] /\ DOMAIN s = DOMAIN server
    BY <2>1, <1>1
  <2> QED BY <2>2, <1>1, <1>4 DEF s
<1>5. CASE o.kind = "createEdge"
  <2>1. s = [server EXCEPT !.edges = @ \cup {o.id}]
    BY <1>5 DEF Autosave!After
  <2> HIDE DEF s
  <2>2. s.nodes = server.nodes /\ s.edges = server.edges \cup {o.id} /\ s.place = server.place /\ s.config = server.config /\ DOMAIN s = DOMAIN server
    BY <2>1, <1>1
  <2> QED BY <2>2, <1>1, <1>5 DEF s
<1>6. CASE o.kind = "moveNode"
  <2>1. s = [server EXCEPT !.place[o.id] = o.place]
    BY <1>6 DEF Autosave!After
  <2> HIDE DEF s
  <2>2. s.nodes = server.nodes /\ s.edges = server.edges /\ s.place = [server.place EXCEPT ![o.id] = o.place] /\ s.config = server.config /\ DOMAIN s = DOMAIN server
    BY <2>1, <1>1
  <2> QED BY <2>2, <1>1, <1>6 DEF s
<1>7. CASE o.kind = "updateNode"
  <2>1. s = [server EXCEPT !.place[o.id] = o.place,
                           !.config[o.id] = IF Autosave!SameAsStored(o) THEN @ ELSE Autosave!Kept(o.config)]
    BY <1>7 DEF Autosave!After
  <2>2. s = [server EXCEPT !.place[o.id] = o.place, !.config[o.id] = Updated(o)]
    BY <2>1, <1>1 DEF Updated
  <2> HIDE DEF s
  <2>3. /\ s.nodes = server.nodes /\ s.edges = server.edges /\ s.place = [server.place EXCEPT ![o.id] = o.place]
        /\ s.config = [server.config EXCEPT ![o.id] = Updated(o)] /\ DOMAIN s = DOMAIN server
    BY <2>2, <1>1
  <2> QED BY <2>3, <1>1, <1>7 DEF s
<1> QED BY <1>2, <1>3, <1>4, <1>5, <1>6, <1>7 DEF Kinds

\* Two states of the server are the same but for some nodes and edges.
Same(s, t, but) ==
    /\ \A n \in Node \ but : /\ n \in s.nodes <=> n \in t.nodes
                             /\ s.place[n] = t.place[n] /\ s.config[n] = t.config[n]
    /\ \A e \in Edge : Apart(e, but) => (e \in s.edges <=> e \in t.edges)

\* A request changes what it names and what is attached to that.
LEMMA Elsewhere ==
    ASSUME ServerTyped, NEW o, NEW but, o.kind \in Kinds, o.id \in but
    PROVE  Same(server, Autosave!After(o), but)
<1> DEFINE s == Autosave!After(o)
<1>1. DOMAIN server.place = Node /\ DOMAIN server.config = Node
  BY DEF ServerTyped
<1>2. ASSUME NEW f, DOMAIN f = Node, NEW v, NEW n \in Node \ but PROVE [f EXCEPT ![o.id] = v][n] = f[n]
  BY <1>2
<1>3. CASE o.kind \in {"deleteEdge", "createEdge"}
  <2>1. s.nodes = server.nodes /\ s.place = server.place /\ s.config = server.config
    BY <1>3, AfterFields
  <2>2. s.edges = server.edges \cup {o.id} \/ s.edges = server.edges \ {o.id}
    BY <1>3, AfterFields
  <2> HIDE DEF s
  <2>3. \A e \in Edge : Apart(e, but) => e # o.id
    BY DEF Apart
  <2>4. \A e \in Edge : Apart(e, but) => (e \in s.edges <=> e \in server.edges)
    BY <2>2, <2>3
  <2> QED BY <2>1, <2>4 DEF Same, s
<1>4. CASE o.kind = "deleteNode"
  <2>1. /\ s.nodes = server.nodes \ {o.id} /\ s.place = server.place /\ s.config = server.config
        /\ s.edges = {e \in server.edges : o.id \notin Ended(e)}
    BY <1>4, AfterFields
  <2> HIDE DEF s
  <2>2. \A e \in Edge : Apart(e, but) => o.id \notin Ended(e)
    BY DEF Apart, Ended
  <2>3. \A e \in Edge : Apart(e, but) => (e \in s.edges <=> e \in server.edges)
    BY <2>1, <2>2
  <2>4. \A n \in Node \ but : n \in s.nodes <=> n \in server.nodes
    BY <2>1
  <2>5. s.place = server.place /\ s.config = server.config
    BY <2>1
  <2> QED BY <2>3, <2>4, <2>5 DEF Same, s
<1>5. CASE o.kind \in {"createNode", "moveNode", "updateNode"}
  <2>1. s.edges = server.edges /\ s.nodes \in {server.nodes, server.nodes \cup {o.id}}
    BY <1>5, AfterFields
  <2>2. s.place = [server.place EXCEPT ![o.id] = o.place]
    BY <1>5, AfterFields
  <2>3. \/ s.config = server.config
        \/ s.config = [server.config EXCEPT ![o.id] = o.config]
        \/ s.config = [server.config EXCEPT ![o.id] = Updated(o)]
    BY <1>5, AfterFields
  <2> HIDE DEF s
  <2>4. \A n \in Node \ but : s.place[n] = server.place[n]
    BY <1>1, <1>2, <2>2
  <2>5. \A n \in Node \ but : s.config[n] = server.config[n]
    BY <1>1, <1>2, <2>3
  <2>6. \A n \in Node \ but : n \in s.nodes <=> n \in server.nodes
    BY <2>1
  <2> QED BY <2>1, <2>4, <2>5, <2>6 DEF Same, s
<1> QED BY <1>3, <1>4, <1>5 DEF Kinds

\* A request that the server handles leaves it a record of the same fields.
LEMMA StaysTyped ==
    ASSUME ServerTyped, NEW o, o.kind \in Kinds, server' = Autosave!After(o)
    PROVE  ServerTyped'
<1> DEFINE s == Autosave!After(o)
<1>1. DOMAIN s = DOMAIN server /\ DOMAIN s.place = Node /\ DOMAIN s.config = Node
  BY AfterFields
<1> QED BY <1>1 DEF ServerTyped

\* What holds of the rest of the server holds on.
LEMMA SameBetween ==
    ASSUME NEW b, NEW d, NEW k \in 1..6, NEW w, NEW s, NEW t, NEW but,
           Same(s, t, but), Between(b, d, k, w, s, but)
    PROVE  Between(b, d, k, w, t, but)
<1>1. EdgesBetween(b, d, k, w, t, but)
  BY DEF Same, Between, EdgesBetween
<1>2. NodesBetween(b, d, k, w, t, but)
  BY DEF Same, Between, NodesBetween
<1>3. PlacesBetween(b, d, k, w, t, but)
  BY DEF Same, Between, PlacesBetween
<1>4. ConfigsBetween(b, d, k, w, t, but)
  BY DEF Same, Between, ConfigsBetween
<1> QED BY <1>1, <1>2, <1>3, <1>4 DEF Between

\* So does what it matches of a snapshot.
LEMMA SameMatches ==
    ASSUME NEW CONSTANT c, NEW CONSTANT but, Same(server, server', but), Autosave!MatchesBut(c, but)
    PROVE  Autosave!MatchesBut(c, but)'
BY DEF Same, Apart, Autosave!MatchesBut, Autosave!Kept

\* The server matches a snapshot all the more if more is left out.
LEMMA MatchesLess ==
    ASSUME NEW c, NEW but, NEW more, but \subseteq more, Autosave!MatchesBut(c, but)
    PROVE  Autosave!MatchesBut(c, more)
BY DEF Autosave!MatchesBut

\* While a batch is on its way each of its requests that is accepted brings the server
\* a step nearer to d.
LEMMA HandledBetween ==
    ASSUME NEW b, NEW d, NEW but, IsGraph(b), IsGraph(d), ServerTyped, NEW k \in 1..6,
           NEW w, w \subseteq Autosave!diffCanvas(b, d)[k], Between(b, d, k, w, server, but), NEW o \in w
    PROVE  Between(b, d, k, w \ {o}, Autosave!After(o), but)
<1> DEFINE diff == Autosave!diffCanvas(b, d)
           L(j) == Left(b, d, k, w, j)
           M(j) == Left(b, d, k, w \ {o}, j)
           s == Autosave!After(o)
           del(e) == Autosave!Request("deleteEdge", e)
           drop(n) == Autosave!Request("deleteNode", n)
           new(n) == Autosave!NodeRequest("createNode", n, d)
           link(e) == Autosave!Request("createEdge", e)
           move(n) == Autosave!NodeRequest("moveNode", n, d)
           set(n) == Autosave!NodeRequest("updateNode", n, d)
<1>1. /\ \A e \in Edge : Apart(e, but) =>
             (e \in server.edges <=> \/ e \in b.edges /\ (e \in d.edges \/ del(e) \in L(1))
                                     \/ e \in d.edges \ b.edges /\ link(e) \notin L(4))
      /\ \A n \in Node \ but :
             (n \in server.nodes <=> \/ n \in b.nodes /\ (n \in d.nodes \/ drop(n) \in L(2))
                                     \/ n \in d.nodes \ b.nodes /\ new(n) \notin L(3))
  BY DEF Between, EdgesBetween, NodesBetween
<1>2. \A n \in Node \ but : n \in server.nodes \cap d.nodes =>
          /\ move(n) \in L(5) \/ server.place[n] = d.place[n]
          /\ set(n) \in L(6) \/ server.config[n] \in {d.config[n], Autosave!Kept(d.config[n])}
  BY DEF Between, PlacesBetween, ConfigsBetween
<1>3. \A j \in 1..6 : (j < k => L(j) = {} /\ M(j) = {}) /\ (j = k => L(j) = w /\ M(j) = w \ {o}) /\ (j > k => L(j) = diff[j] /\ M(j) = diff[j])
  BY DEF Left
<1>a. AreBatches(b, d, diff)
  BY Batches
<1>4. /\ diff[1] = {del(e) : e \in b.edges \ d.edges}
      /\ diff[2] = {drop(n) : n \in b.nodes \ d.nodes}
      /\ diff[3] = {new(n) : n \in d.nodes \ b.nodes}
      /\ diff[4] = {link(e) : e \in d.edges \ b.edges}
      /\ diff[5] = {move(n) : n \in {n \in b.nodes \cap d.nodes : b.place[n] # d.place[n]}}
      /\ diff[6] = {set(n) : n \in {n \in b.nodes \cap d.nodes : b.config[n] # d.config[n]}}
  BY <1>a DEF AreBatches
<1>5. /\ \A e : del(e).kind = "deleteEdge" /\ del(e).id = e /\ link(e).kind = "createEdge" /\ link(e).id = e
      /\ \A n : /\ drop(n).kind = "deleteNode" /\ drop(n).id = n
                /\ new(n).kind = "createNode" /\ new(n).id = n /\ new(n).place = d.place[n] /\ new(n).config = d.config[n]
                /\ move(n).kind = "moveNode" /\ move(n).id = n /\ move(n).place = d.place[n]
                /\ set(n).kind = "updateNode" /\ set(n).id = n /\ set(n).place = d.place[n] /\ set(n).config = d.config[n]
  BY RequestFields
<1>6. o \in diff[k]
  OBVIOUS
\* It is enough to follow the stored edges, nodes, places and configs one by one.
<1>7. ASSUME \A e \in Edge : Apart(e, but) =>
                 (e \in s.edges <=> \/ e \in b.edges /\ (e \in d.edges \/ del(e) \in M(1))
                                    \/ e \in d.edges \ b.edges /\ link(e) \notin M(4)),
             \A n \in Node \ but :
                 (n \in s.nodes <=> \/ n \in b.nodes /\ (n \in d.nodes \/ drop(n) \in M(2))
                                    \/ n \in d.nodes \ b.nodes /\ new(n) \notin M(3)),
             \A n \in Node \ but : n \in s.nodes \cap d.nodes => move(n) \in M(5) \/ s.place[n] = d.place[n],
             \A n \in Node \ but : n \in s.nodes \cap d.nodes =>
                 set(n) \in M(6) \/ s.config[n] \in {d.config[n], Autosave!Kept(d.config[n])}
      PROVE  Between(b, d, k, w \ {o}, s, but)
  <2> HIDE DEF s, L, diff
  <2>1. EdgesBetween(b, d, k, w \ {o}, s, but)
    BY <1>7 DEF EdgesBetween
  <2>2. NodesBetween(b, d, k, w \ {o}, s, but)
    BY <1>7 DEF NodesBetween
  <2>3. PlacesBetween(b, d, k, w \ {o}, s, but)
    BY <1>7 DEF PlacesBetween
  <2>4. ConfigsBetween(b, d, k, w \ {o}, s, but)
    BY <1>7 DEF ConfigsBetween
  <2> QED BY <2>1, <2>2, <2>3, <2>4 DEF Between
<1>8. /\ \A e \in b.edges \cup d.edges : e \in Edge
      /\ \A e \in d.edges : Ended(e) \subseteq d.nodes
      /\ b.nodes \subseteq Node /\ d.nodes \subseteq Node
  BY DEF IsGraph
<1>9. DOMAIN server.place = Node /\ DOMAIN server.config = Node
  BY DEF ServerTyped
<1> HIDE DEF diff, L, M, s, del, drop, new, link, move, set
<1>10. ASSUME k = 1 PROVE Between(b, d, k, w \ {o}, s, but)
  <2>1. PICK x \in b.edges \ d.edges : o = del(x)
    BY <1>4, <1>6, <1>10
  <2>2. o.kind = "deleteEdge" /\ o.id = x
    BY <2>1, <1>5
  <2>3. /\ L(1) = w /\ M(1) = w \ {o} /\ L(2) = M(2) /\ L(3) = M(3) /\ L(4) = M(4) /\ L(5) = M(5) /\ L(6) = M(6)
    BY <1>3, <1>10
  <2>5. s.nodes = server.nodes /\ s.edges = server.edges \ {x} /\ s.place = server.place /\ s.config = server.config
    BY <2>2, AfterFields DEF s
  <2>6. \A e \in Edge : e # x => (del(e) \in M(1) <=> del(e) \in L(1))
    BY <2>1, <2>3, <1>5
  <2>7. del(x) \notin M(1)
    BY <2>1, <2>3
  <2> QED BY <1>7, <1>1, <1>2, <2>1, <2>3, <2>5, <2>6, <2>7
<1>11. ASSUME k = 2 PROVE Between(b, d, k, w \ {o}, s, but)
  <2>1. PICK x \in b.nodes \ d.nodes : o = drop(x)
    BY <1>4, <1>6, <1>11
  <2>2. o.kind = "deleteNode" /\ o.id = x
    BY <2>1, <1>5
  <2>3. /\ L(1) = {} /\ M(1) = L(1) /\ L(2) = w /\ M(2) = w \ {o} /\ L(3) = M(3) /\ L(4) = M(4) /\ L(5) = M(5) /\ L(6) = M(6)
    BY <1>3, <1>11
  <2>5. \A e \in Edge : Apart(e, but) /\ e \in server.edges => e \in d.edges
    BY <1>1, <2>3
  <2>6. /\ s.nodes = server.nodes \ {x} /\ s.edges = {e \in server.edges : x \notin Ended(e)}
        /\ s.place = server.place /\ s.config = server.config
    BY <2>2, AfterFields DEF s
  <2>7. \A e \in Edge : Apart(e, but) => (e \in s.edges <=> e \in server.edges)
    BY <2>1, <2>5, <2>6, <1>8
  <2>8. \A n \in Node : n # x => (drop(n) \in M(2) <=> drop(n) \in L(2))
    BY <2>1, <2>3, <1>5
  <2>9. drop(x) \notin M(2)
    BY <2>1, <2>3
  <2>10. s.nodes = server.nodes \ {x} /\ s.place = server.place /\ s.config = server.config
    BY <2>6
  <2> QED BY <1>7, <1>1, <1>2, <2>1, <2>3, <2>10, <2>7, <2>8, <2>9
<1>12. ASSUME k = 3 PROVE Between(b, d, k, w \ {o}, s, but)
  <2>1. PICK x \in d.nodes \ b.nodes : o = new(x)
    BY <1>4, <1>6, <1>12
  <2>2. o.kind = "createNode" /\ o.id = x /\ o.place = d.place[x] /\ o.config = d.config[x]
    BY <2>1, <1>5
  <2>3. /\ L(1) = M(1) /\ L(2) = M(2) /\ L(3) = w /\ M(3) = w \ {o} /\ L(4) = M(4) /\ L(5) = M(5) /\ L(6) = M(6)
    BY <1>3, <1>12
  <2>4. x \in Node
    BY <2>1, <1>8
  <2>5. /\ s.nodes = server.nodes \cup {x} /\ s.edges = server.edges
        /\ s.place = [server.place EXCEPT ![x] = d.place[x]] /\ s.config = [server.config EXCEPT ![x] = d.config[x]]
    <3>1. /\ s.nodes = server.nodes \cup {o.id} /\ s.edges = server.edges
          /\ s.place = [server.place EXCEPT ![o.id] = o.place] /\ s.config = [server.config EXCEPT ![o.id] = o.config]
      BY <2>2, AfterFields DEF s
    <3> QED BY <3>1, <2>2
  <2>6. /\ s.place[x] = d.place[x] /\ s.config[x] = d.config[x]
        /\ \A n \in Node : n # x => s.place[n] = server.place[n] /\ s.config[n] = server.config[n]
    BY <2>4, <2>5, <1>9
  <2>7. \A n \in Node : n # x => (new(n) \in M(3) <=> new(n) \in L(3))
    BY <2>1, <2>3, <1>5
  <2>8. new(x) \notin M(3)
    BY <2>1, <2>3
  <2>9. s.nodes = server.nodes \cup {x} /\ s.edges = server.edges
    BY <2>5
  <2>10. \A n \in Node \ but : n \in s.nodes \cap d.nodes => move(n) \in M(5) \/ s.place[n] = d.place[n]
    BY <1>2, <2>3, <2>6, <2>9
  <2>11. \A n \in Node \ but : n \in s.nodes \cap d.nodes =>
             set(n) \in M(6) \/ s.config[n] \in {d.config[n], Autosave!Kept(d.config[n])}
    BY <1>2, <2>3, <2>6, <2>9
  <2>12. \A e \in Edge : Apart(e, but) =>
                 (e \in s.edges <=> \/ e \in b.edges /\ (e \in d.edges \/ del(e) \in M(1))
                                    \/ e \in d.edges \ b.edges /\ link(e) \notin M(4))
    BY <1>1, <2>3, <2>9
  <2>13. \A n \in Node \ but :
                 (n \in s.nodes <=> \/ n \in b.nodes /\ (n \in d.nodes \/ drop(n) \in M(2))
                                    \/ n \in d.nodes \ b.nodes /\ new(n) \notin M(3))
    BY <1>1, <2>1, <2>3, <2>7, <2>8, <2>9
  <2> QED BY <1>7, <2>10, <2>11, <2>12, <2>13
<1>13. ASSUME k = 4 PROVE Between(b, d, k, w \ {o}, s, but)
  <2>1. PICK x \in d.edges \ b.edges : o = link(x)
    BY <1>4, <1>6, <1>13
  <2>2. o.kind = "createEdge" /\ o.id = x
    BY <2>1, <1>5
  <2>3. /\ L(1) = M(1) /\ L(2) = M(2) /\ L(3) = M(3)
        /\ L(4) = w /\ M(4) = w \ {o} /\ L(5) = M(5) /\ L(6) = M(6)
    BY <1>3, <1>13
  <2>6. /\ s.nodes = server.nodes /\ s.edges = server.edges \cup {x}
        /\ s.place = server.place /\ s.config = server.config
    BY <2>2, AfterFields DEF s
  <2>7. \A e \in Edge : e # x => (link(e) \in M(4) <=> link(e) \in L(4))
    BY <2>1, <2>3, <1>5
  <2>8. link(x) \notin M(4)
    BY <2>1, <2>3
  <2> QED BY <1>7, <1>1, <1>2, <2>1, <2>3, <2>6, <2>7, <2>8
<1>14. ASSUME k = 5 PROVE Between(b, d, k, w \ {o}, s, but)
  <2>1. PICK x \in b.nodes \cap d.nodes : o = move(x)
    BY <1>4, <1>6, <1>14
  <2>2. o.kind = "moveNode" /\ o.id = x /\ o.place = d.place[x]
    BY <2>1, <1>5
  <2>3. /\ L(1) = M(1) /\ L(2) = M(2) /\ L(3) = M(3) /\ L(4) = M(4) /\ L(5) = w /\ M(5) = w \ {o} /\ L(6) = M(6)
    BY <1>3, <1>14
  <2>4. x \in Node
    BY <2>1, <1>8
  <2>5. /\ s.nodes = server.nodes /\ s.edges = server.edges
        /\ s.place = [server.place EXCEPT ![x] = d.place[x]] /\ s.config = server.config
    <3>1. /\ s.nodes = server.nodes /\ s.edges = server.edges
          /\ s.place = [server.place EXCEPT ![o.id] = o.place] /\ s.config = server.config
      BY <2>2, AfterFields DEF s
    <3> QED BY <3>1, <2>2
  <2>6. /\ s.place[x] = d.place[x]
        /\ \A n \in Node : n # x => s.place[n] = server.place[n]
    BY <2>4, <2>5, <1>9
  <2>7. \A n \in Node : n # x => (move(n) \in M(5) <=> move(n) \in L(5))
    BY <2>1, <2>3, <1>5
  <2>8. s.nodes = server.nodes /\ s.edges = server.edges /\ s.config = server.config
    BY <2>5
  <2>9. \A n \in Node \ but : n \in s.nodes \cap d.nodes => move(n) \in M(5) \/ s.place[n] = d.place[n]
    BY <1>2, <2>6, <2>7, <2>8
  <2> QED BY <1>7, <1>1, <1>2, <2>3, <2>8, <2>9
<1>15. ASSUME k = 6 PROVE Between(b, d, k, w \ {o}, s, but)
  <2>1. PICK x \in b.nodes \cap d.nodes : o = set(x)
    BY <1>4, <1>6, <1>15
  <2>2. o.kind = "updateNode" /\ o.id = x /\ o.place = d.place[x] /\ o.config = d.config[x]
    BY <2>1, <1>5
  <2>3. /\ L(1) = M(1) /\ L(2) = M(2) /\ L(3) = M(3) /\ L(4) = M(4) /\ L(5) = M(5) /\ L(6) = w /\ M(6) = w \ {o}
    BY <1>3, <1>15
  <2>4. x \in Node
    BY <2>1, <1>8
  <2>5. /\ s.nodes = server.nodes /\ s.edges = server.edges
        /\ s.place = [server.place EXCEPT ![o.id] = o.place]
        /\ s.config = [server.config EXCEPT ![o.id] = Updated(o)]
    BY <2>2, AfterFields DEF s
  <2>a. PICK c : s.config = [server.config EXCEPT ![x] = c] /\ c \in {d.config[x], Autosave!Kept(d.config[x])}
    BY <2>5, <2>2, UpdatedConfig
  <2>b. s.place = [server.place EXCEPT ![x] = d.place[x]]
    BY <2>5, <2>2
  <2>6. /\ s.place[x] = d.place[x] /\ s.config[x] \in {d.config[x], Autosave!Kept(d.config[x])}
        /\ \A n \in Node : n # x => s.place[n] = server.place[n] /\ s.config[n] = server.config[n]
    BY <2>4, <2>a, <2>b, <1>9
  <2>7. \A n \in Node : n # x => (set(n) \in M(6) <=> set(n) \in L(6))
    BY <2>1, <2>3, <1>5
  <2>8. s.nodes = server.nodes /\ s.edges = server.edges
    BY <2>5
  <2>9. \A n \in Node \ but : n \in s.nodes \cap d.nodes => move(n) \in M(5) \/ s.place[n] = d.place[n]
    BY <1>2, <2>3, <2>6, <2>8
  <2>10. \A n \in Node \ but : n \in s.nodes \cap d.nodes =>
             set(n) \in M(6) \/ s.config[n] \in {d.config[n], Autosave!Kept(d.config[n])}
    BY <1>2, <2>6, <2>7, <2>8
  <2> QED BY <1>7, <1>1, <2>3, <2>8, <2>9, <2>10
<1> QED BY <1>10, <1>11, <1>12, <1>13, <1>14, <1>15 DEF s

\* What has not been sent is as in the baseline, whatever the server makes of what has.
LEMMA MatchedStill ==
    ASSUME UNCHANGED <<baseline, stray>>, Same(server, server', stray), Autosave!MatchesBut(baseline, stray)
    PROVE  (Autosave!MatchesBut(baseline, stray))'
<1>1. PICK c : c = baseline
  OBVIOUS
<1>2. PICK but : but = stray
  OBVIOUS
<1>3. Autosave!MatchesBut(c, but)'
  BY <1>1, <1>2, SameMatches
<1> QED BY <1>1, <1>2, <1>3 DEF Autosave!MatchesBut

\* A save goes on with what it still waits for.
LEMMA SavingStill ==
    ASSUME NEW k \in 1..6, SavingAt(k), UNCHANGED <<baseline, stray>>, NEW w, w \subseteq save.wait,
           save'.active, save'.desired = save.desired, save'.batches = save.batches, save'.wait = w,
           DOMAIN save' = {"active", "desired", "batches", "wait"},
           Between(baseline, save.desired, k, w, server', stray), Same(server, server', stray \cup Autosave!Sent)
    PROVE  SavingAt(k)'
<1>1. PICK c : c = baseline
  OBVIOUS
<1>2. PICK but : but = stray \cup Autosave!Sent
  OBVIOUS
<1>3. PICK d : d = save.desired
  OBVIOUS
<1>4. \A j : Batch(d, j)' = Batch(d, j)
  BY DEF Batch, Autosave!diffCanvas, Autosave!Request, Autosave!NodeRequest
<1>5. Autosave!MatchesBut(c, but)'
  BY <1>1, <1>2, SameMatches DEF SavingAt
<1>6. Autosave!Sent' = Autosave!Sent
  BY <1>3, <1>4 DEF Autosave!Sent, Batch
<1>7. (Autosave!MatchesBut(baseline, stray \cup Autosave!Sent))'
  BY <1>1, <1>2, <1>5, <1>6 DEF Autosave!MatchesBut
<1>8. IsGraph(save.desired)'
  BY DEF SavingAt, IsGraph, Ended
<1>9. Between(baseline, save.desired, k, save.wait, server, stray)'
  OBVIOUS
<1>10. \A j : Batch(save.desired, j)' = Batch(d, j)
  BY <1>3, <1>4
<1> DEFINE T == {Batch(d, j) : j \in 1..6}
<1>11. /\ save.batches \in Seq(T) /\ Len(save.batches) = 6 - k
       /\ \A j \in 1..(6 - k) : save.batches[j] = Batch(d, k + j)
       /\ save.wait \subseteq Batch(d, k)
  BY <1>3 DEF SavingAt
<1>12. (save.batches \in Seq({Batch(save.desired, j) : j \in 1..6}))'
  <2>1. {Batch(save.desired, j)' : j \in 1..6} = T
    BY <1>10
  <2> QED BY <2>1, <1>11
<1>13. (Len(save.batches) = 6 - k)' /\ (\A j \in 1..(6 - k) : save.batches[j] = Batch(save.desired, k + j))'
  BY <1>10, <1>11
<1>14. (save.wait \subseteq Batch(save.desired, k))'
  BY <1>10, <1>11
<1> QED BY <1>7, <1>8, <1>9, <1>12, <1>13, <1>14 DEF SavingAt

\* Edits and snapshots leave a save alone.
LEMMA SaveStays ==
    ASSUME SaveInv, UNCHANGED <<baseline, server, save, stray>>
    PROVE  SaveInv'
<1>1. CASE save = Autosave!NoSave /\ Autosave!MatchesBut(baseline, stray)
  BY <1>1 DEF SaveInv, Autosave!MatchesBut, Autosave!NoSave
<1>2. ASSUME NEW k \in 1..6, SavingAt(k) PROVE SavingAt(k)'
  <2>1. PICK w : w = save.wait
    OBVIOUS
  <2>2. /\ save.active /\ DOMAIN save = {"active", "desired", "batches", "wait"}
        /\ Between(baseline, save.desired, k, w, server, stray)
    BY <1>2, <2>1 DEF SavingAt
  <2>3. Same(server, server', stray \cup Autosave!Sent)
    BY DEF Same
  <2> QED BY <1>2, <2>1, <2>2, <2>3, SavingStill
<1> QED BY <1>1, <1>2 DEF SaveInv

\* What is queued stays what it is.
LEMMA QueueStays ==
    ASSUME QueueInv, UNCHANGED queue
    PROVE  QueueInv'
BY DEF QueueInv, Queued

\* A sequence is one of its own elements.
LEMMA OwnElements ==
    ASSUME NEW S, NEW q \in Seq(S)
    PROVE  q \in Seq({q[i] : i \in DOMAIN q}) /\ {q[i] : i \in DOMAIN q} \subseteq S
<1> DEFINE T == {q[i] : i \in DOMAIN q}
<1>1. Len(q) \in Nat /\ DOMAIN q = 1..Len(q) /\ q = [i \in 1..Len(q) |-> q[i]]
  OBVIOUS
<1>2. q \in [1..Len(q) -> T]
  BY <1>1
<1>3. \A i \in DOMAIN q : q[i] \in S
  BY <1>1
<1>4. T \subseteq S
  BY <1>3
<1> HIDE DEF T
<1>5. q \in Seq(T)
  BY <1>1, <1>2
<1> QED BY <1>4, <1>5 DEF T

\* What is queued is a graph, as the canvas is.
LEMMA QueueGrows ==
    ASSUME QueueInv, IsGraph(canvas), queue' = Append(queue, canvas)
    PROVE  QueueInv'
<1> DEFINE S == Queued \cup {canvas}
<1>1. queue' \in Seq(S)
  BY DEF QueueInv
<1>2. \A c \in S : IsGraph(c)
  BY DEF QueueInv
<1> HIDE DEF S
<1>3. queue' \in Seq(Queued') /\ Queued' \subseteq S
  BY <1>1, OwnElements DEF Queued
<1> QED BY <1>2, <1>3 DEF QueueInv, IsGraph, Ended

\* What is left of the queue, and what is taken from it, are graphs.
LEMMA QueueShrinks ==
    ASSUME QueueInv, queue # <<>>, queue' = Tail(queue)
    PROVE  QueueInv' /\ IsGraph(Head(queue))
<1>1. queue' \in Seq(Queued) /\ Head(queue) \in Queued
  BY DEF QueueInv
<1>2. queue' \in Seq(Queued') /\ Queued' \subseteq Queued
  BY <1>1, OwnElements DEF Queued
<1> QED BY <1>1, <1>2 DEF QueueInv, IsGraph, Ended

\* An edit shows a graph again.
LEMMA EditsKeepGraph ==
    ASSUME IsGraph(canvas), Autosave!Editing
    PROVE  IsGraph(canvas') /\ UNCHANGED <<baseline, server, queue, save, flight, loading>>
<1>1. /\ DOMAIN canvas = {"nodes", "edges", "place", "config"}
      /\ canvas.nodes \subseteq Node /\ canvas.edges \subseteq Edge
      /\ \A e \in canvas.edges : Ended(e) \subseteq canvas.nodes
      /\ \A e, f \in canvas.edges : Ends[e] = Ends[f] => e = f
  BY DEF IsGraph
<1>2. ASSUME NEW n \in Node, Autosave!AddNode(n)
      PROVE  IsGraph(canvas') /\ UNCHANGED <<baseline, server, queue, save, flight, loading>>
  <2>1. /\ canvas' = [canvas EXCEPT !.nodes = @ \cup {n}, !.place[n] = 0, !.config[n] = <<FirstSetting[n], {}>>]
        /\ UNCHANGED <<baseline, server, queue, save, flight, loading>>
    BY <1>2 DEF Autosave!AddNode, Autosave!Edit, Autosave!Shown
  <2>2. DOMAIN canvas' = DOMAIN canvas /\ canvas'.nodes = canvas.nodes \cup {n} /\ canvas'.edges = canvas.edges
    BY <2>1, <1>1
  <2> QED BY <2>1, <2>2, <1>1 DEF IsGraph
<1>3. ASSUME NEW n \in Node, Autosave!RemoveNode(n)
      PROVE  IsGraph(canvas') /\ UNCHANGED <<baseline, server, queue, save, flight, loading>>
  <2> DEFINE E == {e \in canvas.edges : n \notin {Ends[e][1], Ends[e][2]}}
  <2>1. /\ canvas' = [canvas EXCEPT !.nodes = @ \ {n}, !.edges = E, !.config = Autosave!syncEc2Bindings(@, E)]
        /\ UNCHANGED <<baseline, server, queue, save, flight, loading>>
    BY <1>3 DEF Autosave!RemoveNode, Autosave!Edit, Autosave!Shown
  <2>2. \A e \in E : e \in canvas.edges /\ n \notin Ended(e)
    BY DEF Ended
  <2> HIDE DEF E
  <2>3. DOMAIN canvas' = DOMAIN canvas /\ canvas'.nodes = canvas.nodes \ {n} /\ canvas'.edges = E
    BY <2>1, <1>1
  <2>4. \A e \in E : Ended(e) \subseteq canvas.nodes \ {n}
    BY <2>2, <1>1
  <2> QED BY <2>1, <2>2, <2>3, <2>4, <1>1 DEF IsGraph
<1>4. ASSUME NEW e \in Edge, Autosave!Connect(e)
      PROVE  IsGraph(canvas') /\ UNCHANGED <<baseline, server, queue, save, flight, loading>>
  <2> DEFINE E == canvas.edges \cup {e}
  <2>1. /\ canvas' = [canvas EXCEPT !.edges = E, !.config = Autosave!syncEc2Bindings(@, E)]
        /\ UNCHANGED <<baseline, server, queue, save, flight, loading>>
        /\ {Ends[e][1], Ends[e][2]} \subseteq canvas.nodes /\ \A f \in canvas.edges : Ends[f] # Ends[e]
    BY <1>4 DEF Autosave!Connect, Autosave!Edit, Autosave!Shown
  <2>2. DOMAIN canvas' = DOMAIN canvas /\ canvas'.nodes = canvas.nodes /\ canvas'.edges = canvas.edges \cup {e}
    BY <2>1, <1>1
  <2>3. Ended(e) \subseteq canvas.nodes
    BY <2>1 DEF Ended
  <2> QED BY <2>1, <2>2, <2>3, <1>1 DEF IsGraph
<1>5. ASSUME NEW e \in Edge, Autosave!Disconnect(e)
      PROVE  IsGraph(canvas') /\ UNCHANGED <<baseline, server, queue, save, flight, loading>>
  <2> DEFINE E == canvas.edges \ {e}
  <2>1. /\ canvas' = [canvas EXCEPT !.edges = E, !.config = Autosave!syncEc2Bindings(@, E)]
        /\ UNCHANGED <<baseline, server, queue, save, flight, loading>>
    BY <1>5 DEF Autosave!Disconnect, Autosave!Edit, Autosave!Shown
  <2>2. DOMAIN canvas' = DOMAIN canvas /\ canvas'.nodes = canvas.nodes /\ canvas'.edges = canvas.edges \ {e}
    BY <2>1, <1>1
  <2> QED BY <2>1, <2>2, <1>1 DEF IsGraph
<1>6. ASSUME NEW n \in Node, Autosave!Configure(n)
      PROVE  IsGraph(canvas') /\ UNCHANGED <<baseline, server, queue, save, flight, loading>>
  <2>1. PICK v \in Setting : /\ canvas' = [canvas EXCEPT !.config[n][1] = v]
                             /\ UNCHANGED <<baseline, server, queue, save, flight, loading>>
    BY <1>6 DEF Autosave!Configure, Autosave!Edit, Autosave!Shown
  <2>2. DOMAIN canvas' = DOMAIN canvas /\ canvas'.nodes = canvas.nodes /\ canvas'.edges = canvas.edges
    BY <2>1, <1>1
  <2> QED BY <2>1, <2>2, <1>1 DEF IsGraph
<1>7. ASSUME NEW n \in Node, Autosave!Move(n)
      PROVE  IsGraph(canvas') /\ UNCHANGED <<baseline, server, queue, save, flight, loading>>
  <2>1. /\ canvas' = [canvas EXCEPT !.place[n] = 1 - @]
        /\ UNCHANGED <<baseline, server, queue, save, flight, loading>>
    BY <1>7 DEF Autosave!Move, Autosave!Edit, Autosave!Shown
  <2>2. DOMAIN canvas' = DOMAIN canvas /\ canvas'.nodes = canvas.nodes /\ canvas'.edges = canvas.edges
    BY <2>1, <1>1
  <2> QED BY <2>1, <2>2, <1>1 DEF IsGraph
<1> QED BY <1>2, <1>3, <1>4, <1>5, <1>6, <1>7 DEF Autosave!Editing

\* A snapshot that needs no request is the baseline already.
LEMMA UnchangedMatches ==
    ASSUME NEW d, NEW but, IsGraph(d), IsGraph(baseline), Autosave!MatchesBut(baseline, but),
           Autosave!Unchanged(baseline, d)
    PROVE  Autosave!MatchesBut(d, but)
<1> DEFINE diff == Autosave!diffCanvas(baseline, d)
<1>1. \A k \in 1..6 : diff[k] = {}
  BY DEF Autosave!Unchanged
<1>a. AreBatches(baseline, d, diff)
  BY Batches
<1> HIDE DEF diff
<1>2. /\ diff[1] = {Autosave!Request("deleteEdge", e) : e \in baseline.edges \ d.edges}
      /\ diff[2] = {Autosave!Request("deleteNode", n) : n \in baseline.nodes \ d.nodes}
      /\ diff[3] = {Autosave!NodeRequest("createNode", n, d) : n \in d.nodes \ baseline.nodes}
      /\ diff[4] = {Autosave!Request("createEdge", e) : e \in d.edges \ baseline.edges}
      /\ diff[5] = {Autosave!NodeRequest("moveNode", n, d) : n \in {n \in baseline.nodes \cap d.nodes : baseline.place[n] # d.place[n]}}
      /\ diff[6] = {Autosave!NodeRequest("updateNode", n, d) : n \in {n \in baseline.nodes \cap d.nodes : baseline.config[n] # d.config[n]}}
  BY <1>a DEF AreBatches
<1>3. diff[1] = {} /\ diff[2] = {} /\ diff[3] = {} /\ diff[4] = {} /\ diff[5] = {} /\ diff[6] = {}
  BY <1>1
<1>4. baseline.edges = d.edges
  <2>1. baseline.edges \ d.edges = {}
    BY <1>2, <1>3
  <2>2. d.edges \ baseline.edges = {}
    BY <1>2, <1>3
  <2> QED BY <2>1, <2>2
<1>5. baseline.nodes = d.nodes
  <2>1. baseline.nodes \ d.nodes = {}
    BY <1>2, <1>3
  <2>2. d.nodes \ baseline.nodes = {}
    BY <1>2, <1>3
  <2> QED BY <2>1, <2>2
<1>6. \A n \in d.nodes : baseline.place[n] = d.place[n]
  BY <1>2, <1>3, <1>5
<1>7. \A n \in d.nodes : baseline.config[n] = d.config[n]
  BY <1>2, <1>3, <1>5
<1> QED BY <1>4, <1>5, <1>6, <1>7 DEF Autosave!MatchesBut

\* No save fails but by a refused request that it waits for.
LEMMA NothingStrays ==
    ASSUME StrayStep, save'.active \/ ~save.active \/ answer' # "failed"
    PROVE  UNCHANGED stray
BY DEF StrayStep, Autosave!SaveFails

\* What is sent is waited for; what was on its way before names what failed saves had
\* sent.
LEMMA FlightGrows ==
    ASSUME NEW ops, save'.active, save'.wait = ops, flight' = Autosave!Sending(ops), UNCHANGED stray,
           \A o \in ops : o.kind \in Kinds, \A o \in DOMAIN flight : o.kind \in Kinds /\ o.id \in stray
    PROVE  FlightInv'
<1>1. DOMAIN flight' = DOMAIN flight \cup ops
  BY DEF Autosave!Sending
<1>2. \A o \in ops \ DOMAIN flight : flight'[o] = 1
  BY DEF Autosave!Sending
<1> QED BY <1>1, <1>2 DEF FlightInv

\* persistCanvas begins: with nothing to send the snapshot is stored already, else
\* the first batch is sent.
LEMMA SaveBegins ==
    ASSUME EditorAssumption, AutosaveInv, Autosave!SaveStart, StrayStep
    PROVE  AutosaveInv' /\ (~save'.active => Autosave!MatchesBut(Head(queue), stray))
<1> DEFINE d == Head(queue)
           diff == Autosave!diffCanvas(baseline, d)
<1>1. /\ IsGraph(canvas) /\ IsGraph(baseline) /\ ServerTyped /\ QueueInv /\ loading = <<>>
      /\ FlightInv
  BY DEF AutosaveInv
<1>2. ~save.active /\ queue # <<>> /\ queue' = Tail(queue) /\ UNCHANGED <<canvas, baseline, server, loading>>
  BY DEF Autosave!SaveStart
<1>b. UNCHANGED stray
  BY <1>2, NothingStrays
<1>3. QueueInv' /\ IsGraph(d)
  BY <1>1, <1>2, QueueShrinks
<1>4. /\ save = Autosave!NoSave /\ Autosave!MatchesBut(baseline, stray)
      /\ \A o \in DOMAIN flight : o.kind \in Kinds /\ o.id \in stray
  BY <1>1, <1>2 DEF AutosaveInv, SaveInv, SavingAt, FlightInv
<1>5. IsGraph(canvas)' /\ IsGraph(baseline)' /\ ServerTyped' /\ (loading = <<>>)'
  BY <1>1, <1>2 DEF IsGraph, Ended, ServerTyped
<1>6. CASE Autosave!Unchanged(baseline, d)
  <2>1. UNCHANGED <<save, flight>>
    BY <1>6 DEF Autosave!SaveStart
  <2>2. SaveInv'
    BY <1>2, <1>4, <1>b, <2>1, SaveStays DEF AutosaveInv
  <2>3. FlightInv'
    BY <1>1, <1>b, <2>1 DEF FlightInv
  <2>4. Autosave!MatchesBut(d, stray)
    BY <1>1, <1>3, <1>4, <1>6, UnchangedMatches
  <2> QED BY <1>3, <1>5, <2>2, <2>3, <2>4 DEF AutosaveInv
<1>7. CASE ~Autosave!Unchanged(baseline, d)
  <2>1. /\ save' = [active |-> TRUE, desired |-> d, batches |-> Tail(diff), wait |-> diff[1]]
        /\ flight' = Autosave!Sending(diff[1])
    BY <1>7 DEF Autosave!SaveStart
  <2>2. diff \in Seq({diff[j] : j \in 1..6}) /\ Len(diff) = 6 /\ DOMAIN diff = 1..6
    BY Batches
  <2>3. Between(baseline, d, 1, diff[1], server, stray)
    BY <1>1, <1>3, <1>4, BetweenStarts
  <2>4. PICK g : g = d
    OBVIOUS
  <2>5. PICK B : B = diff
    OBVIOUS
  <2> HIDE DEF d, diff
  <2>6. save'.active /\ save'.desired = g /\ save'.batches = Tail(B) /\ save'.wait = B[1]
        /\ DOMAIN save' = {"active", "desired", "batches", "wait"}
    BY <2>1, <2>4, <2>5
  <2>7. \A j \in 1..6 : Batch(g, j)' = B[j]
    <3>1. Autosave!diffCanvas(baseline, g)' = Autosave!diffCanvas(baseline, g)
      BY <1>2 DEF Autosave!diffCanvas, Autosave!Request, Autosave!NodeRequest
    <3> QED BY <3>1, <2>4, <2>5 DEF Batch, diff
  <2>8. /\ Tail(B) \in Seq({B[j] : j \in 1..6}) /\ Len(Tail(B)) = 5
        /\ \A j \in 1..5 : Tail(B)[j] = B[1 + j]
    <3> DEFINE T == {B[j] : j \in 1..6}
    <3>1. B \in Seq(T) /\ Len(B) = 6
      BY <2>2, <2>5
    <3> HIDE DEF T
    <3>2. Tail(B) \in Seq(T) /\ Len(Tail(B)) = 5 /\ \A j \in 1..5 : Tail(B)[j] = B[j + 1]
      <4>1. B # <<>>
        BY <3>1
      <4>2. Tail(B) \in Seq(T) /\ Len(Tail(B)) = Len(B) - 1 /\ \A i \in 1..Len(Tail(B)) : Tail(B)[i] = B[i + 1]
        BY <3>1, <4>1, HeadTailProperties
      <4>3. Len(Tail(B)) = 5
        BY <3>1, <4>2
      <4> QED BY <4>2, <4>3
    <3>3. \A j \in 1..5 : j + 1 = 1 + j
      OBVIOUS
    <3> QED BY <3>2, <3>3 DEF T
  <2>9. {Batch(g, j)' : j \in 1..6} = {B[j] : j \in 1..6}
    BY <2>7
  <2>10. Between(baseline, g, 1, B[1], server, stray)'
    <3>1. Between(baseline, g, 1, B[1], server, stray)
      BY <2>3, <2>4, <2>5
    <3> QED BY <3>1, <1>2, <1>b
  <2>11. SavingAt(1)'
    <3>1. IsGraph(g)'
      BY <1>3, <2>4 DEF IsGraph, Ended
    <3>2. IsGraph(save.desired)'
      BY <3>1, <2>6 DEF IsGraph, Ended
    <3>3. Between(baseline, save.desired, 1, save.wait, server, stray)'
      BY <2>6, <2>10
    <3>4. \A j \in 1..6 : Batch(save.desired, j)' = B[j]
      BY <2>6, <2>7
    <3>5. (save.batches \in Seq({Batch(save.desired, j) : j \in 1..6}))'
      <4>1. {Batch(save.desired, j)' : j \in 1..6} = {B[j] : j \in 1..6}
        BY <3>4
      <4> QED BY <4>1, <2>6, <2>8
    <3>6. (\A j \in 1..(6 - 1) : save.batches[j] = Batch(save.desired, 1 + j))'
      <4>1. \A j \in 1..(6 - 1) : j \in 1..5 /\ 1 + j \in 1..6
        OBVIOUS
      <4>2. \A j \in 1..(6 - 1) : save'.batches[j] = B[1 + j]
        BY <4>1, <2>6, <2>8
      <4>3. \A j \in 1..(6 - 1) : Batch(save.desired, 1 + j)' = B[1 + j]
        BY <4>1, <3>4
      <4> QED BY <4>2, <4>3
    <3>7. (save.wait \subseteq Batch(save.desired, 1))'
      BY <3>4, <2>6
    <3>8. (Len(save.batches) = 6 - 1)'
      BY <2>6, <2>8
    <3>9. (Autosave!MatchesBut(baseline, stray \cup Autosave!Sent))'
      <4>1. (Autosave!MatchesBut(baseline, stray))'
        BY <1>2, <1>4, <1>b DEF Autosave!MatchesBut
      <4> QED BY <4>1 DEF Autosave!MatchesBut
    <3> QED BY <2>6, <3>2, <3>3, <3>5, <3>6, <3>7, <3>8, <3>9 DEF SavingAt
  <2>12. FlightInv'
    <3>1. save'.wait = B[1] /\ flight' = Autosave!Sending(B[1])
      BY <2>1, <2>5, <2>6
    <3>2. \A o \in B[1] : o.kind \in Kinds
      BY BatchKinds, <2>5 DEF diff
    <3> QED BY <1>4, <1>b, <2>6, <3>1, <3>2, FlightGrows
  <2> QED BY <1>3, <1>5, <2>6, <2>11, <2>12 DEF AutosaveInv, SaveInv
<1> QED BY <1>6, <1>7

\* A batch whose answers are all there is followed by the next.
LEMMA SaveGoesOn ==
    ASSUME AutosaveInv, Autosave!SaveNextBatch, StrayStep
    PROVE  AutosaveInv'
<1>1. /\ IsGraph(canvas) /\ IsGraph(baseline) /\ ServerTyped /\ QueueInv /\ loading = <<>>
      /\ FlightInv
  BY DEF AutosaveInv
<1>2. /\ save.active /\ save.wait = {} /\ save.batches # <<>>
      /\ save' = [save EXCEPT !.batches = Tail(@), !.wait = Head(save.batches)]
      /\ flight' = Autosave!Sending(Head(save.batches))
      /\ UNCHANGED <<canvas, baseline, server, queue, loading>>
  BY DEF Autosave!SaveNextBatch
<1>b. UNCHANGED stray
  <2>1. save'.active
    BY <1>2 DEF AutosaveInv, SaveInv, SavingAt, Autosave!NoSave
  <2> QED BY <2>1, NothingStrays
<1>3. IsGraph(canvas)' /\ IsGraph(baseline)' /\ ServerTyped' /\ QueueInv' /\ (loading = <<>>)'
  BY <1>1, <1>2, QueueStays DEF IsGraph, Ended, ServerTyped
<1>4. PICK k \in 1..6 : SavingAt(k)
  BY <1>2 DEF AutosaveInv, SaveInv, Autosave!NoSave
<1>5. PICK d : d = save.desired
  OBVIOUS
<1>6. PICK B : B = save.batches
  OBVIOUS
<1> DEFINE T == {Batch(d, j) : j \in 1..6}
<1>7. /\ DOMAIN save = {"active", "desired", "batches", "wait"} /\ IsGraph(d)
      /\ B \in Seq(T) /\ B # <<>> /\ Len(B) = 6 - k
      /\ \A j \in 1..(6 - k) : B[j] = Batch(d, k + j)
      /\ Between(baseline, d, k, {}, server, stray)
      /\ Autosave!MatchesBut(baseline, stray \cup Autosave!Sent)
  BY <1>2, <1>4, <1>5, <1>6 DEF SavingAt
<1> HIDE DEF T
<1>8. k \in 1..5
  BY <1>7
<1>9. Head(B) = B[1] /\ B[1] = Batch(d, k + 1)
  BY <1>7, <1>8
<1>10. /\ Tail(B) \in Seq(T) /\ Len(Tail(B)) = 6 - (k + 1)
       /\ \A j \in 1..(6 - (k + 1)) : Tail(B)[j] = Batch(d, (k + 1) + j)
  <2>1. Tail(B) \in Seq(T) /\ Len(Tail(B)) = Len(B) - 1 /\ \A j \in 1..Len(Tail(B)) : Tail(B)[j] = B[j + 1]
    BY <1>7, HeadTailProperties
  <2>2. \A j \in 1..(6 - (k + 1)) : j \in 1..Len(Tail(B)) /\ j + 1 \in 1..(6 - k) /\ k + (j + 1) = (k + 1) + j
    BY <2>1, <1>7, <1>8
  <2> QED BY <2>1, <2>2, <1>7, <1>8
<1>11. Between(baseline, d, k + 1, Batch(d, k + 1), server, stray)
  BY <1>7, <1>8, BetweenGoesOn DEF Batch
<1>12. /\ save'.active /\ save'.desired = d /\ save'.batches = Tail(B) /\ save'.wait = Batch(d, k + 1)
       /\ DOMAIN save' = {"active", "desired", "batches", "wait"}
  BY <1>2, <1>5, <1>6, <1>7, <1>9
<1>13. \A j : Batch(d, j)' = Batch(d, j)
  BY <1>2 DEF Batch, Autosave!diffCanvas, Autosave!Request, Autosave!NodeRequest
<1>14. SavingAt(k + 1)'
  <2>1. \A j : Batch(save.desired, j)' = Batch(d, j)
    BY <1>12, <1>13
  <2>2. IsGraph(save.desired)'
    BY <1>7, <1>12 DEF IsGraph, Ended
  <2>3. (save.batches \in Seq({Batch(save.desired, j) : j \in 1..6}))'
    <3>1. {Batch(save.desired, j)' : j \in 1..6} = T
      BY <2>1 DEF T
    <3> QED BY <3>1, <1>10, <1>12
  <2>4. (\A j \in 1..(6 - (k + 1)) : save.batches[j] = Batch(save.desired, (k + 1) + j))'
    BY <2>1, <1>10, <1>12
  <2>5. (Len(save.batches) = 6 - (k + 1))'
    BY <1>10, <1>12
  <2>6. (save.wait \subseteq Batch(save.desired, k + 1))'
    BY <2>1, <1>12
  <2>7. Between(baseline, save.desired, k + 1, save.wait, server, stray)'
    BY <1>2, <1>11, <1>12, <1>b
  <2>8. (Autosave!MatchesBut(baseline, stray \cup Autosave!Sent))'
    <3>1. Autosave!Sent = {o.id : o \in UNION {Batch(d, j) : j \in 1..k}}
      BY <1>5, <1>6, <1>7 DEF Autosave!Sent, Batch
    <3>2. Autosave!Sent' = {o.id : o \in UNION {Batch(d, j) : j \in 1..(k + 1)}}
      <4>1. 6 - Len(save'.batches) = k + 1
        BY <1>8, <1>10, <1>12
      <4>2. Autosave!Sent' = {o.id : o \in UNION {Batch(d, j)' : j \in 1..(6 - Len(save'.batches))}}
        BY <1>12 DEF Autosave!Sent, Batch
      <4> QED BY <4>1, <4>2, <1>13
    <3>3. 1..k \subseteq 1..(k + 1)
      BY <1>8
    <3>4. Autosave!Sent \subseteq Autosave!Sent'
      BY <3>1, <3>2, <3>3
    <3>5. Autosave!MatchesBut(baseline, stray \cup Autosave!Sent')
      BY <1>7, <3>4, MatchesLess
    <3> QED BY <3>5, <1>2, <1>b DEF Autosave!MatchesBut
  <2> QED BY <2>2, <2>3, <2>4, <2>5, <2>6, <2>7, <2>8, <1>12 DEF SavingAt
<1>15. FlightInv'
  <2>1. \A o \in Batch(d, k + 1) : o.kind \in Kinds
    BY <1>8, BatchKinds DEF Batch
  <2>2. \A o \in DOMAIN flight : o.kind \in Kinds /\ o.id \in stray
    BY <1>1, <1>2 DEF FlightInv
  <2>3. flight' = Autosave!Sending(Batch(d, k + 1))
    BY <1>2, <1>6, <1>9
  <2> QED BY <2>1, <2>2, <2>3, <1>12, <1>b, FlightGrows
<1>16. k + 1 \in 1..6
  BY <1>8
<1> QED BY <1>3, <1>12, <1>14, <1>15, <1>16 DEF AutosaveInv, SaveInv

\* With the last answer of the last batch the snapshot is stored, and becomes the
\* baseline.
LEMMA SaveEnds ==
    ASSUME AutosaveInv, Autosave!SaveDone, StrayStep
    PROVE  AutosaveInv' /\ Autosave!MatchesBut(save.desired, stray)
<1>1. /\ IsGraph(canvas) /\ IsGraph(baseline) /\ ServerTyped /\ QueueInv /\ loading = <<>>
      /\ FlightInv
  BY DEF AutosaveInv
<1>2. /\ save.active /\ save.wait = {} /\ save.batches = <<>>
      /\ baseline' = save.desired /\ save' = Autosave!NoSave
      /\ UNCHANGED <<canvas, server, queue, flight, loading>>
  BY DEF Autosave!SaveDone, Autosave!Stored
<1>b. UNCHANGED stray
  BY NothingStrays DEF Autosave!SaveDone
<1>3. PICK k \in 1..6 : SavingAt(k)
  BY <1>2 DEF AutosaveInv, SaveInv, Autosave!NoSave
<1>4. PICK d : d = save.desired
  OBVIOUS
<1>5. IsGraph(d) /\ k = 6 /\ Between(baseline, d, k, {}, server, stray)
  BY <1>2, <1>3, <1>4 DEF SavingAt
<1>6. Autosave!MatchesBut(d, stray)
  BY <1>1, <1>5, BetweenEnds
<1>7. (Autosave!MatchesBut(baseline, stray))'
  BY <1>2, <1>4, <1>6, <1>b DEF Autosave!MatchesBut
<1>8. IsGraph(canvas)' /\ IsGraph(baseline)' /\ ServerTyped' /\ QueueInv' /\ (loading = <<>>)'
  BY <1>1, <1>2, <1>4, <1>5, QueueStays DEF IsGraph, Ended, ServerTyped
<1>9. FlightInv'
  BY <1>1, <1>2, <1>b DEF FlightInv
<1> QED BY <1>2, <1>4, <1>6, <1>7, <1>8, <1>9 DEF AutosaveInv, SaveInv, Autosave!NoSave

\* A request that is no longer waited for changes what no longer counts.
LEMMA StrayIsHandled ==
    ASSUME AutosaveInv, NEW o \in DOMAIN flight, Autosave!Handle(o, FALSE), StrayStep
    PROVE  AutosaveInv'
<1>1. /\ IsGraph(canvas) /\ IsGraph(baseline) /\ ServerTyped /\ QueueInv /\ loading = <<>>
      /\ FlightInv /\ SaveInv
  BY DEF AutosaveInv
<1>2. /\ flight[o] > (IF Autosave!Awaited(o) THEN 1 ELSE 0)
      /\ flight' = [r \in {r \in DOMAIN flight : r # o \/ flight[r] > 1} |-> IF r = o THEN flight[r] - 1 ELSE flight[r]]
      /\ server' = (IF Autosave!Accepts(o) THEN Autosave!After(o) ELSE server)
      /\ UNCHANGED <<canvas, baseline, queue, loading, save, answer>>
  BY DEF Autosave!Handle, Autosave!Arrives
<1>3. UNCHANGED stray
  BY <1>2, NothingStrays
<1>4. o.kind \in Kinds /\ o.id \in stray
  BY <1>1, <1>2 DEF FlightInv, Autosave!Awaited
<1>5. Same(server, server', stray)
  <2>1. Same(server, server, stray)
    BY DEF Same
  <2> QED BY <1>1, <1>2, <1>4, <2>1, Elsewhere
<1>6. ServerTyped'
  <2>1. CASE Autosave!Accepts(o)
    BY <1>1, <1>2, <1>4, <2>1, StaysTyped
  <2>2. CASE ~Autosave!Accepts(o)
    BY <1>1, <1>2, <2>2 DEF ServerTyped
  <2> QED BY <2>1, <2>2
<1>7. SaveInv'
  <2>1. CASE save = Autosave!NoSave /\ Autosave!MatchesBut(baseline, stray)
    <3>1. Autosave!MatchesBut(baseline, stray)'
      BY <1>2, <1>3, <1>5, <2>1, MatchedStill
    <3> QED BY <1>2, <2>1, <3>1 DEF SaveInv, Autosave!NoSave
  <2>2. ASSUME NEW k \in 1..6, SavingAt(k) PROVE SavingAt(k)'
    <3>1. PICK w : w = save.wait
      OBVIOUS
    <3>2. Between(baseline, save.desired, k, save.wait, server', stray)
      BY <1>5, <2>2, SameBetween DEF SavingAt
    <3>3. Same(server, server', stray \cup Autosave!Sent)
      BY <1>5 DEF Same, Apart
    <3>5. save.active /\ DOMAIN save = {"active", "desired", "batches", "wait"}
      BY <2>2 DEF SavingAt
    <3> QED BY <1>2, <1>3, <2>2, <3>1, <3>2, <3>3, <3>5, SavingStill
  <2> QED BY <1>1, <2>1, <2>2 DEF SaveInv
<1>8. FlightInv'
  BY <1>1, <1>2, <1>3 DEF FlightInv
<1>9. IsGraph(canvas)' /\ IsGraph(baseline)' /\ QueueInv' /\ (loading = <<>>)'
  BY <1>1, <1>2, QueueStays DEF IsGraph, Ended
<1> QED BY <1>6, <1>7, <1>8, <1>9 DEF AutosaveInv

\* The server handles a request of the batch that is on its way, or refuses it and the
\* save fails.
LEMMA SaveIsHandled ==
    ASSUME AutosaveInv, NEW o \in DOMAIN flight, Autosave!Handle(o, TRUE), StrayStep
    PROVE  AutosaveInv'
<1>1. /\ IsGraph(canvas) /\ IsGraph(baseline) /\ ServerTyped /\ QueueInv /\ loading = <<>>
      /\ FlightInv /\ SaveInv
  BY DEF AutosaveInv
<1>2. /\ save.active /\ o \in save.wait
      /\ flight' = [r \in {r \in DOMAIN flight : r # o \/ flight[r] > 1} |-> IF r = o THEN flight[r] - 1 ELSE flight[r]]
      /\ UNCHANGED <<canvas, baseline, queue, loading>>
  BY DEF Autosave!Handle, Autosave!Arrives, Autosave!Awaited
<1>3. PICK k \in 1..6 : SavingAt(k)
  BY <1>1, <1>2 DEF SaveInv, Autosave!NoSave
<1>4. PICK d : d = save.desired
  OBVIOUS
<1>5. PICK w : w = save.wait
  OBVIOUS
<1>6. /\ DOMAIN save = {"active", "desired", "batches", "wait"} /\ IsGraph(d)
      /\ w \subseteq Batch(d, k) /\ Between(baseline, d, k, w, server, stray)
      /\ Len(save.batches) = 6 - k
  BY <1>3, <1>4, <1>5 DEF SavingAt
<1>7. \A r \in w : r.id \in Autosave!Sent
  BY <1>4, <1>6 DEF Autosave!Sent, Batch
<1>8. o.kind \in Kinds
  BY <1>1 DEF FlightInv
<1>9. IsGraph(canvas)' /\ IsGraph(baseline)' /\ QueueInv' /\ (loading = <<>>)'
  BY <1>1, <1>2, QueueStays DEF IsGraph, Ended
<1>10. CASE Autosave!Accepts(o)
  <2>1. server' = Autosave!After(o) /\ save' = [save EXCEPT !.wait = @ \ {o}]
    BY <1>10 DEF Autosave!Handle, Autosave!Answered
  <2>2. /\ save'.active /\ save'.desired = save.desired /\ save'.batches = save.batches /\ save'.wait = w \ {o}
        /\ DOMAIN save' = {"active", "desired", "batches", "wait"}
    BY <1>2, <1>5, <1>6, <2>1
  <2>3. UNCHANGED stray
    BY <2>2, NothingStrays
  <2>4. Between(baseline, d, k, w \ {o}, server', stray)
    BY <1>1, <1>2, <1>5, <1>6, <2>1, HandledBetween DEF Batch
  <2>5. Same(server, server', stray \cup Autosave!Sent)
    BY <1>1, <1>2, <1>5, <1>7, <1>8, <2>1, Elsewhere
  <2>6. SavingAt(k)'
    BY <1>2, <1>3, <1>4, <1>5, <2>2, <2>3, <2>4, <2>5, SavingStill
  <2>7. FlightInv'
    BY <1>1, <1>2, <1>5, <2>2, <2>3 DEF FlightInv
  <2>8. ServerTyped'
    BY <1>1, <1>8, <2>1, StaysTyped
  <2> QED BY <1>9, <2>6, <2>7, <2>8 DEF AutosaveInv, SaveInv
<1>11. CASE ~Autosave!Accepts(o)
  <2>1. server' = server /\ save' = Autosave!NoSave /\ answer' = "failed"
    BY <1>11 DEF Autosave!Handle, Autosave!Answered
  <2>2. stray' = stray \cup Autosave!Sent
    BY <1>2, <2>1 DEF StrayStep, Autosave!SaveFails, Autosave!NoSave
  <2>3. (Autosave!MatchesBut(baseline, stray))'
    <3>1. Autosave!MatchesBut(baseline, stray \cup Autosave!Sent)
      BY <1>3 DEF SavingAt
    <3> QED BY <3>1, <1>2, <2>1, <2>2 DEF Autosave!MatchesBut
  <2>4. FlightInv'
    BY <1>1, <1>2, <1>5, <1>7, <2>2 DEF FlightInv
  <2>5. ServerTyped'
    BY <1>1, <2>1 DEF ServerTyped
  <2> QED BY <1>9, <2>1, <2>3, <2>4, <2>5 DEF AutosaveInv, SaveInv, Autosave!NoSave
<1> QED BY <1>10, <1>11

\* Edits, timers, saves and the server keep the invariant; without lost requests and reloads,
\* nothing else happens.
LEMMA AutosaveStep ==
    EditorAssumption /\ AutosaveInv /\ [Autosave!Next]_autosaveVars /\ StrayStep => AutosaveInv'
<1> SUFFICES ASSUME EditorAssumption, AutosaveInv, [Autosave!Next]_autosaveVars, StrayStep PROVE AutosaveInv'
  OBVIOUS
<1>1. /\ IsGraph(canvas) /\ IsGraph(baseline) /\ ServerTyped /\ QueueInv /\ loading = <<>>
      /\ FlightInv /\ SaveInv
  BY DEF AutosaveInv
<1>2. ASSUME IsGraph(canvas)', QueueInv', UNCHANGED <<baseline, server, save, flight, loading>> PROVE AutosaveInv'
  <2>0. UNCHANGED stray
    BY <1>2, NothingStrays
  <2>3. FlightInv'
    BY <1>1, <1>2, <2>0 DEF FlightInv
  <2>1. SaveInv'
    BY <1>1, <1>2, <2>0, SaveStays
  <2>2. IsGraph(baseline)' /\ ServerTyped'
    BY <1>1, <1>2 DEF IsGraph, Ended, ServerTyped
  <2> QED BY <1>1, <1>2, <2>1, <2>2, <2>3 DEF AutosaveInv
<1>3. CASE Autosave!Editing
  <2>1. IsGraph(canvas)' /\ UNCHANGED <<baseline, server, queue, save, flight, loading>>
    BY <1>1, <1>3, EditsKeepGraph DEF IsGraph, Ended
  <2> QED BY <1>1, <1>2, <2>1, QueueStays
<1>4. CASE Autosave!Debounce \/ Autosave!Flush
  <2>1. queue' = Append(queue, canvas) /\ UNCHANGED <<canvas, baseline, server, save, flight, loading>>
    BY <1>4 DEF Autosave!Debounce, Autosave!Flush, Autosave!Enqueue
  <2>2. QueueInv' /\ IsGraph(canvas)'
    BY <1>1, <2>1, QueueGrows DEF IsGraph, Ended
  <2> QED BY <1>2, <2>1, <2>2
<1>5. CASE Autosave!Saving
  BY <1>5, SaveBegins, SaveGoesOn, SaveEnds DEF Autosave!Saving
<1>6. CASE Autosave!Handling
  <2>1. PICK o \in DOMAIN flight, asks \in BOOLEAN : Autosave!Handle(o, asks)
    BY <1>6 DEF Autosave!Handling
  <2>2. CASE asks
    BY <2>1, <2>2, SaveIsHandled
  <2>3. CASE ~asks
    BY <2>1, <2>3, StrayIsHandled
  <2> QED BY <2>1, <2>2, <2>3
<1>7. ~Autosave!Losing /\ ~Autosave!ReloadRead /\ ~Autosave!ReloadShow
  BY <1>1 DEF Autosave!Losing, Autosave!Lose, Autosave!ReloadRead, Autosave!ReloadShow
<1>8. CASE UNCHANGED autosaveVars
  BY <1>1, <1>2, <1>8, QueueStays DEF autosaveVars, IsGraph, Ended
<1> QED BY <1>3, <1>4, <1>5, <1>6, <1>7, <1>8 DEF Autosave!Next

\* When a call of persistCanvas answers that a snapshot is saved, the server holds
\* exactly that snapshot, whatever was edited and queued meanwhile; a node or edge
\* that a save had sent before it failed is left out of the claim, and all the rest is
\* as shown.
THEOREM SavedAlwaysStored == EditorSpec => SavedMeansStored
<1> USE EditorAssumption
<1>1. EditorInit => AutosaveInv
  <2> SUFFICES ASSUME EditorInit PROVE AutosaveInv
    OBVIOUS
  <2>1. /\ canvas = Autosave!FirstCanvas /\ baseline = Autosave!FirstCanvas /\ server = Autosave!FirstCanvas
        /\ queue = <<>> /\ save = Autosave!NoSave /\ flight = <<>> /\ loading = <<>>
    BY DEF EditorInit, Autosave!Init
  <2>2. IsGraph(Autosave!FirstCanvas)
    BY DEF IsGraph, Autosave!FirstCanvas, EditorAssumption, Autosave!AutosaveAssumption
  <2>3. ServerTyped
    BY <2>1 DEF ServerTyped, Autosave!FirstCanvas
  <2>4. Autosave!MatchesBut(baseline, stray)
    BY <2>1 DEF Autosave!MatchesBut
  <2>5. QueueInv
    BY <2>1 DEF QueueInv, Queued
  <2>6. FlightInv
    <3>1. DOMAIN flight = {}
      BY <2>1
    <3> QED BY <3>1 DEF FlightInv
  <2> QED BY <2>1, <2>2, <2>3, <2>4, <2>5, <2>6 DEF AutosaveInv, SaveInv, Autosave!NoSave
<1>2. [EditorNext]_editorVars => [Autosave!Next]_autosaveVars /\ StrayStep
  BY DEF EditorNext, editorVars, StrayStep, Autosave!SaveFails, autosaveVars
<1>3. AutosaveInv /\ [EditorNext]_editorVars => AutosaveInv'
  BY <1>2, AutosaveStep
<1>4. AutosaveInv /\ [EditorNext]_editorVars =>
          [/\ Autosave!SaveStart /\ ~save'.active => Autosave!MatchesBut(Head(queue), stray)
           /\ Autosave!SaveDone => Autosave!MatchesBut(save.desired, stray)]_autosaveVars
  BY <1>2, SaveBegins, SaveEnds
<1> HIDE DEF AutosaveInv
<1>5. EditorSpec => [][/\ Autosave!SaveStart /\ ~save'.active => Autosave!MatchesBut(Head(queue), stray)
                       /\ Autosave!SaveDone => Autosave!MatchesBut(save.desired, stray)]_autosaveVars
  BY <1>1, <1>3, <1>4, PTL DEF EditorSpec
<1> QED BY <1>5 DEF SavedMeansStored

-----------------------------------------------------------------------------
(* The panel of a bucket.                                                   *)

\* A listing whose answer counts was sent for the folder that the panel is in, and
\* brings the page that comes next; while a folder is entered none counts.
PanelInv ==
    /\ requestId \in Nat
    /\ objects = [prefix |-> objects.prefix, pages |-> objects.pages] /\ objects.pages \in Seq(Nat)
    /\ \A i \in DOMAIN objects.pages : objects.pages[i] = i
    /\ upload \subseteq {prefix} /\ (effect => upload = {})
    /\ ~effect => objects.prefix = prefix
    /\ \A l \in listings : l.id \in Nat /\ l.id <= requestId
    /\ \A l, m \in listings : l.id = m.id => l = m
    /\ \A l \in listings : l.id = requestId =>
           ~effect /\ l.prefix = prefix /\ l.page = Len(objects.pages) + 1

\* A listing that is sent is the only one whose answer counts.
LEMMA PanelLoads ==
    ASSUME PanelInv, NEW page \in Nat, Panel!Load(prefix, page), prefix' = prefix, ~effect', upload' \subseteq {prefix},
           page = 1 \/ (~effect /\ page = Len(objects.pages) + 1)
    PROVE  PanelInv'
<1> DEFINE new == [id |-> requestId + 1, prefix |-> prefix, page |-> page]
<1>1. /\ requestId' = requestId + 1 /\ listings' = listings \cup {new}
      /\ objects' = IF page = 1 THEN [prefix |-> prefix, pages |-> <<>>] ELSE objects
  BY DEF Panel!Load
<1>2. new.id = requestId + 1 /\ new.prefix = prefix /\ new.page = page
  OBVIOUS
<1> HIDE DEF new
<1>3. /\ objects' = [prefix |-> objects'.prefix, pages |-> objects'.pages] /\ objects'.pages \in Seq(Nat)
      /\ \A i \in DOMAIN objects'.pages : objects'.pages[i] = i
      /\ objects'.prefix = prefix /\ page = Len(objects'.pages) + 1
  BY <1>1 DEF PanelInv
<1>4. \A l \in listings : l.id <= requestId /\ l.id \in Nat
  BY DEF PanelInv
<1> QED BY <1>1, <1>2, <1>3, <1>4 DEF PanelInv

\* What the user does and what the server answers keep the invariant.
LEMMA PanelStep == PanelInv /\ [Panel!Next]_panelVars => PanelInv'
<1> SUFFICES ASSUME PanelInv, [Panel!Next]_panelVars PROVE PanelInv'
  OBVIOUS
<1>1. ASSUME NEW p \in Prefix, Panel!Enter(p) PROVE PanelInv'
  BY <1>1 DEF Panel!Enter, PanelInv
<1>2. CASE Panel!Effect
  <2>1. effect /\ ~effect' /\ Panel!Load(prefix, 1) /\ UNCHANGED <<prefix, upload>>
    BY <1>2 DEF Panel!Effect
  <2> QED BY <2>1, PanelLoads DEF PanelInv
<1>3. CASE Panel!Refresh
  <2>1. ~effect /\ Panel!Load(prefix, 1) /\ UNCHANGED <<prefix, effect, upload>>
    BY <1>3 DEF Panel!Refresh, Panel!MayAct
  <2> QED BY <2>1, PanelLoads DEF PanelInv
<1>4. CASE Panel!More
  <2>1. ~effect /\ Panel!Load(prefix, Panel!Last(objects.pages) + 1) /\ objects.pages # <<>> /\ UNCHANGED <<prefix, effect, upload>>
    BY <1>4 DEF Panel!More, Panel!MayAct
  <2>2. Panel!Last(objects.pages) = Len(objects.pages) /\ Len(objects.pages) \in Nat
    BY <2>1 DEF PanelInv, Panel!Last
  <2> QED BY <2>1, <2>2, PanelLoads DEF PanelInv
<1>5. CASE Panel!Upload
  BY <1>5 DEF Panel!Upload, Panel!MayAct, PanelInv
<1>6. CASE Panel!Uploaded
  <2>1. upload = {prefix} /\ upload' = {} /\ Panel!Load(prefix, 1) /\ UNCHANGED <<prefix, effect>>
    BY <1>6 DEF Panel!Uploaded, PanelInv
  <2> QED BY <2>1, PanelLoads DEF PanelInv
<1>7. ASSUME NEW l \in listings, Panel!Fail(l) \/ (Panel!Answer(l) /\ ~Panel!Latest(l)) PROVE PanelInv'
  <2>1. listings' = listings \ {l} /\ UNCHANGED <<prefix, effect, requestId, objects, upload>>
    BY <1>7 DEF Panel!Fail, Panel!Answer
  <2> QED BY <2>1 DEF PanelInv
<1>8. ASSUME NEW l \in listings, Panel!Answer(l), Panel!Latest(l) PROVE PanelInv'
  <2>1. /\ listings' = listings \ {l} /\ UNCHANGED <<prefix, effect, requestId, upload>>
        /\ objects' = IF l.page = 1 THEN [prefix |-> l.prefix, pages |-> <<1>>]
                      ELSE [objects EXCEPT !.pages = Append(@, l.page)]
    BY <1>8 DEF Panel!Answer
  <2>2. l.id = requestId /\ ~effect /\ l.prefix = prefix /\ l.page = Len(objects.pages) + 1
    BY <1>8 DEF Panel!Latest, PanelInv
  <2>3. \A m \in listings' : m.id # requestId
    BY <2>1, <2>2 DEF PanelInv
  <2>4. /\ objects' = [prefix |-> objects'.prefix, pages |-> objects'.pages] /\ objects'.pages \in Seq(Nat)
        /\ \A i \in DOMAIN objects'.pages : objects'.pages[i] = i
        /\ objects'.prefix = prefix
    <3>1. CASE l.page = 1
      BY <2>1, <2>2, <3>1
    <3>2. CASE l.page # 1
      <4> DEFINE s == objects.pages
      <4>1. s \in Seq(Nat) /\ Len(s) \in Nat /\ DOMAIN s = 1..Len(s) /\ \A i \in 1..Len(s) : s[i] = i
        BY DEF PanelInv
      <4> HIDE DEF s
      <4>2. /\ Append(s, l.page) \in Seq(Nat) /\ DOMAIN Append(s, l.page) = 1..(Len(s) + 1)
            /\ \A i \in 1..(Len(s) + 1) : Append(s, l.page)[i] = IF i = Len(s) + 1 THEN l.page ELSE s[i]
        BY <2>2, <4>1 DEF s
      <4>3. \A i \in DOMAIN Append(s, l.page) : Append(s, l.page)[i] = i
        BY <2>2, <4>1, <4>2 DEF s
      <4>4. objects' = [prefix |-> prefix, pages |-> Append(s, l.page)]
        BY <2>1, <2>2, <3>2 DEF s, PanelInv
      <4> QED BY <4>2, <4>3, <4>4
    <3> QED BY <3>1, <3>2
  <2> QED BY <2>1, <2>2, <2>3, <2>4 DEF PanelInv
<1>9. CASE UNCHANGED panelVars
  BY <1>9 DEF panelVars, PanelInv
<1> QED BY <1>1, <1>2, <1>3, <1>4, <1>5, <1>6, <1>7, <1>8, <1>9 DEF Panel!Next

\* Whatever is entered, refreshed, read on and uploaded while answers are awaited,
\* the panel shows pages of its folder, none missing or repeated
\* (BucketObjectsPanel).
THEOREM PanelShowsItsFolder == EditorSpec => []ShowsItsFolder
<1>1. EditorInit => PanelInv
  BY DEF EditorInit, Panel!Init, PanelInv
<1>2. PanelInv /\ [EditorNext]_editorVars => PanelInv'
  <2>1. [EditorNext]_editorVars => [Panel!Next]_panelVars
    BY DEF EditorNext, editorVars
  <2> QED BY <2>1, PanelStep
<1>3. PanelInv => ShowsItsFolder
  BY DEF PanelInv, ShowsItsFolder, Panel!ShowsItsFolder
<1> QED BY <1>1, <1>2, <1>3, PTL DEF EditorSpec

-----------------------------------------------------------------------------
(* Sums over finite sets.                                                   *)

\* Of the sets in a family over a finite set, one has no smaller one in it.
LEMMA LeastSet ==
    ASSUME NEW S, IsFiniteSet(S), NEW B, B \subseteq SUBSET S, B # {}
    PROVE  \E s \in B : \A t \in SUBSET s : t # s => t \notin B
<1>1. IsWellFoundedOn(StrictSubsetOrdering(S), SUBSET S)
  BY FS_StrictSubsetOrderingWellFounded, FS_FiniteSubsetsOfFinite
<1>2. PICK s \in B : \A t \in B : ~(<<t, s>> \in StrictSubsetOrdering(S))
  BY <1>1, WFMin
<1> QED BY <1>2 DEF StrictSubsetOrdering

\* The element a sum begins with.
One(s) == CHOOSE x \in s : TRUE

\* g gives for every subset of S the sum of f over it, as MapThenSumSet computes it.
SumsUp(S, f, g) ==
    g = [s \in SUBSET S |-> IF s = {} THEN 0 ELSE f[One(s)] + g[s \ {One(s)}]]

\* That equation, set by set.
SumsAt(S, f, g) ==
    /\ g[{}] = 0
    /\ \A s \in SUBSET S : s # {} => One(s) \in s /\ g[s] = f[One(s)] + g[s \ {One(s)}]

\* A solution satisfies it at every set.
LEMMA SumsUpEquation ==
    ASSUME NEW S, NEW f, NEW g, SumsUp(S, f, g)
    PROVE  SumsAt(S, f, g)
<1>1. \A s \in SUBSET S : g[s] = IF s = {} THEN 0 ELSE f[One(s)] + g[s \ {One(s)}]
  BY DEF SumsUp
<1>2. \A s : s # {} => One(s) \in s
  BY DEF One
<1> QED BY <1>1, <1>2 DEF SumsAt

\* Sums of natural numbers are natural numbers.
LEMMA SumsUpType ==
    ASSUME NEW S, IsFiniteSet(S), NEW f, NEW g, SumsUp(S, f, g), \A x \in S : f[x] \in Nat
    PROVE  \A s \in SUBSET S : g[s] \in Nat
<1> DEFINE B == {s \in SUBSET S : g[s] \notin Nat}
<1>a. g[{}] = 0 /\ \A s \in SUBSET S : s # {} => One(s) \in s /\ g[s] = f[One(s)] + g[s \ {One(s)}]
  <2>1. SumsAt(S, f, g)
    BY SumsUpEquation
  <2> QED BY <2>1 DEF SumsAt
<1>b. B \subseteq SUBSET S /\ \A s \in SUBSET S : s \in B <=> g[s] \notin Nat
  OBVIOUS
<1> HIDE DEF B
<1>1. ASSUME B # {} PROVE FALSE
  <2>1. PICK s \in B : \A t \in SUBSET s : t # s => t \notin B
    BY <1>1, <1>b, LeastSet
  <2>2. s # {}
    <3>1. g[{}] \in Nat
      BY <1>a
    <3> QED BY <2>1, <3>1, <1>b
  <2>3. One(s) \in s /\ g[s] = f[One(s)] + g[s \ {One(s)}]
    BY <2>1, <2>2, <1>a, <1>b
  <2>4. g[s \ {One(s)}] \in Nat
    BY <2>1, <2>3, <1>b
  <2> QED BY <2>1, <2>3, <2>4, <1>b
<1> QED BY <1>1, <1>b

\* There is no other such function, and the sum over a set does not depend on what
\* else there is.
LEMMA SumsUpUnique ==
    ASSUME NEW S, NEW T, T \subseteq S, IsFiniteSet(T), NEW f, NEW g, NEW h,
           SumsUp(S, f, g), SumsUp(T, f, h)
    PROVE  \A s \in SUBSET T : g[s] = h[s]
<1> DEFINE B == {s \in SUBSET T : g[s] # h[s]}
<1>a. g[{}] = 0 /\ \A s \in SUBSET S : s # {} => One(s) \in s /\ g[s] = f[One(s)] + g[s \ {One(s)}]
  <2>1. SumsAt(S, f, g)
    BY SumsUpEquation
  <2> QED BY <2>1 DEF SumsAt
<1>b. h[{}] = 0 /\ \A s \in SUBSET T : s # {} => One(s) \in s /\ h[s] = f[One(s)] + h[s \ {One(s)}]
  <2>1. SumsAt(T, f, h)
    BY SumsUpEquation
  <2> QED BY <2>1 DEF SumsAt
<1>c. B \subseteq SUBSET T /\ \A s \in SUBSET T : s \in B <=> g[s] # h[s]
  OBVIOUS
<1> HIDE DEF B
<1>1. ASSUME B # {} PROVE FALSE
  <2>1. PICK s \in B : \A t \in SUBSET s : t # s => t \notin B
    BY <1>1, <1>c, LeastSet
  <2>2. g[{}] = 0 /\ h[{}] = 0
    BY <1>a, <1>b
  <2>3. s # {} /\ s \in SUBSET T /\ s \in SUBSET S
    BY <2>1, <2>2, <1>c
  <2>4. One(s) \in s /\ g[s] = f[One(s)] + g[s \ {One(s)}]
    BY <2>3, <1>a
  <2>5. h[s] = f[One(s)] + h[s \ {One(s)}]
    BY <2>3, <1>b
  <2>6. g[s \ {One(s)}] = h[s \ {One(s)}]
    BY <2>1, <2>3, <2>4, <1>c
  <2> QED BY <2>1, <2>4, <2>5, <2>6, <1>c
<1> QED BY <1>1, <1>c

\* There is one: the equation is solved for larger and larger sets.
LEMMA SumsUpExists ==
    ASSUME NEW S, IsFiniteSet(S), NEW f
    PROVE  \E g : SumsUp(S, f, g)
<1> DEFINE Fails(T) == ~\E g : SumsUp(T, f, g)
           B == {T \in SUBSET S : Fails(T)}
           Of(T) == CHOOSE g : SumsUp(T, f, g)
<1>b. B \subseteq SUBSET S /\ \A T \in SUBSET S : T \notin B => SumsUp(T, f, Of(T))
  OBVIOUS
<1>c. \A T \in B : \A g : ~SumsUp(T, f, g)
  OBVIOUS
<1> HIDE DEF B, Of
<1>1. ASSUME B # {} PROVE FALSE
  <2>1. PICK T \in B : \A t \in SUBSET T : t # T => t \notin B
    BY <1>1, <1>b, LeastSet
  <2>2. \A t \in SUBSET T : t # T => SumsUp(t, f, Of(t))
    BY <2>1, <1>b
  <2>3. IsFiniteSet(T) /\ \A t \in SUBSET T : IsFiniteSet(t)
    BY <2>1, <1>b, FS_Subset
  <2> DEFINE V(t) == Of(t)[t]
             g == [t \in SUBSET T |-> IF t = {} THEN 0 ELSE
                                      IF t = T THEN f[One(T)] + V(T \ {One(T)}) ELSE V(t)]
  <2>4. \A t \in SUBSET T : t # {} => One(t) \in t /\ t \ {One(t)} \in SUBSET T /\ t \ {One(t)} # T
    BY DEF One
  <2>5. \A t \in SUBSET T : t # {} /\ t # T => V(t) = f[One(t)] + V(t \ {One(t)})
    <3> SUFFICES ASSUME NEW t \in SUBSET T, t # {}, t # T PROVE V(t) = f[One(t)] + V(t \ {One(t)})
      OBVIOUS
    <3>1. SumsUp(t, f, Of(t))
      BY <2>2
    <3>2. V(t) = f[One(t)] + Of(t)[t \ {One(t)}]
      BY <3>1, SumsUpEquation DEF SumsAt
    <3>3. SumsUp(t \ {One(t)}, f, Of(t \ {One(t)}))
      BY <2>2, <2>4
    <3>4. Of(t)[t \ {One(t)}] = V(t \ {One(t)})
      <4>1. PICK u : u = t \ {One(t)}
        OBVIOUS
      <4>2. u \subseteq t /\ IsFiniteSet(u) /\ SumsUp(u, f, Of(u))
        BY <4>1, <3>3, <2>3, <2>4
      <4>3. \A s \in SUBSET u : Of(t)[s] = Of(u)[s]
        BY <4>2, <3>1, SumsUpUnique
      <4> QED BY <4>1, <4>3
    <3> QED BY <3>2, <3>4
  <2>6. T # {} => V({}) = 0
    <3>1. T # {} => SumsUp({}, f, Of({}))
      BY <2>2
    <3> QED BY <3>1, SumsUpEquation DEF SumsAt
  <2> HIDE DEF V
  <2>7. \A t \in SUBSET T : t # T => (g[t] = V(t))
    BY <2>6
  <2>8. \A t \in SUBSET T : g[t] = IF t = {} THEN 0 ELSE f[One(t)] + g[t \ {One(t)}]
    BY <2>4, <2>5, <2>7
  <2>9. SumsUp(T, f, g)
    <3>1. DOMAIN g = SUBSET T /\ g = [t \in SUBSET T |-> g[t]]
      OBVIOUS
    <3> HIDE DEF g
    <3> QED BY <2>8, <3>1 DEF SumsUp
  <2> QED BY <2>1, <2>9, <1>c
<1>2. S \in SUBSET S
  OBVIOUS
<1> QED BY <1>1, <1>2, <1>b

\* Any element may be taken off first.
LEMMA SumsUpRemove ==
    ASSUME NEW S, IsFiniteSet(S), NEW f, NEW g, SumsUp(S, f, g), \A x \in S : f[x] \in Nat,
           NEW u \in SUBSET S, NEW y \in u
    PROVE  g[u] = f[y] + g[u \ {y}]
<1> DEFINE B == {s \in SUBSET S : \E x \in s : g[s] # f[x] + g[s \ {x}]}
<1>0. \A s \in SUBSET S : g[s] \in Nat
  BY SumsUpType
<1>a. \A s \in SUBSET S : s # {} => One(s) \in s /\ g[s] = f[One(s)] + g[s \ {One(s)}]
  <2>1. SumsAt(S, f, g)
    BY SumsUpEquation
  <2> QED BY <2>1 DEF SumsAt
<1>b. B \subseteq SUBSET S /\ \A s \in SUBSET S : s \in B <=> \E x \in s : g[s] # f[x] + g[s \ {x}]
  OBVIOUS
<1> HIDE DEF B
<1>1. ASSUME B # {} PROVE FALSE
  <2>1. PICK s \in B : \A t \in SUBSET s : t # s => t \notin B
    BY <1>1, <1>b, LeastSet
  <2>2. PICK x \in s : g[s] # f[x] + g[s \ {x}]
    BY <2>1, <1>b
  <2>3. PICK c : c = One(s)
    OBVIOUS
  <2>4. c \in s /\ g[s] = f[c] + g[s \ {c}]
    BY <2>1, <2>2, <2>3, <1>a, <1>b
  <2>5. c # x
    BY <2>2, <2>4
  <2>a. \A d \in s : s \ {d} \in SUBSET S /\ s \ {d} \notin B
    BY <2>1, <1>b
  <2>b. x \in s \ {c} /\ c \in s \ {x}
    BY <2>2, <2>4, <2>5
  <2>6. g[s \ {c}] = f[x] + g[(s \ {c}) \ {x}]
    BY <2>4, <2>a, <2>b, <1>b
  <2>7. g[s \ {x}] = f[c] + g[(s \ {x}) \ {c}]
    BY <2>2, <2>a, <2>b, <1>b
  <2>8. (s \ {c}) \ {x} = (s \ {x}) \ {c} /\ (s \ {c}) \ {x} \in SUBSET S /\ x \in S /\ c \in S
    BY <2>1, <2>4, <1>b
  <2>9. f[x] \in Nat /\ f[c] \in Nat /\ g[(s \ {c}) \ {x}] \in Nat
    BY <2>8, <1>0
  <2>10. PICK z : z = g[(s \ {c}) \ {x}]
    OBVIOUS
  <2>11. f[c] + (f[x] + z) = f[x] + (f[c] + z)
    BY <2>9, <2>10
  <2>12. g[s] = f[c] + (f[x] + z) /\ g[s \ {x}] = f[c] + z
    BY <2>4, <2>6, <2>7, <2>8, <2>10
  <2> QED BY <2>2, <2>11, <2>12
<1> QED BY <1>1, <1>b

\* Greater summands make a greater sum.
LEMMA SumsUpMonotonic ==
    ASSUME NEW S, NEW T, T \subseteq S, IsFiniteSet(S), NEW f, NEW g, NEW e, NEW h,
           SumsUp(S, f, g), SumsUp(T, e, h),
           \A x \in S : f[x] \in Nat, \A x \in T : e[x] \in Nat /\ e[x] <= f[x]
    PROVE  \A s \in SUBSET T : h[s] <= g[s]
<1> DEFINE B == {s \in SUBSET T : ~(h[s] <= g[s])}
<1>0. IsFiniteSet(T)
  BY FS_Subset
<1>a. /\ \A s \in SUBSET S : g[s] \in Nat
      /\ \A s \in SUBSET T : h[s] \in Nat
  BY <1>0, SumsUpType
<1>b. g[{}] = 0 /\ \A s \in SUBSET S : s # {} => One(s) \in s /\ g[s] = f[One(s)] + g[s \ {One(s)}]
  <2>1. SumsAt(S, f, g)
    BY SumsUpEquation
  <2> QED BY <2>1 DEF SumsAt
<1>c. h[{}] = 0 /\ \A s \in SUBSET T : s # {} => One(s) \in s /\ h[s] = e[One(s)] + h[s \ {One(s)}]
  <2>1. SumsAt(T, e, h)
    BY SumsUpEquation
  <2> QED BY <2>1 DEF SumsAt
<1>d. B \subseteq SUBSET T /\ \A s \in SUBSET T : s \in B <=> ~(h[s] <= g[s])
  OBVIOUS
<1> HIDE DEF B
<1>1. ASSUME B # {} PROVE FALSE
  <2>1. PICK s \in B : \A t \in SUBSET s : t # s => t \notin B
    BY <1>0, <1>1, <1>d, LeastSet
  <2>2. h[{}] <= g[{}]
    BY <1>b, <1>c
  <2>3. s # {} /\ s \in SUBSET T /\ s \in SUBSET S
    BY <2>1, <2>2, <1>d
  <2>4. One(s) \in s /\ g[s] = f[One(s)] + g[s \ {One(s)}]
    BY <2>3, <1>b
  <2>5. h[s] = e[One(s)] + h[s \ {One(s)}]
    BY <2>3, <1>c
  <2>6. h[s \ {One(s)}] <= g[s \ {One(s)}]
    BY <2>1, <2>3, <2>4, <1>d
  <2>7. /\ e[One(s)] <= f[One(s)] /\ e[One(s)] \in Nat /\ f[One(s)] \in Nat
        /\ h[s \ {One(s)}] \in Nat /\ g[s \ {One(s)}] \in Nat
    BY <2>3, <2>4, <1>a
  <2> QED BY <2>1, <2>4, <2>5, <2>6, <2>7, <1>d
<1> QED BY <1>1, <1>d

\* Without one of its elements a set has no greater sum.
LEMMA SumsUpWithout ==
    ASSUME NEW S, IsFiniteSet(S), NEW m \in S, NEW T, T = S \ {m}, NEW f, NEW g, NEW h,
           SumsUp(S, f, g), SumsUp(T, f, h), \A x \in S : f[x] \in Nat
    PROVE  h[T] <= g[S]
<1>1. T \subseteq S /\ IsFiniteSet(T)
  BY FS_Subset
<1>2. S \in SUBSET S /\ g[S] = f[m] + g[S \ {m}]
  BY SumsUpRemove
<1>3. \A s \in SUBSET T : g[s] = h[s]
  BY <1>1, SumsUpUnique
<1>4. \A s \in SUBSET S : g[s] \in Nat
  BY SumsUpType
<1>5. f[m] \in Nat /\ g[T] \in Nat /\ g[T] = h[T]
  BY <1>1, <1>3, <1>4
<1> QED BY <1>2, <1>5
-----------------------------------------------------------------------------
(* The agent's context.                                                     *)

\* What n items of a collection of catalog c take, and all collections together
\* when t gives how many are taken of each.
TakenOf(c, k, n) == (CHOOSE g : SumsUp(1..n, c[k], g))[1..n] + Context!Separators(n)
Parts(c, t) == [k \in Context!Key |-> TakenOf(c, k, t[k])]
IsText(c, t, e) == \E g : SumsUp(Context!Key, Parts(c, t), g) /\ e = Base + g[Context!Key]

\* A catalog, and numbers of items it has.
IsCatalog(c) == \A k \in Context!Key : c[k] \in Seq(Nat)
IsTaking(c, t) == t \in [Context!Key -> Nat] /\ \A k \in Context!Key : t[k] <= Len(c[k])

\* There are finitely many collections.
LEMMA KeysFinite == IsFiniteSet(Context!Key)
<1>1. Collections \in Seq(Context!Key) /\ DOMAIN Collections = 1..Len(Collections)
  BY EditorAssumption DEF Context!ContextAssumption, Context!Key
<1>2. IsFiniteSet(1..Len(Collections))
  BY <1>1, FS_Interval
<1>3. Context!Key = {Collections[i] : i \in 1..Len(Collections)}
  BY <1>1 DEF Context!Key, Context!Range
<1>4. Collections \in Surjection(1..Len(Collections), Context!Key)
  BY <1>1, <1>3 DEF Surjection
<1> QED BY <1>2, <1>4, FS_Surjection

\* One item more makes a collection's text no shorter.
LEMMA TakenMonotonic ==
    ASSUME NEW c, NEW k, c[k] \in Seq(Nat), NEW n \in Nat, n <= Len(c[k])
    PROVE  /\ TakenOf(c, k, n) \in Nat
           /\ n + 1 <= Len(c[k]) => TakenOf(c, k, n) <= TakenOf(c, k, n + 1)
<1> DEFINE G(m) == CHOOSE g : SumsUp(1..m, c[k], g)
<1>1. \A m \in Nat : IsFiniteSet(1..m)
  BY FS_Interval
<1>2. \A m \in Nat : SumsUp(1..m, c[k], G(m))
  BY <1>1, SumsUpExists
<1>3. \A m \in Nat : TakenOf(c, k, m) = G(m)[1..m] + Context!Separators(m)
  BY DEF TakenOf
<1>4. \A m \in Nat : Context!Separators(m) \in Nat /\ Context!Separators(m) <= Context!Separators(m + 1)
  BY DEF Context!Separators
<1> HIDE DEF G
<1>5. Len(c[k]) \in Nat /\ \A i \in 1..Len(c[k]) : c[k][i] \in Nat
  BY ElementOfSeq, LenProperties
<1>6. \A m \in Nat : m <= Len(c[k]) => \A i \in 1..m : c[k][i] \in Nat
  BY <1>5
<1>7. \A m \in Nat : m <= Len(c[k]) => G(m)[1..m] \in Nat
  <2> SUFFICES ASSUME NEW m \in Nat, m <= Len(c[k]) PROVE G(m)[1..m] \in Nat
    OBVIOUS
  <2>1. PICK S : S = 1..m
    OBVIOUS
  <2>2. \A s \in SUBSET S : G(m)[s] \in Nat
    BY <1>1, <1>2, <1>6, <2>1, SumsUpType
  <2> QED BY <2>1, <2>2
<1>8. ASSUME n + 1 <= Len(c[k]) PROVE G(n)[1..n] <= G(n + 1)[1..(n + 1)]
  <2>1. PICK S, T, m, f, g, h : /\ S = 1..m /\ T = 1..n /\ m = n + 1
                                /\ f = c[k] /\ g = G(m) /\ h = G(n)
    OBVIOUS
  <2>2. m \in Nat /\ IsFiniteSet(S) /\ IsFiniteSet(T) /\ T \subseteq S /\ m \in S /\ S \ {m} = T
    BY <1>1, <2>1
  <2>3. SumsUp(S, f, g) /\ SumsUp(T, f, h) /\ (\A i \in S : f[i] \in Nat)
    BY <1>2, <1>6, <1>8, <2>1, <2>2
  <2>5. h[T] <= g[S]
    BY <2>2, <2>3, SumsUpWithout
  <2> QED BY <2>1, <2>5
<1>9. TakenOf(c, k, n) \in Nat
  <2>1. PICK a, z : a = G(n)[1..n] /\ z = Context!Separators(n)
    OBVIOUS
  <2>2. a \in Nat /\ z \in Nat
    BY <1>4, <1>7, <2>1
  <2>3. TakenOf(c, k, n) = a + z
    BY <1>3, <2>1
  <2> QED BY <2>2, <2>3
<1>10. ASSUME n + 1 <= Len(c[k]) PROVE TakenOf(c, k, n) <= TakenOf(c, k, n + 1)
  <2>1. PICK m, a, b, y, z : /\ m = n + 1 /\ a = G(n)[1..n] /\ b = G(m)[1..m]
                             /\ y = Context!Separators(n) /\ z = Context!Separators(m)
    OBVIOUS
  <2>2. m \in Nat /\ m <= Len(c[k]) /\ y \in Nat /\ z \in Nat /\ y <= z
    BY <1>4, <1>10, <2>1
  <2>3. a \in Nat /\ b \in Nat /\ a <= b
    BY <1>7, <1>8, <1>10, <2>1, <2>2
  <2>4. TakenOf(c, k, n) = a + y /\ TakenOf(c, k, m) = b + z
    BY <1>3, <2>1, <2>2
  <2>5. a + y <= b + z
    BY <2>2, <2>3
  <2> QED BY <2>1, <2>4, <2>5
<1> QED BY <1>9, <1>10

\* More items make a longer text.
LEMMA TextMonotonic ==
    ASSUME NEW c, IsCatalog(c), NEW t, NEW u, IsTaking(c, t), IsTaking(c, u),
           \A k \in Context!Key : u[k] = t[k] \/ u[k] = t[k] + 1,
           NEW d, NEW e, IsText(c, t, d), IsText(c, u, e)
    PROVE  d \in Nat /\ e \in Nat /\ d <= e
<1>1. PICK K : K = Context!Key
  OBVIOUS
<1>2. PICK g : SumsUp(K, Parts(c, t), g) /\ d = Base + g[K]
  BY <1>1 DEF IsText
<1>3. PICK h : SumsUp(K, Parts(c, u), h) /\ e = Base + h[K]
  BY <1>1 DEF IsText
<1>4. \A k \in K : /\ c[k] \in Seq(Nat) /\ t[k] \in Nat /\ t[k] <= Len(c[k])
                   /\ u[k] \in Nat /\ u[k] <= Len(c[k])
  BY <1>1 DEF IsCatalog, IsTaking
<1>5. \A k \in K : TakenOf(c, k, t[k]) \in Nat /\ TakenOf(c, k, u[k]) \in Nat
  BY <1>4, TakenMonotonic
<1>6. \A k \in K : TakenOf(c, k, t[k]) <= TakenOf(c, k, u[k])
  <2> SUFFICES ASSUME NEW k \in K PROVE TakenOf(c, k, t[k]) <= TakenOf(c, k, u[k])
    OBVIOUS
  <2>1. CASE u[k] = t[k]
    BY <1>5, <2>1
  <2>2. CASE u[k] = t[k] + 1
    <3>1. t[k] + 1 <= Len(c[k]) => TakenOf(c, k, t[k]) <= TakenOf(c, k, t[k] + 1)
      BY <1>4, TakenMonotonic
    <3> QED BY <1>4, <2>2, <3>1
  <2> QED BY <1>1, <2>1, <2>2
<1>7. PICK f1, f2 : f1 = Parts(c, t) /\ f2 = Parts(c, u)
  OBVIOUS
<1>8. \A k \in K : f1[k] = TakenOf(c, k, t[k]) /\ f2[k] = TakenOf(c, k, u[k])
  BY <1>1, <1>7 DEF Parts
<1>9. /\ \A k \in K : f1[k] \in Nat
      /\ \A k \in K : f2[k] \in Nat
      /\ \A k \in K : f1[k] \in Nat /\ f1[k] <= f2[k]
  BY <1>5, <1>6, <1>8
<1>10. K \subseteq K /\ IsFiniteSet(K) /\ SumsUp(K, f1, g) /\ SumsUp(K, f2, h)
  BY <1>1, <1>2, <1>3, <1>7, KeysFinite
<1>11. \A s \in SUBSET K : g[s] <= h[s]
  BY <1>9, <1>10, SumsUpMonotonic
<1>12. \A s \in SUBSET K : g[s] \in Nat
  BY <1>9, <1>10, SumsUpType
<1>13. \A s \in SUBSET K : h[s] \in Nat
  BY <1>9, <1>10, SumsUpType
<1>14. Base \in Nat
  BY EditorAssumption DEF Context!ContextAssumption
<1>15. g[K] <= h[K] /\ g[K] \in Nat /\ h[K] \in Nat
  BY <1>11, <1>12, <1>13
<1> QED BY <1>2, <1>3, <1>14, <1>15

\* What Encoded computes is such a text.
LEMMA EncodedIsText ==
    ASSUME NEW t
    PROVE  IsText(items, t, Context!Encoded(t))
<1> DEFINE It == CHOOSE it : it = [s \in SUBSET Context!Key |->
                     IF s = {} THEN 0
                     ELSE Context!Taken(One(s), t[One(s)]) + it[s \ {One(s)}]]
<1>1. Context!Encoded(t) = Base + It[Context!Key]
  BY DEF Context!Encoded, Context!MapThenSumSet, Context!MapThenFoldSet, One
<1>2. \A k, n : Context!Taken(k, n) = TakenOf(items, k, n)
  BY DEF Context!Taken, Context!MapThenSumSet, Context!MapThenFoldSet, TakenOf, SumsUp, One
<1>3. \A s \in SUBSET Context!Key : s # {} =>
          Context!Taken(One(s), t[One(s)]) = Parts(items, t)[One(s)]
  BY <1>2 DEF Parts, One
<1>4. \A it : SumsUp(Context!Key, Parts(items, t), it) <=>
          it = [s \in SUBSET Context!Key |->
                   IF s = {} THEN 0
                   ELSE Context!Taken(One(s), t[One(s)]) + it[s \ {One(s)}]]
  BY <1>3 DEF SumsUp
<1>5. SumsUp(Context!Key, Parts(items, t), It)
  <2>1. \E it : SumsUp(Context!Key, Parts(items, t), it)
    BY KeysFinite, SumsUpExists
  <2> QED BY <1>4, <2>1
<1> HIDE DEF It
<1> QED BY <1>1, <1>5 DEF IsText

\* It does so whatever has been taken.
EncodedTexts == \A t : IsText(items, t, Context!Encoded(t))

\* Encoded computes such a text before a step and after it.
LEMMA EncodedTextsNext == EncodedTexts /\ EncodedTexts'
<1>1. EncodedTexts
  BY EncodedIsText DEF EncodedTexts
<1> QED BY <1>1, PTL

\* The collections that dropped out have nothing that fits, and stay so.
ContextInv ==
    /\ IsCatalog(items) /\ IsTaking(items, indexes)
    /\ active \in Seq(Context!Key) /\ turn \in Seq(Context!Key)
    /\ \A k \in Context!Key \ Context!Range(active) :
           Context!Done(k) \/ Context!WithNext(k) > MaxCharacters

\* Taking one more of a collection that has one.
LEMMA TakingOneMore ==
    ASSUME NEW c, NEW t, IsCatalog(c), IsTaking(c, t), NEW h \in Context!Key, ~(t[h] >= Len(c[h]))
    PROVE  IsTaking(c, [t EXCEPT ![h] = @ + 1])
<1>1. t \in [Context!Key -> Nat] /\ \A k \in Context!Key : t[k] <= Len(c[k]) /\ Len(c[k]) \in Nat
  BY LenProperties DEF IsTaking, IsCatalog
<1>2. [t EXCEPT ![h] = @ + 1] \in [Context!Key -> Nat]
  BY <1>1
<1>3. t[h] + 1 <= Len(c[h])
  BY <1>1
<1>4. \A k \in Context!Key : [t EXCEPT ![h] = @ + 1][k] <= Len(c[k])
  BY <1>1, <1>3
<1> QED BY <1>2, <1>4 DEF IsTaking

\* Removing an element of a sequence leaves all others in it.
LEMMA RemovedRange ==
    ASSUME NEW S, NEW s \in Seq(S), NEW i \in DOMAIN s
    PROVE  /\ Context!RemoveAt(s, i) \in Seq(S)
           /\ Context!Range(s) \ {s[i]} \subseteq Context!Range(Context!RemoveAt(s, i))
<1>1. PICK n : n = Len(s) /\ n \in Nat /\ DOMAIN s = 1..n /\ \A j \in 1..n : s[j] \in S
  BY LenProperties, ElementOfSeq
<1>2. PICK a, b : a = SubSeq(s, 1, i - 1) /\ b = SubSeq(s, i + 1, n)
  OBVIOUS
<1>3. i \in Nat /\ 1 <= i /\ i <= n
  BY <1>1
<1>4. a \in Seq(S) /\ Len(a) = i - 1 /\ \A j \in 1..(i - 1) : a[j] = s[j]
  <2>1. \A j \in 1..(i - 1) : s[j] \in S
    BY <1>1, <1>3
  <2>2. PICK m : m = i - 1 /\ m \in Int /\ 1 \in Int
    BY <1>3
  <2>3. /\ SubSeq(s, 1, m) \in Seq(S)
        /\ Len(SubSeq(s, 1, m)) = IF 1 <= m THEN m - 1 + 1 ELSE 0
        /\ \A j \in 1..(m - 1 + 1) : SubSeq(s, 1, m)[j] = s[1 + j - 1]
    BY <2>1, <2>2, SubSeqProperties
  <2> QED BY <1>2, <1>3, <2>2, <2>3
<1>5. b \in Seq(S) /\ Len(b) = n - i /\ \A j \in 1..(n - i) : b[j] = s[j + i]
  <2>1. \A j \in (i + 1)..n : s[j] \in S
    BY <1>1, <1>3
  <2>2. PICK m : m = i + 1 /\ m \in Int /\ n \in Int
    BY <1>1, <1>3
  <2>3. /\ SubSeq(s, m, n) \in Seq(S)
        /\ Len(SubSeq(s, m, n)) = IF m <= n THEN n - m + 1 ELSE 0
        /\ \A j \in 1..(n - m + 1) : SubSeq(s, m, n)[j] = s[m + j - 1]
    BY <2>1, <2>2, SubSeqProperties
  <2>4. Len(b) = n - i
    <3>1. m <= n => n - m + 1 = n - i
      BY <1>1, <1>3, <2>2
    <3>2. ~(m <= n) => 0 = n - i
      BY <1>1, <1>3, <2>2
    <3> QED BY <1>2, <2>2, <2>3, <3>1, <3>2
  <2>5. \A j \in 1..(n - i) : b[j] = s[j + i]
    <3>1. \A j \in 1..(n - i) : j \in 1..(n - m + 1) /\ m + j - 1 = j + i
      BY <1>1, <1>3, <2>2
    <3> QED BY <1>2, <2>2, <2>3, <3>1
  <2> QED BY <1>2, <2>2, <2>3, <2>4, <2>5
<1>6. Context!RemoveAt(s, i) = a \o b
  BY <1>1, <1>2 DEF Context!RemoveAt
<1>7. /\ a \o b \in Seq(S) /\ Len(a \o b) = n - 1
      /\ \A j \in 1..(n - 1) : (a \o b)[j] = IF j <= i - 1 THEN a[j] ELSE b[j - (i - 1)]
  <2>1. /\ a \o b \in Seq(S) /\ Len(a \o b) = Len(a) + Len(b)
        /\ \A j \in 1..(Len(a) + Len(b)) : (a \o b)[j] = IF j <= Len(a) THEN a[j] ELSE b[j - Len(a)]
    BY <1>4, <1>5, ConcatProperties
  <2>2. Len(a) = i - 1 /\ Len(a) + Len(b) = n - 1
    BY <1>1, <1>3, <1>4, <1>5
  <2> QED BY <2>1, <2>2
<1>8. PICK r : r = a \o b
  OBVIOUS
<1>9. DOMAIN r = 1..(n - 1)
  BY <1>7, <1>8
<1>10. \A j \in 1..n : j # i => \E l \in DOMAIN r : r[l] = s[j]
  <2> SUFFICES ASSUME NEW j \in 1..n, j # i PROVE \E l \in DOMAIN r : r[l] = s[j]
    OBVIOUS
  <2>1. CASE j < i
    <3>1. j \in 1..(n - 1) /\ j <= i - 1 /\ j \in 1..(i - 1)
      BY <1>1, <1>3, <2>1
    <3>2. r[j] = a[j] /\ a[j] = s[j]
      BY <1>4, <1>7, <1>8, <3>1
    <3> QED BY <1>9, <3>1, <3>2
  <2>2. CASE j > i
    <3>1. PICK l : l = j - 1
      OBVIOUS
    <3>2. l \in 1..(n - 1) /\ ~(l <= i - 1) /\ l - (i - 1) = j - i /\ j - i \in 1..(n - i) /\ (j - i) + i = j
      BY <1>1, <1>3, <2>2, <3>1
    <3>3. r[l] = b[j - i] /\ b[j - i] = s[j]
      BY <1>5, <1>7, <1>8, <3>2
    <3> QED BY <1>9, <3>2, <3>3
  <2> QED BY <1>1, <1>3, <2>1, <2>2
<1>11. Context!RemoveAt(s, i) \in Seq(S)
  BY <1>6, <1>7
<1>12. Context!Range(s) \ {s[i]} \subseteq Context!Range(r)
  BY <1>1, <1>3, <1>10 DEF Context!Range
<1> QED BY <1>6, <1>8, <1>11, <1>12

\* At the start every collection takes turns.
LEMMA ContextInit == Context!Init => ContextInv
<1> SUFFICES ASSUME Context!Init PROVE ContextInv
  OBVIOUS
<1>1. Lengths \subseteq Nat /\ Collections \in Seq(Context!Key)
  BY EditorAssumption DEF Context!ContextAssumption, Context!Key
<1>2. \A k \in Context!Key : items[k] \in Seq(Nat)
  <2> SUFFICES ASSUME NEW k \in Context!Key PROVE items[k] \in Seq(Nat)
    OBVIOUS
  <2>1. PICK m \in 0..MaxItems : items[k] \in [1..m -> Lengths]
    BY DEF Context!Init, Context!SeqOf
  <2>2. m \in Nat
    BY EditorAssumption DEF Context!ContextAssumption
  <2>3. items[k] \in [1..m -> Nat]
    BY <1>1, <2>1
  <2> QED BY <2>2, <2>3 DEF Seq
<1>3. indexes = [k \in Context!Key |-> 0] /\ active = Collections /\ turn = <<>>
  BY DEF Context!Init
<1>4. \A k \in Context!Key : Len(items[k]) \in Nat
  BY <1>2, LenProperties
<1>5. IsCatalog(items) /\ IsTaking(items, indexes)
  BY <1>2, <1>3, <1>4 DEF IsCatalog, IsTaking
<1>6. Context!Key \ Context!Range(active) = {}
  BY <1>3 DEF Context!Key
<1> QED BY <1>1, <1>3, <1>5, <1>6 DEF ContextInv

\* With the same items and at least as many taken, the text with the next item of a
\* collection that is not done is no shorter.
LEMMA WithNextMonotonic ==
    ASSUME IsCatalog(items), IsTaking(items, indexes), IsTaking(items, indexes'), items' = items,
           NEW k \in Context!Key, ~Context!Done(k), indexes'[k] = indexes[k],
           \A j \in Context!Key : indexes'[j] = indexes[j] \/ indexes'[j] = indexes[j] + 1
    PROVE  /\ Context!WithNext(k) \in Nat /\ Context!WithNext(k)' \in Nat
           /\ Context!WithNext(k) <= Context!WithNext(k)'
<1>1. PICK c, t, u : /\ c = items /\ t = [indexes EXCEPT ![k] = @ + 1]
                     /\ u = [indexes' EXCEPT ![k] = @ + 1]
  OBVIOUS
<1>2. IsText(c, t, Context!WithNext(k))
  BY <1>1, EncodedTextsNext DEF EncodedTexts, Context!WithNext
<1>3. IsText(c, u, Context!WithNext(k)')
  BY <1>1, EncodedTextsNext DEF EncodedTexts, Context!WithNext
<1>4. ~(indexes[k] >= Len(items[k])) /\ ~(indexes'[k] >= Len(items[k]))
  BY DEF Context!Done
<1>5. IsCatalog(c) /\ IsTaking(c, t) /\ IsTaking(c, u)
  BY <1>1, <1>4, TakingOneMore
<1>6. \A j \in Context!Key : u[j] = t[j] \/ u[j] = t[j] + 1
  BY <1>1 DEF IsTaking
<1>7. PICK d, e : d = Context!WithNext(k) /\ e = Context!WithNext(k)'
  OBVIOUS
<1>8. IsText(c, t, d) /\ IsText(c, u, e)
  BY <1>2, <1>3, <1>7
<1>9. d \in Nat /\ e \in Nat /\ d <= e
  BY <1>5, <1>6, <1>8, TextMonotonic
<1> QED BY <1>7, <1>9

\* So what has dropped out is still done with.
LEMMA StaysOut ==
    ASSUME IsCatalog(items), IsTaking(items, indexes), IsTaking(items, indexes'), items' = items,
           NEW k \in Context!Key, indexes'[k] = indexes[k],
           \A j \in Context!Key : indexes'[j] = indexes[j] \/ indexes'[j] = indexes[j] + 1,
           Context!Done(k) \/ Context!WithNext(k) > MaxCharacters
    PROVE  (Context!Done(k) \/ Context!WithNext(k) > MaxCharacters)'
<1>1. CASE Context!Done(k)
  BY <1>1 DEF Context!Done
<1>2. CASE ~Context!Done(k)
  <2>1. /\ Context!WithNext(k) \in Nat /\ Context!WithNext(k)' \in Nat
        /\ Context!WithNext(k) <= Context!WithNext(k)'
    BY <1>2, WithNextMonotonic
  <2>2. MaxCharacters \in Nat
    BY EditorAssumption DEF Context!ContextAssumption
  <2> QED BY <1>2, <2>1, <2>2
<1> QED BY <1>1, <1>2

\* A round and a turn that drops its collection leave what is taken alone.
LEMMA StaysOutUnchanged ==
    ASSUME ContextInv, items' = items, indexes' = indexes,
           active' \in Seq(Context!Key), turn' \in Seq(Context!Key),
           \A k \in Context!Key : k \notin Context!Range(active') =>
               \/ k \notin Context!Range(active)
               \/ Context!Done(k)
               \/ Context!WithNext(k) > MaxCharacters
    PROVE  ContextInv'
<1>1. IsCatalog(items) /\ IsTaking(items, indexes) /\ IsTaking(items, indexes')
  BY DEF ContextInv
<1>2. \A k \in Context!Key : k \notin Context!Range(active') =>
          Context!Done(k) \/ Context!WithNext(k) > MaxCharacters
  BY DEF ContextInv
<1>3. \A k \in Context!Key : k \notin Context!Range(active') =>
          (Context!Done(k) \/ Context!WithNext(k) > MaxCharacters)'
  <2> SUFFICES ASSUME NEW k \in Context!Key, k \notin Context!Range(active')
               PROVE  (Context!Done(k) \/ Context!WithNext(k) > MaxCharacters)'
    OBVIOUS
  <2>1. Context!Done(k) \/ Context!WithNext(k) > MaxCharacters
    BY <1>2
  <2>2. indexes'[k] = indexes[k] /\ \A j \in Context!Key : indexes'[j] = indexes[j] \/ indexes'[j] = indexes[j] + 1
    OBVIOUS
  <2> QED BY <1>1, <2>1, <2>2, StaysOut
<1>4. IsCatalog(items') /\ IsTaking(items', indexes')
  BY <1>1
<1>5. Context!Range(active)' = Context!Range(active')
  BY DEF Context!Range
<1> QED BY <1>3, <1>4, <1>5 DEF ContextInv

\* A new round copies the list of those that take turns.
LEMMA ContextRound == ContextInv /\ Context!Round => ContextInv'
<1> SUFFICES ASSUME ContextInv, Context!Round PROVE ContextInv'
  OBVIOUS
<1>1. turn' = active /\ active' = active /\ items' = items /\ indexes' = indexes
  BY DEF Context!Round
<1>2. active' \in Seq(Context!Key) /\ turn' \in Seq(Context!Key)
  BY <1>1 DEF ContextInv
<1> QED BY <1>1, <1>2, StaysOutUnchanged

\* The collection whose turn it is has nothing that fits, and it is the one removed.
LEMMA ContextDrop == ContextInv /\ Context!Drop => ContextInv'
<1> SUFFICES ASSUME ContextInv, Context!Drop PROVE ContextInv'
  OBVIOUS
<1>1. PICK i \in DOMAIN active : active[i] = Head(turn) /\ active' = Context!RemoveAt(active, i)
  BY DEF Context!Drop
<1>2. turn # <<>> /\ ~Context!Takes(Head(turn)) /\ turn' = Tail(turn) /\ items' = items /\ indexes' = indexes
  BY DEF Context!Drop
<1>3. active \in Seq(Context!Key) /\ turn \in Seq(Context!Key)
  BY DEF ContextInv
<1>4. Head(turn) \in Context!Key /\ turn' \in Seq(Context!Key)
  BY <1>2, <1>3, HeadTailProperties
<1>5. /\ active' \in Seq(Context!Key)
      /\ Context!Range(active) \ {Head(turn)} \subseteq Context!Range(active')
  BY <1>1, <1>3, RemovedRange
<1>6. Context!Done(Head(turn)) \/ Context!WithNext(Head(turn)) > MaxCharacters
  <2>1. PICK h : h = Head(turn) /\ h \in Context!Key
    BY <1>4
  <2>2. ASSUME ~Context!Done(h) PROVE Context!WithNext(h) > MaxCharacters
    <3>1. ~(Context!WithNext(h) <= MaxCharacters)
      BY <1>2, <2>1, <2>2 DEF Context!Takes, Context!Fits
    <3>2. PICK t : t = [indexes EXCEPT ![h] = @ + 1]
      OBVIOUS
    <3>3. PICK c, e : c = items /\ e = Context!WithNext(h)
      OBVIOUS
    <3>4. IsText(c, t, e)
      BY <3>2, <3>3, EncodedTextsNext DEF EncodedTexts, Context!WithNext
    <3>5. IsCatalog(c) /\ IsTaking(c, t)
      BY <2>1, <2>2, <3>2, <3>3, TakingOneMore DEF ContextInv, Context!Done
    <3>6. e \in Nat
      BY <3>4, <3>5, TextMonotonic
    <3>7. MaxCharacters \in Nat
      BY EditorAssumption DEF Context!ContextAssumption
    <3> QED BY <3>1, <3>3, <3>6, <3>7
  <2> QED BY <2>1, <2>2
<1>7. \A k \in Context!Key : k \notin Context!Range(active') =>
          \/ k \notin Context!Range(active)
          \/ Context!Done(k)
          \/ Context!WithNext(k) > MaxCharacters
  <2> SUFFICES ASSUME NEW k \in Context!Key, k \notin Context!Range(active'), k \in Context!Range(active)
               PROVE  Context!Done(k) \/ Context!WithNext(k) > MaxCharacters
    OBVIOUS
  <2>1. k = Head(turn)
    BY <1>5
  <2> QED BY <1>6, <2>1
<1> QED BY <1>2, <1>4, <1>5, <1>7, StaysOutUnchanged

\* What is taken is of a collection that still takes turns, and leaves less room to
\* the others.
LEMMA ContextTake == ContextInv /\ Context!Take => ContextInv'
<1> SUFFICES ASSUME ContextInv, Context!Take PROVE ContextInv'
  OBVIOUS
<1>1. turn # <<>> /\ Context!Takes(Head(turn)) /\ turn' = Tail(turn) /\ items' = items /\ active' = active
  BY DEF Context!Take
<1>2. active \in Seq(Context!Key) /\ turn \in Seq(Context!Key) /\ IsCatalog(items) /\ IsTaking(items, indexes)
  BY DEF ContextInv
<1>3. PICK h : h = Head(turn) /\ h \in Context!Key
  BY <1>1, <1>2, HeadTailProperties
<1>4. turn' \in Seq(Context!Key)
  BY <1>1, <1>2, HeadTailProperties
<1>5. indexes' = [indexes EXCEPT ![h] = @ + 1]
  BY <1>3 DEF Context!Take
<1>6. ~(indexes[h] >= Len(items[h]))
  BY <1>1, <1>3 DEF Context!Takes, Context!Done
<1>7. IsTaking(items, indexes')
  <2>1. PICK c, t, u : c = items /\ t = indexes /\ u = indexes'
    OBVIOUS
  <2>2. IsTaking(c, [t EXCEPT ![h] = @ + 1])
    BY <1>2, <1>3, <1>6, <2>1, TakingOneMore
  <2> QED BY <1>5, <2>1, <2>2
<1>8. h \in Context!Range(active)
  <2>1. ~Context!Done(h) /\ Context!WithNext(h) <= MaxCharacters
    BY <1>1, <1>3 DEF Context!Takes, Context!Fits
  <2>2. PICK c, t, e : c = items /\ t = [indexes EXCEPT ![h] = @ + 1] /\ e = Context!WithNext(h)
    OBVIOUS
  <2>3. IsText(c, t, e)
    BY <2>2, EncodedTextsNext DEF EncodedTexts, Context!WithNext
  <2>4. IsCatalog(c) /\ IsTaking(c, t)
    BY <1>2, <1>5, <1>7, <2>2
  <2>5. e \in Nat
    BY <2>3, <2>4, TextMonotonic
  <2>6. MaxCharacters \in Nat
    BY EditorAssumption DEF Context!ContextAssumption
  <2>7. ~(Context!WithNext(h) > MaxCharacters)
    BY <2>1, <2>2, <2>5, <2>6
  <2> QED BY <1>3, <2>1, <2>7 DEF ContextInv
<1>9. \A j \in Context!Key : /\ indexes'[j] = indexes[j] \/ indexes'[j] = indexes[j] + 1
                             /\ j # h => indexes'[j] = indexes[j]
  BY <1>2, <1>5 DEF IsTaking
<1>10. \A k \in Context!Key \ Context!Range(active) :
           (Context!Done(k) \/ Context!WithNext(k) > MaxCharacters)'
  <2> SUFFICES ASSUME NEW k \in Context!Key \ Context!Range(active)
               PROVE  (Context!Done(k) \/ Context!WithNext(k) > MaxCharacters)'
    OBVIOUS
  <2>1. Context!Done(k) \/ Context!WithNext(k) > MaxCharacters
    BY DEF ContextInv
  <2>2. indexes'[k] = indexes[k]
    BY <1>8, <1>9
  <2> QED BY <1>1, <1>2, <1>7, <1>9, <2>1, <2>2, StaysOut
<1>11. Context!Range(active)' = Context!Range(active)
  BY <1>1 DEF Context!Range
<1> QED BY <1>1, <1>2, <1>4, <1>7, <1>10, <1>11 DEF ContextInv

\* Every step keeps the invariant.
LEMMA ContextNext == ContextInv /\ [Context!Next]_contextVars => ContextInv'
<1> SUFFICES ASSUME ContextInv, [Context!Next]_contextVars PROVE ContextInv'
  OBVIOUS
<1>1. CASE Context!Round
  BY <1>1, ContextRound
<1>2. CASE Context!Drop
  BY <1>2, ContextDrop
<1>3. CASE Context!Take
  BY <1>3, ContextTake
<1>4. CASE UNCHANGED contextVars
  <2>1. turn' = turn /\ active' = active /\ items' = items /\ indexes' = indexes
    BY <1>4 DEF contextVars
  <2>2. active' \in Seq(Context!Key) /\ turn' \in Seq(Context!Key)
    BY <2>1 DEF ContextInv
  <2> QED BY <2>1, <2>2, StaysOutUnchanged
<1> QED BY <1>1, <1>2, <1>3, <1>4 DEF Context!Next

\* Whatever the catalog holds, nothing that fits is left out of what the agent is
\* told (compact_catalog_context): a collection that has dropped out has no more
\* items, or its next one did not fit and fits even less beside what was taken since.
THEOREM CatalogLeavesNothingOut == EditorSpec => []NothingFitsAnyMore
<1>1. EditorInit => ContextInv
  BY ContextInit DEF EditorInit
<1>2. ContextInv /\ [EditorNext]_editorVars => ContextInv'
  <2>1. [EditorNext]_editorVars => [Context!Next]_contextVars
    BY DEF EditorNext, editorVars
  <2> QED BY <2>1, ContextNext
<1>3. ContextInv => NothingFitsAnyMore
  <2>1. active = <<>> => Context!Range(active) = {}
    BY DEF Context!Range
  <2> QED BY <2>1 DEF ContextInv, NothingFitsAnyMore, Context!NothingFitsAnyMore, Context!Finished
<1> HIDE DEF ContextInv
<1> QED BY <1>1, <1>2, <1>3, PTL DEF EditorSpec
=============================================================================
