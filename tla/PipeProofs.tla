----------------------------- MODULE PipeProofs -----------------------------
(***************************************************************************)
(* The pipe of fs/pipe.c for any size of the page, any number of processes *)
(* and any counts: its types; and, as long as the copies to and from user  *)
(* memory do not sleep, that nobody sleeps on it who could go on, and that *)
(* it is the stream of bytes of PipeStream.                                *)
(*                                                                         *)
(* NoLostWakeup speaks of the moments when nobody is inside a call; the    *)
(* invariant adds that whoever is inside one is on its way to a wake_up.   *)
(***************************************************************************)
EXTENDS Pipe, FiniteSetTheorems, SequenceTheorems, TLAPS

Inside == {"read", "write", "copy_out", "copy_in"}

IInv ==
  /\ NoLostWakeup
  /\ pc \in [Procs -> Labels]
  /\ cpu # NoProc => cpu \in Procs /\ pc[cpu] \in Inside

LEMMA WakeAndGotoLabels ==
  ASSUME NEW p \in Procs, NEW label \in Labels, pc \in [Procs -> Labels], WakeAndGoto(p, label)
  PROVE  /\ pc' \in [Procs -> Labels] /\ pc'[p] = label
         /\ \A q \in Procs \ {p} : pc'[q] \notin {"read_sleep", "write_sleep"}
BY DEF WakeAndGoto, Woken, Labels

LEMMA InvStep ==
  ASSUME UserFaults = FALSE, IInv, [Next]_vars
  PROVE  IInv'
<1> USE DEF IInv
<1>1. NoProc \notin Procs
  BY ConstantsAssumption DEF NoProc
<1>2. ASSUME NEW p \in Procs, NEW end \in Ends, NEW label \in {"read", "write"}, Call(p, label, end)
      PROVE  IInv'
  <2>1. cpu' = p /\ pc' = [pc EXCEPT ![p] = label]
    BY <1>2 DEF Call
  <2>2. pc' \in [Procs -> Labels] /\ pc'[p] \in Inside
    BY <2>1 DEF Labels, Inside
  <2> QED  BY <2>1, <2>2, <1>1 DEF NoLostWakeup
<1>3. ASSUME NEW p \in Procs, NEW end \in Ends, Close(p, end)
      PROVE  IInv'
  <2>1. cpu = NoProc /\ cpu' = cpu /\ UNCHANGED <<head, tail>>
    BY <1>3 DEF Close, Runs, Inside, pipeVars
  <2>2. CASE \E q \in Procs \ {p} : end \in ends[q]
    <3>1. UNCHANGED <<pc, i_count>>
      BY <1>3, <2>2 DEF Close
    <3> QED  BY <2>1, <3>1 DEF NoLostWakeup, Size
  <2>3. CASE ~\E q \in Procs \ {p} : end \in ends[q]
    <3>1. WakeAndGoto(p, "idle")
      BY <1>3, <2>3 DEF Close
    <3>2. /\ pc' \in [Procs -> Labels]
          /\ \A q \in Procs : pc'[q] \notin {"read_sleep", "write_sleep"}
      BY <3>1, WakeAndGotoLabels DEF Labels
    <3> QED  BY <2>1, <3>2 DEF NoLostWakeup
  <2> QED  BY <2>2, <2>3
<1>4. ASSUME NEW p \in Procs, ReadPipe(p)
      PROVE  IInv'
  <2>1. CASE ReadReturns(p)
    <3>1. /\ pc' \in [Procs -> Labels] /\ cpu' = NoProc
          /\ \A q \in Procs : pc'[q] \notin {"read_sleep", "write_sleep"}
      BY <2>1, WakeAndGotoLabels DEF ReadReturns, Labels
    <3> QED  BY <3>1 DEF NoLostWakeup
  <2>2. CASE Size = 0 /\ i_count = 2 /\ ReadSleeps(p) /\ UNCHANGED <<head, tail, i_count>>
    <3>1. /\ pc' \in [Procs -> Labels] /\ cpu' = NoProc /\ pc'[p] = "read_sleep"
          /\ \A q \in Procs \ {p} : pc'[q] \notin {"read_sleep", "write_sleep"}
      BY <2>2, WakeAndGotoLabels DEF ReadSleeps, Labels
    <3>2. Size' = 0 /\ i_count' = 2
      BY <2>2 DEF Size
    <3> QED  BY <3>1, <3>2 DEF NoLostWakeup
  <2>3. CASE ReadChunk(p)
    <3>1. cpu' = p /\ pc' = [pc EXCEPT ![p] = "copy_out"]
      BY <2>3 DEF ReadChunk
    <3> QED  BY <3>1, <1>1 DEF NoLostWakeup, Labels, Inside
  <2> QED  BY <1>4, <2>1, <2>2, <2>3 DEF ReadPipe
<1>5. ASSUME NEW p \in Procs, WritePipe(p)
      PROVE  IInv'
  <2>1. CASE WriteReturns(p)
    <3>1. /\ pc' \in [Procs -> Labels] /\ cpu' = NoProc
          /\ \A q \in Procs : pc'[q] \notin {"read_sleep", "write_sleep"}
      BY <2>1, WakeAndGotoLabels DEF WriteReturns, Labels
    <3> QED  BY <3>1 DEF NoLostWakeup
  <2>2. CASE /\ Size = PAGE_SIZE - 1 /\ i_count = 2
             /\ WriteSleeps(p) /\ UNCHANGED <<head, tail, i_count>>
    <3>1. /\ pc' \in [Procs -> Labels] /\ cpu' = NoProc /\ pc'[p] = "write_sleep"
          /\ \A q \in Procs \ {p} : pc'[q] \notin {"read_sleep", "write_sleep"}
      BY <2>2, WakeAndGotoLabels DEF WriteSleeps, Labels
    <3>2. Size' = PAGE_SIZE - 1 /\ i_count' = 2
      BY <2>2 DEF Size
    <3> QED  BY <3>1, <3>2 DEF NoLostWakeup
  <2>3. CASE WriteChunk(p)
    <3>1. cpu' = p /\ pc' = [pc EXCEPT ![p] = "copy_in"]
      BY <2>3 DEF WriteChunk
    <3> QED  BY <3>1, <1>1 DEF NoLostWakeup, Labels, Inside
  <2> QED  BY <1>5, <2>1, <2>2, <2>3 DEF WritePipe
<1>6. ASSUME NEW p \in Procs, CopyOut(p) \/ CopyIn(p)
      PROVE  IInv'
  <2>1. cpu' = p /\ (pc' = [pc EXCEPT ![p] = "read"] \/ pc' = [pc EXCEPT ![p] = "write"])
    BY <1>6 DEF CopyOut, CopyIn
  <2> QED  BY <2>1, <1>1 DEF NoLostWakeup, Labels, Inside
<1>7. CASE UNCHANGED vars
  BY <1>7 DEF NoLostWakeup, Size, vars, pipeVars, callVars
<1> QED
  <2>1. CASE Next
    <3>1. PICK p \in Procs :
            \/ Call(p, "read", "r") \/ Call(p, "write", "w")
            \/ \E end \in Ends : Close(p, end)
            \/ Continue(p)
      BY <2>1 DEF Next
    <3> QED  BY <3>1, <1>2, <1>3, <1>4, <1>5, <1>6 DEF Continue, Ends
  <2> QED  BY <2>1, <1>7

(* Readers sleep only while the pipe is empty, writers only while it is    *)
(* full, and both only while both ends are open.                           *)
THEOREM NoLostWakeupCorrect ==
  ASSUME UserFaults = FALSE
  PROVE  Spec => []NoLostWakeup
<1>1. Init => IInv
  BY DEF Init, IInv, NoLostWakeup, Labels
<1>2. IInv /\ [Next]_vars => IInv'
  BY ZenonT(60), InvStep
<1>3. IInv => NoLostWakeup
  BY DEF IInv
<1> QED  BY <1>1, <1>2, <1>3, PTL DEF Spec

-----------------------------------------------------------------------------
(***************************************************************************)
(* Types.  What % does within one page of its range.                       *)
(***************************************************************************)
LEMMA Modulo ==
  ASSUME NEW n \in Nat \ {0}, NEW a \in Int
  PROVE  /\ 0 <= a /\ a < n => a % n = a
         /\ n <= a /\ a < n + n => a % n = a - n
         /\ 0 - n <= a /\ a < 0 => a % n = a + n
<1>1. 0 <= a /\ a < n => a % n = a
  OBVIOUS
<1>2. n <= a /\ a < n + n => a % n = a - n
  OBVIOUS
<1>3. 0 - n <= a /\ a < 0 => a % n = a + n
  OBVIOUS
<1> QED  BY <1>1, <1>2, <1>3

LEMMA SmallestIs ==
  ASSUME NEW a \in Nat, NEW b \in Nat, NEW c \in Nat
  PROVE  /\ Smallest({a, b, c}) \in {a, b, c}
         /\ Smallest({a, b, c}) <= a /\ Smallest({a, b, c}) <= b /\ Smallest({a, b, c}) <= c
<1>1. \E n \in {a, b, c} : \A m \in {a, b, c} : n <= m
  OBVIOUS
<1>2. /\ Smallest({a, b, c}) \in {a, b, c}
      /\ \A m \in {a, b, c} : Smallest({a, b, c}) <= m
  BY <1>1 DEF Smallest
<1> QED  BY <1>2

LEMMA Numbers ==
  /\ PAGE_SIZE \in Nat /\ PAGE_SIZE > 1
  /\ \A c : c \in Cells <=> c \in Nat /\ c < PAGE_SIZE
  /\ \A s : s \in Byte => s \in Nat
  /\ 0 \in Byte /\ \A k \in Nat : k % Stamps \in Byte
  /\ \A c \in Counts : c \in Nat
BY ConstantsAssumption DEF Cells, Byte

LEMMA SizeIs ==
  ASSUME head \in Cells, tail \in Cells
  PROVE  /\ Size \in Cells
         /\ head >= tail => Size = head - tail
         /\ head < tail => Size = head - tail + PAGE_SIZE
<1>1. head - tail \in Int /\ 0 - PAGE_SIZE <= head - tail /\ head - tail < PAGE_SIZE
  BY Numbers
<1>2. /\ head >= tail => Size = head - tail
      /\ head < tail => Size = head - tail + PAGE_SIZE
  BY <1>1, Numbers, Modulo DEF Size
<1> QED  BY <1>2, Numbers

(* A chunk: not empty, within the page, the count and what there is.       *)
LEMMA ReadChunkIs ==
  ASSUME TypeOK, NEW p \in Procs, ReadChunk(p), count[p] # 0, Size # 0
  PROVE  \E n \in Nat :
           /\ n > 0 /\ tail + n <= PAGE_SIZE /\ n <= count[p] /\ n <= Size
           /\ count' = [count EXCEPT ![p] = count[p] - n]
           /\ start' = [start EXCEPT ![p] = tail]
           /\ chars' = [chars EXCEPT ![p] = n]
           /\ tail' = (tail + n) % PAGE_SIZE
<1> DEFINE n == Smallest({PAGE_SIZE - tail, count[p], Size})
<1>0. /\ PAGE_SIZE \in Nat /\ tail \in Nat /\ tail < PAGE_SIZE /\ count[p] \in Nat
      /\ Size \in Nat
  BY Numbers, SizeIs DEF TypeOK
<1>1. /\ PAGE_SIZE - tail \in Nat /\ PAGE_SIZE - tail > 0
      /\ count[p] \in Nat /\ count[p] > 0
      /\ Size \in Nat /\ Size > 0
  BY <1>0
<1>2. /\ n \in {PAGE_SIZE - tail, count[p], Size}
      /\ n <= PAGE_SIZE - tail /\ n <= count[p] /\ n <= Size
  BY <1>1, SmallestIs
<1>3. /\ count' = [count EXCEPT ![p] = count[p] - n]
      /\ start' = [start EXCEPT ![p] = tail]
      /\ chars' = [chars EXCEPT ![p] = n]
      /\ tail' = (tail + n) % PAGE_SIZE
  BY DEF ReadChunk
<1> HIDE DEF n
<1>4. n \in Nat /\ n > 0 /\ tail + n <= PAGE_SIZE
  BY <1>0, <1>1, <1>2
<1> QED  BY <1>2, <1>3, <1>4

LEMMA WriteChunkIs ==
  ASSUME TypeOK, NEW p \in Procs, WriteChunk(p), count[p] # 0, Size # PAGE_SIZE - 1
  PROVE  \E n \in Nat :
           /\ n > 0 /\ head + n <= PAGE_SIZE /\ n <= count[p] /\ Size + n < PAGE_SIZE
           /\ count' = [count EXCEPT ![p] = count[p] - n]
           /\ start' = [start EXCEPT ![p] = head]
           /\ chars' = [chars EXCEPT ![p] = n]
           /\ head' = (head + n) % PAGE_SIZE
<1> DEFINE room == (PAGE_SIZE - 1) - Size
           n == Smallest({PAGE_SIZE - head, count[p], room})
<1>0. /\ PAGE_SIZE \in Nat /\ head \in Nat /\ head < PAGE_SIZE /\ count[p] \in Nat
      /\ Size \in Nat /\ Size < PAGE_SIZE
  BY Numbers, SizeIs DEF TypeOK
<1>1. /\ PAGE_SIZE - head \in Nat /\ PAGE_SIZE - head > 0
      /\ count[p] \in Nat /\ count[p] > 0
      /\ room \in Nat /\ room > 0
  BY <1>0
<1>3. /\ n \in {PAGE_SIZE - head, count[p], room}
      /\ n <= PAGE_SIZE - head /\ n <= count[p] /\ n <= room
  BY <1>1, SmallestIs
<1>4. /\ count' = [count EXCEPT ![p] = count[p] - n]
      /\ start' = [start EXCEPT ![p] = head]
      /\ chars' = [chars EXCEPT ![p] = n]
      /\ head' = (head + n) % PAGE_SIZE
  BY DEF WriteChunk
<1> HIDE DEF n
<1>5. n \in Nat /\ n > 0 /\ head + n <= PAGE_SIZE /\ Size + n < PAGE_SIZE
  BY <1>0, <1>1, <1>3
<1> QED  BY <1>3, <1>4, <1>5

PageOK == head \in Cells /\ tail \in Cells /\ buf \in [Cells -> Byte] /\ stamp \in Byte

Bounded(c) == c = 0 \/ \E n \in Counts : c <= n

CallOK ==
  /\ count \in [Procs -> Nat] /\ \A p \in Procs : Bounded(count[p])
  /\ start \in [Procs -> Cells] /\ chars \in [Procs -> 0..PAGE_SIZE]
  /\ \A p \in Procs : start[p] + chars[p] <= PAGE_SIZE

EndsOK ==
  /\ ends \in [Procs -> SUBSET Ends]
  /\ i_count = Cardinality(UNION {ends[p] : p \in Procs})

LEMMA TypeParts ==
  TypeOK <=> /\ PageOK /\ EndsOK /\ CallOK
             /\ cpu \in Procs \cup {NoProc} /\ pc \in [Procs -> Labels] /\ out \in Seq(Byte)
BY DEF TypeOK, PageOK, EndsOK, CallOK, Bounded

LEMMA CallMoves ==
  ASSUME CallOK, NEW p \in Procs, NEW c \in Nat, Bounded(c),
         NEW s \in Cells, NEW n \in 0..PAGE_SIZE, s + n <= PAGE_SIZE,
         count' = [count EXCEPT ![p] = c],
         start' = [start EXCEPT ![p] = s], chars' = [chars EXCEPT ![p] = n]
  PROVE  CallOK'
<1>1. /\ count' \in [Procs -> Nat] /\ start' \in [Procs -> Cells]
      /\ chars' \in [Procs -> 0..PAGE_SIZE]
  BY DEF CallOK
<1>2. \A q \in Procs : Bounded(count'[q])
  BY DEF CallOK
<1>3. \A q \in Procs : start'[q] + chars'[q] <= PAGE_SIZE
  BY DEF CallOK
<1>4. (\A q \in Procs : Bounded(count[q]))'
  BY <1>2 DEF Bounded
<1> QED  BY <1>1, <1>3, <1>4 DEF CallOK

LEMMA EndsCount ==
  ASSUME NEW e, e \in [Procs -> SUBSET Ends]
  PROVE  /\ IsFiniteSet(UNION {e[p] : p \in Procs})
         /\ \A p \in Procs : \A end \in e[p] : end \in UNION {e[q] : q \in Procs}
<1>1. IsFiniteSet({"r"}) /\ IsFiniteSet({"r"} \cup {"w"})
  BY ZenonT(60), FS_Singleton, FS_AddElement
<1>2. UNION {e[p] : p \in Procs} \subseteq {"r"} \cup {"w"}
  BY DEF Ends
<1> QED  BY <1>1, <1>2, FS_Subset

LEMMA CloseKeepsEnds ==
  ASSUME EndsOK, NEW p \in Procs, NEW end \in Ends, Close(p, end)
  PROVE  EndsOK'
<1> DEFINE U == UNION {ends[q] : q \in Procs}
           V == UNION {ends'[q] : q \in Procs}
<1>1. /\ end \in ends[p] /\ ends' = [ends EXCEPT ![p] = ends[p] \ {end}]
      /\ ends \in [Procs -> SUBSET Ends] /\ i_count = Cardinality(U)
  BY DEF Close, EndsOK
<1>2. ends' \in [Procs -> SUBSET Ends]
  BY <1>1
<1>3. CASE \E q \in Procs \ {p} : end \in ends[q]
  <2>1. i_count' = i_count
    BY <1>3 DEF Close
  <2>2. V = U
    BY <1>1, <1>3
  <2> QED  BY <1>1, <1>2, <2>1, <2>2 DEF EndsOK
<1>4. CASE ~\E q \in Procs \ {p} : end \in ends[q]
  <2>1. i_count' = i_count - 1
    BY <1>4 DEF Close
  <2>2. V = U \ {end}
    BY <1>1, <1>4
  <2>3. IsFiniteSet(U) /\ end \in U
    BY <1>1, EndsCount
  <2>4. Cardinality(U \ {end}) = Cardinality(U) - 1
    BY <2>3, FS_RemoveElement
  <2> QED  BY <1>1, <1>2, <2>1, <2>2, <2>4 DEF EndsOK
<1> QED  BY <1>3, <1>4

LEMMA TypeInit == Init => TypeOK
<1> SUFFICES ASSUME Init PROVE TypeOK
  OBVIOUS
<1>1. PageOK
  BY Numbers DEF Init, PageOK
<1>2. CallOK
  BY Numbers DEF Init, CallOK, Bounded
<1>3. EndsOK
  <2>1. UNION {Inherited[p] : p \in Procs} = {"r"} \cup {"w"}
    BY ConstantsAssumption
  <2>2. Cardinality({"r"}) = 1 /\ IsFiniteSet({"r"})
    BY FS_Singleton
  <2>3. Cardinality({"r"} \cup {"w"}) = 2
    BY <2>2, FS_AddElement
  <2>4. /\ ends = Inherited /\ i_count = 2 /\ Inherited \in [Procs -> SUBSET Ends]
    BY ConstantsAssumption DEF Init, Ends
  <2> QED  BY <2>1, <2>3, <2>4 DEF EndsOK
<1> QED  BY <1>1, <1>2, <1>3, TypeParts DEF Init, Labels, NoProc

LEMMA Keeps ==
  /\ PageOK /\ UNCHANGED <<head, tail, buf, stamp>> => PageOK'
  /\ EndsOK /\ UNCHANGED <<ends, i_count>> => EndsOK'
  /\ CallOK /\ UNCHANGED callVars => CallOK'
BY DEF PageOK, EndsOK, CallOK, Bounded, callVars

LEMMA TypeStep ==
  ASSUME TypeOK, [Next]_vars
  PROVE  TypeOK'
<1>0. /\ PageOK /\ EndsOK /\ CallOK
      /\ cpu \in Procs \cup {NoProc} /\ pc \in [Procs -> Labels] /\ out \in Seq(Byte)
  BY TypeParts
<1>b. /\ PageOK' /\ EndsOK' /\ CallOK'
      /\ cpu' \in Procs \cup {NoProc} /\ pc' \in [Procs -> Labels] /\ out' \in Seq(Byte)
      => TypeOK'
  BY DEF TypeOK, PageOK, EndsOK, CallOK, Bounded
<1>a. {"idle", "read", "write", "copy_out", "copy_in", "read_sleep", "write_sleep"} = Labels
  BY DEF Labels
<1>1. ASSUME NEW p \in Procs, NEW end \in Ends, NEW label \in {"read", "write"}, Call(p, label, end)
      PROVE  TypeOK'
  <2>1. PICK n \in Counts : count' = [count EXCEPT ![p] = n]
    BY <1>1 DEF Call
  <2>2. /\ n \in Nat /\ Bounded(n)
        /\ start[p] \in Cells /\ chars[p] \in 0..PAGE_SIZE /\ start[p] + chars[p] <= PAGE_SIZE
    BY <1>0, Numbers DEF Bounded, CallOK
  <2>3. /\ start' = [start EXCEPT ![p] = start[p]] /\ chars' = [chars EXCEPT ![p] = chars[p]]
    BY <1>0, <1>1 DEF Call, CallOK
  <2>4. CallOK'
    BY <1>0, <2>1, <2>2, <2>3, CallMoves
  <2>5. PageOK' /\ EndsOK' /\ out' = out /\ cpu' = p /\ pc' = [pc EXCEPT ![p] = label]
    BY <1>0, <1>1, Keeps DEF Call, pipeVars
  <2>6. pc' \in [Procs -> Labels]
    BY <1>0, <1>a, <2>5
  <2> QED  BY <1>0, <2>4, <2>5, <2>6, <1>b
<1>2. ASSUME NEW p \in Procs, NEW end \in Ends, Close(p, end)
      PROVE  TypeOK'
  <2>1. EndsOK'
    BY <1>0, <1>2, CloseKeepsEnds
  <2>2. PageOK' /\ CallOK' /\ cpu' = cpu /\ out' = out
    BY <1>0, <1>2, Keeps DEF Close, pipeVars
  <2>3. pc' \in [Procs -> Labels]
    BY <1>0, <1>2, <1>a, WakeAndGotoLabels DEF Close
  <2> QED  BY <1>0, <2>1, <2>2, <2>3, <1>b
<1>3. ASSUME NEW p \in Procs, ReadPipe(p)
      PROVE  TypeOK'
  <2>1. EndsOK' /\ out' \in Seq(Byte) /\ UNCHANGED <<head, buf, stamp>>
    BY <1>0, <1>3, Keeps DEF ReadPipe
  <2>2. CASE ReadReturns(p) /\ UNCHANGED <<tail, start, chars>>
    <3>1. pc' \in [Procs -> Labels] /\ cpu' = NoProc
      BY <1>0, <1>a, <2>2, WakeAndGotoLabels DEF ReadReturns
    <3>2. count' = [count EXCEPT ![p] = 0]
      BY <2>2 DEF ReadReturns
    <3>3. /\ start[p] \in Cells /\ chars[p] \in 0..PAGE_SIZE /\ start[p] + chars[p] <= PAGE_SIZE
      BY <1>0 DEF CallOK
    <3>4. /\ start' = [start EXCEPT ![p] = start[p]] /\ chars' = [chars EXCEPT ![p] = chars[p]]
      BY <1>0, <2>2 DEF CallOK
    <3>5. CallOK'
      BY <1>0, <3>2, <3>3, <3>4, CallMoves DEF Bounded
    <3>6. PageOK'
      BY <1>0, <2>1, <2>2, Keeps
    <3> QED  BY <1>0, <2>1, <3>1, <3>5, <3>6, <1>b
  <2>3. CASE ReadSleeps(p) /\ UNCHANGED <<tail, start, chars>>
    <3>1. pc' \in [Procs -> Labels] /\ cpu' = NoProc
      BY <1>0, <1>a, <2>3, WakeAndGotoLabels DEF ReadSleeps
    <3>2. PageOK' /\ CallOK'
      BY <1>0, <2>1, <2>3, Keeps DEF ReadSleeps, callVars
    <3> QED  BY <1>0, <2>1, <3>1, <3>2, <1>b
  <2>4. CASE ReadChunk(p) /\ count[p] # 0 /\ Size # 0
    <3>1. PICK n \in Nat :
           /\ n > 0 /\ tail + n <= PAGE_SIZE /\ n <= count[p] /\ n <= Size
           /\ count' = [count EXCEPT ![p] = count[p] - n]
           /\ start' = [start EXCEPT ![p] = tail]
           /\ chars' = [chars EXCEPT ![p] = n]
           /\ tail' = (tail + n) % PAGE_SIZE
      BY <2>4, ReadChunkIs
    <3>2. tail \in Cells /\ tail \in Nat /\ PAGE_SIZE \in Nat /\ PAGE_SIZE > 0 /\ count[p] \in Nat
      BY <1>0, Numbers DEF PageOK, CallOK
    <3>3. count[p] - n \in Nat /\ n \in 0..PAGE_SIZE
      BY <3>1, <3>2
    <3>4. Bounded(count[p] - n)
      <4>1. count[p] # 0
        BY <3>1, <3>2
      <4>2. PICK m \in Counts : count[p] <= m
        BY <1>0, <4>1 DEF Bounded, CallOK
      <4>3. m \in Nat
        BY Numbers
      <4>4. count[p] - n <= m
        BY <3>1, <3>2, <4>2, <4>3
      <4> QED  BY <4>4 DEF Bounded
    <3>5. CallOK'
      BY <1>0, <3>1, <3>2, <3>3, <3>4, CallMoves
    <3>6. tail' \in Nat /\ tail' < PAGE_SIZE
      BY <3>1, <3>2
    <3>7. PageOK'
      BY <1>0, <2>1, <3>6, Numbers DEF PageOK
    <3>8. pc' = [pc EXCEPT ![p] = "copy_out"] /\ cpu' \in {NoProc, p}
      BY <2>4 DEF ReadChunk
    <3> QED  BY <1>0, <1>a, <2>1, <3>5, <3>7, <3>8, <1>b
  <2> QED  BY <1>3, <2>2, <2>3, <2>4 DEF ReadPipe
<1>4. ASSUME NEW p \in Procs, WritePipe(p)
      PROVE  TypeOK'
  <2>1. EndsOK' /\ out' \in Seq(Byte) /\ UNCHANGED <<tail, buf, stamp>>
    BY <1>0, <1>4, Keeps DEF WritePipe
  <2>2. CASE WriteReturns(p) /\ UNCHANGED <<head, start, chars>>
    <3>1. pc' \in [Procs -> Labels] /\ cpu' = NoProc
      BY <1>0, <1>a, <2>2, WakeAndGotoLabels DEF WriteReturns
    <3>2. count' = [count EXCEPT ![p] = 0]
      BY <2>2 DEF WriteReturns
    <3>3. /\ start[p] \in Cells /\ chars[p] \in 0..PAGE_SIZE /\ start[p] + chars[p] <= PAGE_SIZE
      BY <1>0 DEF CallOK
    <3>4. /\ start' = [start EXCEPT ![p] = start[p]] /\ chars' = [chars EXCEPT ![p] = chars[p]]
      BY <1>0, <2>2 DEF CallOK
    <3>5. CallOK'
      BY <1>0, <3>2, <3>3, <3>4, CallMoves DEF Bounded
    <3>6. PageOK'
      BY <1>0, <2>1, <2>2, Keeps
    <3> QED  BY <1>0, <2>1, <3>1, <3>5, <3>6, <1>b
  <2>3. CASE WriteSleeps(p) /\ UNCHANGED <<head, start, chars>>
    <3>1. pc' \in [Procs -> Labels] /\ cpu' = NoProc
      BY <1>0, <1>a, <2>3, WakeAndGotoLabels DEF WriteSleeps
    <3>2. PageOK' /\ CallOK'
      BY <1>0, <2>1, <2>3, Keeps DEF WriteSleeps, callVars
    <3> QED  BY <1>0, <2>1, <3>1, <3>2, <1>b
  <2>4. CASE WriteChunk(p) /\ count[p] # 0 /\ Size # PAGE_SIZE - 1
    <3>1. PICK n \in Nat :
           /\ n > 0 /\ head + n <= PAGE_SIZE /\ n <= count[p] /\ Size + n < PAGE_SIZE
           /\ count' = [count EXCEPT ![p] = count[p] - n]
           /\ start' = [start EXCEPT ![p] = head]
           /\ chars' = [chars EXCEPT ![p] = n]
           /\ head' = (head + n) % PAGE_SIZE
      BY <2>4, WriteChunkIs
    <3>2. head \in Cells /\ head \in Nat /\ PAGE_SIZE \in Nat /\ PAGE_SIZE > 0 /\ count[p] \in Nat
      BY <1>0, Numbers DEF PageOK, CallOK
    <3>3. count[p] - n \in Nat /\ n \in 0..PAGE_SIZE
      BY <3>1, <3>2
    <3>4. Bounded(count[p] - n)
      <4>1. count[p] # 0
        BY <3>1, <3>2
      <4>2. PICK m \in Counts : count[p] <= m
        BY <1>0, <4>1 DEF Bounded, CallOK
      <4>3. m \in Nat
        BY Numbers
      <4>4. count[p] - n <= m
        BY <3>1, <3>2, <4>2, <4>3
      <4> QED  BY <4>4 DEF Bounded
    <3>5. CallOK'
      BY <1>0, <3>1, <3>2, <3>3, <3>4, CallMoves
    <3>6. head' \in Nat /\ head' < PAGE_SIZE
      BY <3>1, <3>2
    <3>7. PageOK'
      BY <1>0, <2>1, <3>6, Numbers DEF PageOK
    <3>8. pc' = [pc EXCEPT ![p] = "copy_in"] /\ cpu' \in {NoProc, p}
      BY <2>4 DEF WriteChunk
    <3> QED  BY <1>0, <1>a, <2>1, <3>5, <3>7, <3>8, <1>b
  <2> QED  BY <1>4, <2>2, <2>3, <2>4 DEF WritePipe
<1>5. ASSUME NEW p \in Procs, CopyOut(p) \/ CopyIn(p)
      PROVE  TypeOK'
  <2>1. EndsOK' /\ cpu' = p /\ count' = count
        /\ start' = [start EXCEPT ![p] = 0] /\ chars' = [chars EXCEPT ![p] = 0]
        /\ (pc' = [pc EXCEPT ![p] = "read"] \/ pc' = [pc EXCEPT ![p] = "write"])
    BY <1>0, <1>5, Keeps DEF CopyOut, CopyIn
  <2>2. pc' \in [Procs -> Labels]
    BY <1>0, <1>a, <2>1
  <2>3. CallOK'
    <3>1. count[p] \in Nat /\ Bounded(count[p]) /\ count' = [count EXCEPT ![p] = count[p]]
      BY <1>0, <2>1 DEF CallOK
    <3>2. 0 \in Cells /\ 0 \in 0..PAGE_SIZE /\ 0 + 0 <= PAGE_SIZE
      BY Numbers
    <3> QED  BY <1>0, <2>1, <3>1, <3>2, CallMoves
  <2>4. start[p] \in Nat /\ chars[p] \in Nat /\ start[p] + chars[p] <= PAGE_SIZE /\ PAGE_SIZE \in Nat
    BY <1>0, Numbers DEF CallOK
  <2>5. CASE CopyOut(p)
    <3>1. PageOK'
      BY <1>0, <2>5, Keeps DEF CopyOut
    <3>2. out' = [j \in 1..chars[p] |-> buf[start[p] + j - 1]]
      BY <2>5 DEF CopyOut
    <3>3. \A j \in 1..chars[p] : buf[start[p] + j - 1] \in Byte
      <4>1. \A j \in 1..chars[p] : start[p] + j - 1 \in Cells
        BY <2>4 DEF Cells
      <4> QED  BY <1>0, <4>1 DEF PageOK
    <3>4. out' \in Seq(Byte)
      BY <2>4, <3>2, <3>3
    <3> QED  BY <1>0, <2>1, <2>2, <2>3, <3>1, <3>4, <1>b
  <2>6. CASE CopyIn(p)
    <3>1. buf' = [c \in Cells |-> IF c \in start[p]..(start[p] + chars[p] - 1)
                                  THEN (stamp + c - start[p]) % Stamps ELSE buf[c]]
      BY <2>6 DEF CopyIn
    <3>2. \A c \in Cells : c \in start[p]..(start[p] + chars[p] - 1) =>
             (stamp + c - start[p]) % Stamps \in Byte
      <4>1. SUFFICES ASSUME NEW c \in Cells, c \in start[p]..(start[p] + chars[p] - 1)
                     PROVE  (stamp + c - start[p]) % Stamps \in Byte
        OBVIOUS
      <4>2. stamp \in Nat /\ c \in Nat /\ c >= start[p]
        BY <1>0, <2>4, <4>1, Numbers DEF PageOK
      <4>3. stamp + c - start[p] \in Nat
        BY <2>4, <4>2
      <4> QED  BY <4>3, Numbers
    <3>3. buf' \in [Cells -> Byte]
      BY <1>0, <3>1, <3>2 DEF PageOK
    <3>4. stamp' \in Byte
      <4>1. stamp \in Nat
        BY <1>0, Numbers DEF PageOK
      <4>2. stamp + chars[p] \in Nat
        BY <2>4, <4>1
      <4>3. stamp' = (stamp + chars[p]) % Stamps
        BY <2>6 DEF CopyIn
      <4> QED  BY <4>2, <4>3, Numbers
    <3>5. UNCHANGED <<head, tail, out>>
      BY <2>6 DEF CopyIn
    <3>6. PageOK'
      BY <1>0, <3>3, <3>4, <3>5 DEF PageOK
    <3> QED  BY <1>0, <2>1, <2>2, <2>3, <3>5, <3>6, <1>b
  <2> QED  BY <1>5, <2>5, <2>6
<1>6. CASE UNCHANGED vars
  <2>1. PageOK' /\ EndsOK' /\ CallOK' /\ UNCHANGED <<cpu, pc, out>>
    BY <1>0, <1>6, Keeps DEF vars, pipeVars, callVars
  <2> QED  BY <1>0, <2>1, <1>b
<1> QED
  <2>1. CASE Next
    <3>1. PICK p \in Procs :
            \/ Call(p, "read", "r") \/ Call(p, "write", "w")
            \/ \E end \in Ends : Close(p, end)
            \/ Continue(p)
      BY <2>1 DEF Next
    <3> QED  BY <3>1, <1>1, <1>2, <1>3, <1>4, <1>5 DEF Continue, Ends
  <2> QED  BY <2>1, <1>6

(* Every variable keeps its type: a chunk never runs over the end of the   *)
(* page, a call moves no more than it was asked to, and i_count is the     *)
(* number of ends open, so that read_pipe and write_pipe see an end close. *)
THEOREM TypeCorrect == Spec => []TypeOK
<1>1. Init => TypeOK
  BY TypeInit
<1>2. TypeOK /\ [Next]_vars => TypeOK'
  BY TypeStep
<1> QED  BY <1>1, <1>2, PTL DEF Spec

-----------------------------------------------------------------------------
(***************************************************************************)
(* A pipe is a stream of bytes.  The bytes of a chunk being copied are     *)
(* still, or not yet, in the stream; whoever copies has the processor, and *)
(* so copies alone.                                                        *)
(***************************************************************************)
Copying == {"copy_out", "copy_in"}

CopyOK(p) ==
  /\ pc[p] \in Copying => cpu = p /\ chars[p] > 0
  /\ pc[p] = "copy_out" => /\ tail = (start[p] + chars[p]) % PAGE_SIZE
                           /\ Size + chars[p] < PAGE_SIZE
  /\ pc[p] = "copy_in" => /\ head = (start[p] + chars[p]) % PAGE_SIZE
                          /\ chars[p] <= Size

StreamInv == TypeOK /\ IInv /\ \A p \in Procs : CopyOK(p)

Bytes(page, first, number) == [j \in 1..number |-> page[(first + j - 1) % PAGE_SIZE]]

Quiet == \A p \in Procs : pc[p] \notin Copying

(* How far h is ahead of t, and what a chunk does to it.                   *)
Ahead(h, t) == (h - t) % PAGE_SIZE

LEMMA AheadIs ==
  ASSUME NEW h \in Cells, NEW t \in Cells
  PROVE  /\ Ahead(h, t) \in Cells
         /\ h >= t => Ahead(h, t) = h - t
         /\ h < t => Ahead(h, t) = h - t + PAGE_SIZE
<1>1. h - t \in Int /\ 0 - PAGE_SIZE <= h - t /\ h - t < PAGE_SIZE
  BY Numbers
<1>2. /\ h >= t => Ahead(h, t) = h - t
      /\ h < t => Ahead(h, t) = h - t + PAGE_SIZE
  BY <1>1, Numbers, Modulo DEF Ahead
<1> QED  BY <1>2, Numbers

LEMMA EndOfChunk ==
  ASSUME NEW s \in Cells, NEW n \in Nat, s + n <= PAGE_SIZE
  PROVE  /\ (s + n) % PAGE_SIZE \in Cells
         /\ s + n < PAGE_SIZE => (s + n) % PAGE_SIZE = s + n
         /\ s + n = PAGE_SIZE => (s + n) % PAGE_SIZE = 0
<1>1. s + n \in Int /\ 0 <= s + n /\ s + n < PAGE_SIZE + PAGE_SIZE
  BY Numbers
<1>2. /\ s + n < PAGE_SIZE => (s + n) % PAGE_SIZE = s + n
      /\ s + n = PAGE_SIZE => (s + n) % PAGE_SIZE = 0
  BY <1>1, Numbers, Modulo
<1> QED  BY <1>1, <1>2, Numbers

LEMMA TailMoves ==
  ASSUME NEW h \in Cells, NEW t \in Cells, NEW n \in Nat,
         t + n <= PAGE_SIZE, n <= Ahead(h, t)
  PROVE  Ahead(h, (t + n) % PAGE_SIZE) = Ahead(h, t) - n
<1> DEFINE u == (t + n) % PAGE_SIZE
<1>1. /\ u \in Cells /\ (t + n < PAGE_SIZE => u = t + n) /\ (t + n = PAGE_SIZE => u = 0)
  BY EndOfChunk
<1> HIDE DEF u
<1>2. /\ h >= t => Ahead(h, t) = h - t
      /\ h < t => Ahead(h, t) = h - t + PAGE_SIZE
      /\ h >= u => Ahead(h, u) = h - u
      /\ h < u => Ahead(h, u) = h - u + PAGE_SIZE
  BY <1>1, AheadIs
<1>3. /\ PAGE_SIZE \in Nat /\ h \in Nat /\ t \in Nat /\ u \in Nat
      /\ h < PAGE_SIZE /\ t < PAGE_SIZE /\ u < PAGE_SIZE
  BY <1>1, Numbers
<1>4. Ahead(h, u) = Ahead(h, t) - n
  BY <1>1, <1>2, <1>3
<1> QED  BY <1>4 DEF u

LEMMA HeadMoves ==
  ASSUME NEW h \in Cells, NEW t \in Cells, NEW n \in Nat,
         h + n <= PAGE_SIZE, Ahead(h, t) + n < PAGE_SIZE
  PROVE  Ahead((h + n) % PAGE_SIZE, t) = Ahead(h, t) + n
<1> DEFINE g == (h + n) % PAGE_SIZE
<1>1. /\ g \in Cells /\ (h + n < PAGE_SIZE => g = h + n) /\ (h + n = PAGE_SIZE => g = 0)
  BY EndOfChunk
<1> HIDE DEF g
<1>2. /\ h >= t => Ahead(h, t) = h - t
      /\ h < t => Ahead(h, t) = h - t + PAGE_SIZE
      /\ g >= t => Ahead(g, t) = g - t
      /\ g < t => Ahead(g, t) = g - t + PAGE_SIZE
  BY <1>1, AheadIs
<1>3. /\ PAGE_SIZE \in Nat /\ h \in Nat /\ t \in Nat /\ g \in Nat
      /\ h < PAGE_SIZE /\ t < PAGE_SIZE /\ g < PAGE_SIZE
  BY <1>1, Numbers
<1>4. Ahead(g, t) = Ahead(h, t) + n
  BY <1>1, <1>2, <1>3
<1> QED  BY <1>4 DEF g

(* The contents, when nobody copies and when p does.                       *)
LEMMA ContentsAre ==
  /\ StreamInv /\ Quiet => Contents = Bytes(buf, tail, Size)
  /\ StreamInv => \A p \in Procs :
       /\ pc[p] = "copy_out" => Contents = Bytes(buf, start[p], Size + chars[p])
       /\ pc[p] = "copy_in" => Contents = Bytes(buf, tail, Size - chars[p])
<1>1. ASSUME StreamInv, Quiet PROVE Contents = Bytes(buf, tail, Size)
  <2>1. Leaving = {} /\ Arriving = {}
    BY <1>1 DEF Quiet, Leaving, Arriving, Copying
  <2>2. (Size + 0) - 0 = Size
    <3>1. Size \in Nat
      BY <1>1, SizeIs, Numbers DEF StreamInv, TypeOK
    <3> QED  BY <3>1
  <2> QED  BY <2>1, <2>2 DEF Contents, Bytes
<1>2. ASSUME StreamInv, NEW p \in Procs, pc[p] = "copy_out"
      PROVE  Contents = Bytes(buf, start[p], Size + chars[p])
  <2>1. \A q \in Procs : pc[q] \in Copying => q = p
    BY <1>2 DEF StreamInv, CopyOK, Copying
  <2>2. Leaving = {p} /\ Arriving = {}
    BY <1>2, <2>1 DEF Leaving, Arriving, Copying
  <2>3. (CHOOSE q \in Leaving : TRUE) = p /\ Leaving # {}
    BY <2>2
  <2>4. (Size + chars[p]) - 0 = Size + chars[p]
    <3>1. Size \in Nat /\ chars[p] \in Nat
      BY <1>2, SizeIs, Numbers DEF StreamInv, TypeOK
    <3> QED  BY <3>1
  <2> QED  BY <2>2, <2>3, <2>4 DEF Contents, Bytes
<1>3. ASSUME StreamInv, NEW p \in Procs, pc[p] = "copy_in"
      PROVE  Contents = Bytes(buf, tail, Size - chars[p])
  <2>1. \A q \in Procs : pc[q] \in Copying => q = p
    BY <1>3 DEF StreamInv, CopyOK, Copying
  <2>2. Leaving = {} /\ Arriving = {p}
    BY <1>3, <2>1 DEF Leaving, Arriving, Copying
  <2>3. (CHOOSE q \in Arriving : TRUE) = p /\ Arriving # {}
    BY <2>2
  <2>4. (Size + 0) - chars[p] = Size - chars[p]
    <3>1. Size \in Nat /\ chars[p] \in Nat
      BY <1>3, SizeIs, Numbers DEF StreamInv, TypeOK
    <3> QED  BY <3>1
  <2> QED  BY <2>2, <2>3, <2>4 DEF Contents, Bytes
<1> QED  BY <1>1, <1>2, <1>3

LEMMA ContentsNext ==
  /\ StreamInv' /\ Quiet' => Contents' = Bytes(buf', tail', Size')
  /\ StreamInv' => \A p \in Procs :
       /\ pc'[p] = "copy_out" => Contents' = Bytes(buf', start'[p], Size' + chars'[p])
       /\ pc'[p] = "copy_in" => Contents' = Bytes(buf', tail', Size' - chars'[p])
<1>1. (/\ StreamInv /\ Quiet => Contents = Bytes(buf, tail, Size)
       /\ StreamInv => \A p \in Procs :
            /\ pc[p] = "copy_out" => Contents = Bytes(buf, start[p], Size + chars[p])
            /\ pc[p] = "copy_in" => Contents = Bytes(buf, tail, Size - chars[p]))'
  BY ContentsAre, PTL
<1> QED  BY <1>1 DEF Bytes

(***************************************************************************)
(* The invariant.                                                          *)
(***************************************************************************)
LEMMA Alone ==
  ASSUME StreamInv, NEW p \in Procs, Runs(p)
  PROVE  /\ \A q \in Procs : pc[q] \in Copying => q = p
         /\ pc[p] \notin Inside => cpu = NoProc
         /\ pc[p] \notin Copying => Quiet
BY ConstantsAssumption DEF StreamInv, CopyOK, IInv, Runs, Quiet, NoProc

LEMMA QuietOK ==
  Quiet' => \A p \in Procs : CopyOK(p)'
BY DEF Quiet, CopyOK, Copying

(* The steps, by what they do to what is copied.                           *)
Rests == /\ Quiet /\ Quiet' /\ UNCHANGED <<head, tail, buf>>
         /\ (out' = out \/ out' = <<>>)

CutsOut(p, n) ==
  /\ Quiet /\ n > 0 /\ tail + n <= PAGE_SIZE /\ n <= Size
  /\ pc' = [pc EXCEPT ![p] = "copy_out"] /\ cpu' = p
  /\ start'[p] = tail /\ chars'[p] = n
  /\ tail' = (tail + n) % PAGE_SIZE
  /\ UNCHANGED <<head, buf>> /\ out' = <<>>

CutsIn(p, n) ==
  /\ Quiet /\ n > 0 /\ head + n <= PAGE_SIZE /\ Size + n < PAGE_SIZE
  /\ pc' = [pc EXCEPT ![p] = "copy_in"] /\ cpu' = p
  /\ start'[p] = head /\ chars'[p] = n
  /\ head' = (head + n) % PAGE_SIZE
  /\ UNCHANGED <<tail, buf, out>>

LEMMA StepIs ==
  ASSUME UserFaults = FALSE, StreamInv, Next
  PROVE  \/ Rests
         \/ \E p \in Procs, n \in Nat : CutsOut(p, n) \/ CutsIn(p, n)
         \/ \E p \in Procs : Quiet' /\ (CopyOut(p) \/ CopyIn(p))
<1>0. TypeOK /\ pc \in [Procs -> Labels]
  BY DEF StreamInv, TypeOK
<1>1. ASSUME NEW p \in Procs, NEW label \in {"read", "write"}, NEW end, Call(p, label, end)
      PROVE  Rests
  <2>1. Quiet
    BY <1>1, Alone DEF Call, Copying
  <2>2. pc' = [pc EXCEPT ![p] = label] /\ UNCHANGED <<head, tail, buf, out>>
    BY <1>1 DEF Call, pipeVars
  <2>3. Quiet'
    BY <1>0, <2>1, <2>2 DEF Quiet, Copying
  <2> QED  BY <2>1, <2>2, <2>3 DEF Rests
<1>2. ASSUME NEW p \in Procs, NEW label \in Labels \ Copying, WakeAndGoto(p, label), Quiet
      PROVE  Quiet'
  BY <1>0, <1>2 DEF WakeAndGoto, Woken, Quiet, Copying, Labels
<1>a. /\ {"idle", "read_sleep", "write_sleep"} \subseteq Labels \ Copying
  BY DEF Labels, Copying
<1>3. ASSUME NEW p \in Procs, NEW end \in Ends, Close(p, end)
      PROVE  Rests
  <2>1. Quiet /\ UNCHANGED <<head, tail, buf, out>>
    BY <1>3, Alone DEF Close, pipeVars, Copying
  <2>2. UNCHANGED pc \/ WakeAndGoto(p, "idle")
    BY <1>3 DEF Close
  <2>3. Quiet'
    BY <1>2, <1>a, <2>1, <2>2 DEF Quiet
  <2> QED  BY <2>1, <2>3 DEF Rests
<1>4. ASSUME NEW p \in Procs, ReadPipe(p)
      PROVE  Rests \/ \E n \in Nat : CutsOut(p, n)
  <2>1. Quiet /\ UNCHANGED <<head, buf>> /\ out' = <<>>
    BY <1>4, Alone DEF ReadPipe, Copying
  <2>2. CASE tail' = tail /\ (ReadReturns(p) \/ ReadSleeps(p))
    <3>1. WakeAndGoto(p, "idle") \/ WakeAndGoto(p, "read_sleep")
      BY <2>2 DEF ReadReturns, ReadSleeps
    <3>2. Quiet'
      BY <1>2, <1>a, <2>1, <3>1
    <3> QED  BY <2>1, <2>2, <3>2 DEF Rests
  <2>3. CASE ReadChunk(p) /\ count[p] # 0 /\ Size # 0
    <3>1. PICK n \in Nat :
           /\ n > 0 /\ tail + n <= PAGE_SIZE /\ n <= count[p] /\ n <= Size
           /\ count' = [count EXCEPT ![p] = count[p] - n]
           /\ start' = [start EXCEPT ![p] = tail]
           /\ chars' = [chars EXCEPT ![p] = n]
           /\ tail' = (tail + n) % PAGE_SIZE
      BY <1>0, <2>3, ReadChunkIs
    <3>2. start'[p] = tail /\ chars'[p] = n
      BY <1>0, <3>1 DEF TypeOK
    <3>3. pc' = [pc EXCEPT ![p] = "copy_out"] /\ cpu' = p
      BY <2>3 DEF ReadChunk
    <3> QED  BY <2>1, <3>1, <3>2, <3>3 DEF CutsOut
  <2> QED  BY <1>4, <2>2, <2>3 DEF ReadPipe
<1>5. ASSUME NEW p \in Procs, WritePipe(p)
      PROVE  Rests \/ \E n \in Nat : CutsIn(p, n)
  <2>1. Quiet /\ UNCHANGED <<tail, buf, out>>
    BY <1>5, Alone DEF WritePipe, Copying
  <2>2. CASE head' = head /\ (WriteReturns(p) \/ WriteSleeps(p))
    <3>1. WakeAndGoto(p, "idle") \/ WakeAndGoto(p, "write_sleep")
      BY <2>2 DEF WriteReturns, WriteSleeps
    <3>2. Quiet'
      BY <1>2, <1>a, <2>1, <3>1
    <3> QED  BY <2>1, <2>2, <3>2 DEF Rests
  <2>3. CASE WriteChunk(p) /\ count[p] # 0 /\ Size # PAGE_SIZE - 1
    <3>1. PICK n \in Nat :
           /\ n > 0 /\ head + n <= PAGE_SIZE /\ n <= count[p] /\ Size + n < PAGE_SIZE
           /\ count' = [count EXCEPT ![p] = count[p] - n]
           /\ start' = [start EXCEPT ![p] = head]
           /\ chars' = [chars EXCEPT ![p] = n]
           /\ head' = (head + n) % PAGE_SIZE
      BY <1>0, <2>3, WriteChunkIs
    <3>2. start'[p] = head /\ chars'[p] = n
      BY <1>0, <3>1 DEF TypeOK
    <3>3. pc' = [pc EXCEPT ![p] = "copy_in"] /\ cpu' = p
      BY <2>3 DEF WriteChunk
    <3> QED  BY <2>1, <3>1, <3>2, <3>3 DEF CutsIn
  <2> QED  BY <1>5, <2>2, <2>3 DEF WritePipe
<1>6. ASSUME NEW p \in Procs, CopyOut(p) \/ CopyIn(p)
      PROVE  Quiet'
  <2>1. \A q \in Procs \ {p} : pc[q] \notin Copying
    BY <1>6, Alone DEF CopyOut, CopyIn
  <2>2. pc' = [pc EXCEPT ![p] = "read"] \/ pc' = [pc EXCEPT ![p] = "write"]
    BY <1>6 DEF CopyOut, CopyIn
  <2> QED  BY <1>0, <2>1, <2>2 DEF Quiet, Copying
<1> QED
  <2>1. PICK p \in Procs :
          \/ Call(p, "read", "r") \/ Call(p, "write", "w")
          \/ \E end \in Ends : Close(p, end)
          \/ Continue(p)
    BY DEF Next
  <2> QED  BY <2>1, <1>1, <1>3, <1>4, <1>5, <1>6 DEF Continue

LEMMA CutsOutOK ==
  ASSUME StreamInv, NEW p \in Procs, NEW n \in Nat, CutsOut(p, n)
  PROVE  Size' = Size - n /\ \A q \in Procs : CopyOK(q)'
<1>1. head \in Cells /\ tail \in Cells /\ pc \in [Procs -> Labels]
  BY DEF StreamInv, TypeOK
<1>2. Size = Ahead(head, tail) /\ Size \in Nat /\ Size < PAGE_SIZE
  BY <1>1, SizeIs, Numbers DEF Size, Ahead
<1>3. Ahead(head, (tail + n) % PAGE_SIZE) = Size - n
  BY <1>1, <1>2, TailMoves DEF CutsOut
<1>4. Size' = Size - n
  BY <1>3 DEF Size, Ahead, CutsOut
<1>5. ASSUME NEW q \in Procs \ {p} PROVE CopyOK(q)'
  BY <1>1 DEF CutsOut, CopyOK, Quiet, Copying
<1>6. CopyOK(p)'
  <2>1. pc'[p] = "copy_out" /\ cpu' = p /\ chars'[p] > 0
    BY <1>1 DEF CutsOut
  <2>2. tail' = (start'[p] + chars'[p]) % PAGE_SIZE
    BY DEF CutsOut
  <2>3. Size' + chars'[p] < PAGE_SIZE
    BY <1>2, <1>4, Numbers DEF CutsOut
  <2> QED  BY <2>1, <2>2, <2>3 DEF CopyOK
<1> QED  BY <1>4, <1>5, <1>6

LEMMA CutsInOK ==
  ASSUME StreamInv, NEW p \in Procs, NEW n \in Nat, CutsIn(p, n)
  PROVE  Size' = Size + n /\ \A q \in Procs : CopyOK(q)'
<1>1. head \in Cells /\ tail \in Cells /\ pc \in [Procs -> Labels]
  BY DEF StreamInv, TypeOK
<1>2. Size = Ahead(head, tail) /\ Size \in Nat /\ Size < PAGE_SIZE
  BY <1>1, SizeIs, Numbers DEF Size, Ahead
<1>3. Ahead((head + n) % PAGE_SIZE, tail) = Size + n
  BY <1>1, <1>2, HeadMoves DEF CutsIn
<1>4. Size' = Size + n
  BY <1>3 DEF Size, Ahead, CutsIn
<1>5. ASSUME NEW q \in Procs \ {p} PROVE CopyOK(q)'
  BY <1>1 DEF CutsIn, CopyOK, Quiet, Copying
<1>6. CopyOK(p)'
  <2>1. pc'[p] = "copy_in" /\ cpu' = p /\ chars'[p] > 0
    BY <1>1 DEF CutsIn
  <2>2. head' = (start'[p] + chars'[p]) % PAGE_SIZE
    BY DEF CutsIn
  <2>3. chars'[p] <= Size'
    BY <1>2, <1>4 DEF CutsIn
  <2> QED  BY <2>1, <2>2, <2>3 DEF CopyOK
<1> QED  BY <1>4, <1>5, <1>6

LEMMA StreamInvStep ==
  ASSUME UserFaults = FALSE, StreamInv, [Next]_vars
  PROVE  StreamInv'
<1>1. TypeOK' /\ IInv'
  BY TypeStep, InvStep DEF StreamInv
<1>2. ASSUME Next PROVE \A p \in Procs : CopyOK(p)'
  <2>1. CASE Quiet'
    BY <2>1, QuietOK
  <2>2. CASE \E p \in Procs, n \in Nat : CutsOut(p, n) \/ CutsIn(p, n)
    BY <2>2, CutsOutOK, CutsInOK
  <2> QED  BY <1>2, <2>1, <2>2, StepIs DEF Rests
<1>3. ASSUME UNCHANGED vars PROVE \A p \in Procs : CopyOK(p)'
  BY <1>3 DEF StreamInv, CopyOK, Size, vars, pipeVars, callVars
<1> QED  BY <1>1, <1>2, <1>3 DEF StreamInv

(***************************************************************************)
(* Each step is one of a stream, or none.                                  *)
(***************************************************************************)
LEMMA RestsContents ==
  ASSUME StreamInv, StreamInv', Rests
  PROVE  Contents' = Contents
<1>1. Size' = Size
  BY DEF Rests, Size
<1> QED  BY <1>1, ContentsAre, ContentsNext DEF Rests

LEMMA CutsContents ==
  ASSUME StreamInv, StreamInv', NEW p \in Procs, NEW n \in Nat, CutsOut(p, n) \/ CutsIn(p, n)
  PROVE  Contents' = Contents
<1>1. pc \in [Procs -> Labels] /\ Size \in Nat
  BY SizeIs, Numbers DEF StreamInv, TypeOK
<1>2. CASE CutsOut(p, n)
  <2>1. Size' + chars'[p] = Size
    <3>1. Size' = Size - n /\ chars'[p] = n
      BY <1>2, CutsOutOK DEF CutsOut
    <3> QED  BY <1>1, <3>1
  <2>2. pc'[p] = "copy_out" /\ buf' = buf /\ start'[p] = tail /\ Quiet
    BY <1>1, <1>2 DEF CutsOut
  <2>3. Contents' = Bytes(buf', start'[p], Size' + chars'[p])
    BY <2>2, ContentsNext
  <2> QED  BY <2>1, <2>2, <2>3, ContentsAre
<1>3. CASE CutsIn(p, n)
  <2>1. Size' - chars'[p] = Size
    <3>1. Size' = Size + n /\ chars'[p] = n
      BY <1>3, CutsInOK DEF CutsIn
    <3> QED  BY <1>1, <3>1
  <2>2. pc'[p] = "copy_in" /\ buf' = buf /\ tail' = tail /\ Quiet
    BY <1>1, <1>3 DEF CutsIn
  <2>3. Contents' = Bytes(buf', tail', Size' - chars'[p])
    BY <2>2, ContentsNext
  <2> QED  BY <2>1, <2>2, <2>3, ContentsAre
<1> QED  BY <1>2, <1>3

(* Sequences given element by element.                                     *)
LEMMA Written ==
  ASSUME NEW B, NEW k \in Nat, NEW f, f \in [1..k -> B]
  PROVE  f \in Seq(B) /\ Len(f) = k
OBVIOUS

LEMMA Joined ==
  ASSUME NEW B, NEW n \in Nat, NEW m \in Nat, NEW f \in Seq(B), NEW g \in Seq(B), NEW h \in Seq(B),
         Len(f) = m + n, Len(g) = n, Len(h) = m,
         \A x \in 1..n : g[x] = f[x], \A x \in 1..m : h[x] = f[n + x]
  PROVE  f = g \o h
<1>1. /\ g \o h \in Seq(B) /\ Len(g \o h) = n + m
      /\ \A x \in 1..(n + m) : (g \o h)[x] = IF x <= n THEN g[x] ELSE h[x - n]
  <2>1. /\ g \o h \in Seq(B) /\ Len(g \o h) = Len(g) + Len(h)
        /\ \A x \in 1..Len(g) + Len(h) : (g \o h)[x] = IF x <= Len(g) THEN g[x] ELSE h[x - Len(g)]
    OBVIOUS
  <2> QED  BY <2>1
<1>2. ASSUME NEW x \in 1..(m + n) PROVE f[x] = (g \o h)[x]
  <2>1. CASE x <= n
    BY <1>1, <2>1
  <2>2. CASE x > n
    <3>1. x - n \in 1..m /\ n + (x - n) = x
      BY <2>2
    <3>2. h[x - n] = f[x]
      BY <3>1
    <3> QED  BY <1>1, <2>2, <3>2
  <2> QED  BY <2>1, <2>2
<1>3. Len(f) = Len(g \o h) /\ \A x \in 1..Len(f) : f[x] = (g \o h)[x]
  BY <1>1, <1>2
<1> QED  BY <1>1, <1>3, SeqEqual

(* A reader takes the first bytes.                                         *)
LEMMA CopyOutGets ==
  ASSUME StreamInv, StreamInv', NEW p \in Procs, CopyOut(p), Quiet'
  PROVE  Stream!Get
<1> DEFINE s == start[p]
           n == chars[p]
           m == Size
<1>1. /\ s \in Cells /\ s \in Nat /\ n \in Nat /\ n > 0 /\ s + n <= PAGE_SIZE
      /\ m \in Nat /\ m + n < PAGE_SIZE /\ PAGE_SIZE \in Nat
      /\ tail = (s + n) % PAGE_SIZE
  BY SizeIs, Numbers DEF StreamInv, TypeOK, CopyOK, CopyOut, Copying
<1>2. /\ Contents = Bytes(buf, s, m + n)
      /\ Contents' = Bytes(buf, tail, m)
      /\ out' = [j \in 1..n |-> buf[s + j - 1]]
  <2>1. UNCHANGED <<head, tail, buf>> /\ Size' = Size /\ pc[p] = "copy_out"
    BY DEF CopyOut, Size
  <2>2. out' = [j \in 1..n |-> buf[s + j - 1]]
    BY DEF CopyOut
  <2> QED  BY <2>1, <2>2, ContentsAre, ContentsNext
<1> HIDE DEF s, n, m
<1>3. \A j \in 1..n : (s + j - 1) % PAGE_SIZE = s + j - 1
  <2>1. \A j \in 1..n : s + j - 1 \in Int /\ 0 <= s + j - 1 /\ s + j - 1 < PAGE_SIZE
    BY <1>1
  <2> QED  BY <1>1, <2>1, Modulo, Numbers
<1>4. \A j \in 1..m : (tail + j - 1) % PAGE_SIZE = (s + (n + j) - 1) % PAGE_SIZE
  <2>1. SUFFICES ASSUME NEW j \in 1..m
                 PROVE  (tail + j - 1) % PAGE_SIZE = (s + (n + j) - 1) % PAGE_SIZE
    OBVIOUS
  <2>2. j \in Nat /\ 1 <= j /\ j <= m
    BY <1>1
  <2>3. CASE s + n < PAGE_SIZE
    <3>1. tail = s + n
      BY <1>1, <2>3, EndOfChunk
    <3>2. tail + j - 1 = s + (n + j) - 1
      BY <1>1, <2>2, <3>1
    <3> QED  BY <3>2
  <2>4. CASE s + n = PAGE_SIZE
    <3>1. tail = 0
      BY <1>1, <2>4, EndOfChunk
    <3> DEFINE a == tail + j - 1
               b == s + (n + j) - 1
    <3>2. /\ a \in Int /\ 0 <= a /\ a < PAGE_SIZE
          /\ b \in Int /\ PAGE_SIZE <= b /\ b < PAGE_SIZE + PAGE_SIZE /\ b - PAGE_SIZE = a
      BY <1>1, <2>2, <2>4, <3>1
    <3> HIDE DEF a, b
    <3>3. PAGE_SIZE \in Nat \ {0}
      BY Numbers
    <3>5. a % PAGE_SIZE = a /\ b % PAGE_SIZE = b - PAGE_SIZE
      BY <3>2, <3>3, Modulo
    <3>4. a % PAGE_SIZE = b % PAGE_SIZE
      BY <3>2, <3>5
    <3> QED  BY <3>4 DEF a, b
  <2> QED  BY <1>1, <2>3, <2>4
<1>6. \A c \in Cells : buf[c] \in Byte
  BY DEF StreamInv, TypeOK
<1>7. Contents = out' \o Contents'
  <2> DEFINE f == Contents
             g == out'
             h == Contents'
  <2>1. /\ f = [x \in 1..(m + n) |-> buf[(s + x - 1) % PAGE_SIZE]]
        /\ g = [x \in 1..n |-> buf[s + x - 1]]
        /\ h = [x \in 1..m |-> buf[(tail + x - 1) % PAGE_SIZE]]
    BY <1>2 DEF Bytes
  <2> HIDE DEF f, g, h
  <2>2. /\ \A x \in 1..(m + n) : f[x] \in Byte
        /\ \A x \in 1..n : g[x] = f[x] /\ g[x] \in Byte
        /\ \A x \in 1..m : h[x] = f[n + x] /\ h[x] \in Byte
    <3>1. ASSUME NEW x \in 1..(m + n) PROVE f[x] \in Byte
      <4>1. (s + x - 1) % PAGE_SIZE \in Cells
        <5>1. s + x - 1 \in Nat
          BY <1>1
        <5>2. (s + x - 1) % PAGE_SIZE \in Nat /\ (s + x - 1) % PAGE_SIZE < PAGE_SIZE
          BY <5>1, Numbers
        <5> QED  BY <5>2, Numbers
      <4> QED  BY <1>6, <2>1, <4>1
    <3>2. ASSUME NEW x \in 1..n PROVE g[x] = f[x] /\ g[x] \in Byte
      <4>1. x \in 1..(m + n)
        BY <1>1
      <4>2. g[x] = f[x]
        BY <1>3, <2>1, <4>1
      <4> QED  BY <3>1, <4>1, <4>2
    <3>3. ASSUME NEW x \in 1..m PROVE h[x] = f[n + x] /\ h[x] \in Byte
      <4>1. n + x \in 1..(m + n)
        BY <1>1
      <4>2. h[x] = buf[(tail + x - 1) % PAGE_SIZE]
        BY <2>1
      <4>3. f[n + x] = buf[(s + (n + x) - 1) % PAGE_SIZE]
        BY <2>1, <4>1
      <4>4. h[x] = f[n + x]
        BY <1>4, <4>2, <4>3
      <4> QED  BY <3>1, <4>1, <4>4
    <3> QED  BY <3>1, <3>2, <3>3
  <2>3. /\ f \in [1..(m + n) -> Byte] /\ g \in [1..n -> Byte] /\ h \in [1..m -> Byte]
    BY <2>1, <2>2
  <2>4. /\ f \in Seq(Byte) /\ Len(f) = m + n
        /\ g \in Seq(Byte) /\ Len(g) = n
        /\ h \in Seq(Byte) /\ Len(h) = m
    <3>1. m + n \in Nat
      BY <1>1
    <3> QED  BY <1>1, <2>3, <3>1, Written
  <2>5. (\A x \in 1..n : g[x] = f[x]) /\ (\A x \in 1..m : h[x] = f[n + x])
    BY <2>2
  <2>6. f = g \o h
    <3>1. n \in Nat /\ m \in Nat
      BY <1>1
    <3>2. f \in Seq(Byte) /\ g \in Seq(Byte) /\ h \in Seq(Byte)
      BY <2>4
    <3>3. Len(f) = m + n /\ Len(g) = n /\ Len(h) = m
      BY <2>4
    <3>4. \A u, v, w \in Seq(Byte) :
             /\ Len(u) = m + n /\ Len(v) = n /\ Len(w) = m
             /\ \A x \in 1..n : v[x] = u[x]
             /\ \A x \in 1..m : w[x] = u[n + x]
             => u = v \o w
      BY <3>1, Joined
    <3> QED  BY <2>5, <3>2, <3>3, <3>4
  <2> QED  BY <2>6 DEF f, g, h
<1>8. out' # <<>> /\ Contents # <<>>
  <2>1. 1 \in DOMAIN out' /\ 1 \in DOMAIN Contents
    BY <1>1, <1>2 DEF Bytes
  <2> QED  BY <2>1
<1> QED  BY <1>7, <1>8 DEF Stream!Get

(* A writer adds its chunk behind what is there, which it leaves alone.    *)
LEMMA CopyInPuts ==
  ASSUME StreamInv, StreamInv', NEW p \in Procs, CopyIn(p), Quiet'
  PROVE  Stream!Put
<1> DEFINE s == start[p]
           n == chars[p]
           m == Size - chars[p]
           was == Contents
           is == Contents'
<1>1. /\ s \in Cells /\ s \in Nat /\ n \in Nat /\ n > 0 /\ s + n <= PAGE_SIZE
      /\ m \in Nat /\ Size = m + n /\ m + n < PAGE_SIZE /\ PAGE_SIZE \in Nat
      /\ tail \in Nat /\ tail < PAGE_SIZE
  <2>1. /\ s \in Cells /\ s \in Nat /\ n \in Nat /\ n > 0 /\ s + n <= PAGE_SIZE /\ n <= Size
        /\ tail \in Nat /\ tail < PAGE_SIZE /\ PAGE_SIZE \in Nat
    BY Numbers DEF StreamInv, TypeOK, CopyOK, CopyIn, Copying
  <2>2. Size \in Nat /\ Size < PAGE_SIZE
    BY SizeIs, Numbers DEF StreamInv, TypeOK
  <2> QED  BY <2>1, <2>2
<1>2. /\ head \in Cells /\ tail \in Cells /\ head = (s + n) % PAGE_SIZE /\ Ahead(head, tail) = m + n
  BY <1>1 DEF StreamInv, TypeOK, CopyOK, CopyIn, Copying, Size, Ahead
<1>3. was = Bytes(buf, tail, m)
  BY ContentsAre DEF CopyIn
<1>4. is = Bytes(buf', tail, m + n)
  <2>1. tail' = tail /\ Size' = Size
    BY DEF CopyIn, Size
  <2> QED  BY <1>1, <2>1, ContentsNext
<1>5. \A c \in Cells : c \notin s..(s + n - 1) => buf'[c] = buf[c]
  BY DEF CopyIn
<1>6. buf' \in [Cells -> Byte] /\ out' = out
  BY DEF StreamInv, TypeOK, CopyIn
<1> HIDE DEF s, n, m, was, is
(* The cells of the chunk are none of those that hold the contents.        *)
<1>7. ASSUME NEW j \in 1..m
      PROVE  (tail + j - 1) % PAGE_SIZE \in Cells \ (s..(s + n - 1))
  <2> DEFINE a == tail + j - 1
             c == a % PAGE_SIZE
  <2>1. /\ a \in Int /\ 0 <= a /\ a < PAGE_SIZE + PAGE_SIZE /\ j \in Nat /\ 1 <= j /\ j <= m
        /\ a = tail + j - 1
    BY <1>1
  <2> HIDE DEF a
  <2>2. PAGE_SIZE \in Nat \ {0}
    BY Numbers
  <2>3. /\ a < PAGE_SIZE => c = a
        /\ PAGE_SIZE <= a => c = a - PAGE_SIZE
    BY <2>1, <2>2, Modulo
  <2> HIDE DEF c
  <2>4. /\ s + n < PAGE_SIZE => head = s + n
        /\ s + n = PAGE_SIZE => head = 0
        /\ head >= tail => m + n = head - tail
        /\ head < tail => m + n = head - tail + PAGE_SIZE
    BY <1>1, <1>2, EndOfChunk, AheadIs
  <2>5. head \in Nat
    BY <1>2, Numbers
  <2>6. c \in Nat /\ c < PAGE_SIZE
    BY <1>1, <2>1, <2>3
  <2>7. c < s \/ c >= s + n
    BY <1>1, <2>1, <2>3, <2>4, <2>5
  <2>8. c \in Cells \ (s..(s + n - 1))
    BY <1>1, <2>6, <2>7, Numbers
  <2> QED  BY <2>8 DEF c, a
<1>8. \A j \in 1..(m + n) : is[j] \in Byte
  <2>1. SUFFICES ASSUME NEW j \in 1..(m + n) PROVE buf'[(tail + j - 1) % PAGE_SIZE] \in Byte
    BY <1>4 DEF Bytes
  <2>2. tail + j - 1 \in Nat
    BY <1>1
  <2>3. (tail + j - 1) % PAGE_SIZE \in Nat /\ (tail + j - 1) % PAGE_SIZE < PAGE_SIZE
    BY <2>2, Numbers
  <2> QED  BY <1>6, <2>3, Numbers
<1>9. \A j \in 1..m : is[j] = was[j] /\ was[j] \in Byte
  <2>1. SUFFICES ASSUME NEW j \in 1..m PROVE is[j] = was[j] /\ was[j] \in Byte
    OBVIOUS
  <2>2. j \in 1..(m + n)
    BY <1>1
  <2>3. /\ was[j] = buf[(tail + j - 1) % PAGE_SIZE]
        /\ is[j] = buf'[(tail + j - 1) % PAGE_SIZE]
    BY <1>3, <1>4, <2>2 DEF Bytes
  <2>4. buf'[(tail + j - 1) % PAGE_SIZE] = buf[(tail + j - 1) % PAGE_SIZE]
    BY <1>5, <1>7
  <2> QED  BY <1>8, <2>2, <2>3, <2>4
<1>10. /\ is \in Seq(Byte) /\ Len(is) = m + n
       /\ was \in Seq(Byte) /\ Len(was) = m
  <2>1. is \in [1..(m + n) -> Byte] /\ was \in [1..m -> Byte]
    BY <1>3, <1>4, <1>8, <1>9 DEF Bytes
  <2>2. m + n \in Nat
    BY <1>1
  <2> QED  BY <1>1, <2>1, <2>2, Written
<1>11. Stream!IsPrefix(was, is)
  <2>1. Len(was) <= Len(is)
    BY <1>1, <1>10
  <2> DEFINE f == SubSeq(was, 1, m)
             g == SubSeq(is, 1, m)
  <2>2. \A j \in 1..m : is[j] \in Byte /\ was[j] \in Byte
    BY <1>9
  <2>3. 1 \in Int /\ m \in Int
    BY <1>1
  <2>4. /\ f \in Seq(Byte) /\ Len(f) = IF 1 <= m THEN m - 1 + 1 ELSE 0
        /\ \A j \in 1..(m - 1 + 1) : f[j] = was[1 + j - 1]
    BY <2>2, <2>3, SubSeqProperties
  <2>5. /\ g \in Seq(Byte) /\ Len(g) = IF 1 <= m THEN m - 1 + 1 ELSE 0
        /\ \A j \in 1..(m - 1 + 1) : g[j] = is[1 + j - 1]
    BY <2>2, <2>3, SubSeqProperties
  <2> HIDE DEF f, g
  <2>6. \A j \in 1..m : f[j] = g[j]
    <3>1. SUFFICES ASSUME NEW j \in 1..m PROVE f[j] = g[j]
      OBVIOUS
    <3>2. j \in 1..(m - 1 + 1) /\ 1 + j - 1 = j
      BY <1>1
    <3> QED  BY <1>9, <2>4, <2>5, <3>2
  <2>7. Len(f) = m /\ Len(g) = m
    BY <1>1, <2>4, <2>5
  <2>8. f = g
    BY <2>4, <2>5, <2>6, <2>7, SeqEqual
  <2> QED  BY <1>10, <2>1, <2>8 DEF Stream!IsPrefix, f, g
<1>12. is # was /\ Len(is) <= PAGE_SIZE - 1
  BY <1>1, <1>10
<1>13. Contents' \in Seq(Byte) /\ Contents' # Contents /\ Stream!IsPrefix(Contents, Contents')
       /\ Len(Contents') <= PAGE_SIZE - 1
  BY <1>10, <1>11, <1>12 DEF was, is
<1> QED  BY <1>6, <1>13 DEF Stream!Put

LEMMA StreamStep ==
  ASSUME UserFaults = FALSE, StreamInv, StreamInv', [Next]_vars
  PROVE  [Stream!Next]_<<Contents, out>>
<1>1. CASE Rests
  BY <1>1, RestsContents DEF Rests, Stream!Next, Stream!Taken
<1>2. ASSUME NEW p \in Procs, NEW n \in Nat, CutsOut(p, n) \/ CutsIn(p, n)
      PROVE  [Stream!Next]_<<Contents, out>>
  BY <1>2, CutsContents DEF CutsOut, CutsIn, Stream!Next, Stream!Taken
<1>3. ASSUME NEW p \in Procs, Quiet', CopyOut(p) \/ CopyIn(p)
      PROVE  [Stream!Next]_<<Contents, out>>
  BY <1>3, CopyOutGets, CopyInPuts DEF Stream!Next
<1>4. CASE UNCHANGED vars
  BY <1>4 DEF vars, pipeVars, callVars, Contents, Leaving, Arriving, Size
<1> QED  BY <1>1, <1>2, <1>3, <1>4, StepIs

LEMMA StreamInit == Init => StreamInv /\ Stream!Init
<1> SUFFICES ASSUME Init PROVE StreamInv /\ Stream!Init
  OBVIOUS
<1>1. TypeOK
  BY TypeInit
<1>2. IInv /\ Quiet
  BY DEF Init, IInv, NoLostWakeup, Labels, Quiet, Copying
<1>3. StreamInv
  BY <1>1, <1>2 DEF StreamInv, CopyOK, Quiet, Copying
<1>4. Contents = Bytes(buf, tail, Size)
  BY <1>2, <1>3, ContentsAre
<1>5. Size = 0
  BY SizeIs, Numbers DEF Init
<1>6. Contents = <<>>
  BY <1>4, <1>5 DEF Bytes
<1> QED  BY <1>3, <1>6 DEF Init, Stream!Init

(* Bytes come out once each, in the order they went in, across the wrap of *)
(* the page and however the calls of readers and writers interleave.       *)
THEOREM StreamCorrect ==
  ASSUME UserFaults = FALSE
  PROVE  Spec => IsStream
<1>1. Init => StreamInv /\ Stream!Init
  BY StreamInit
<1>2. StreamInv /\ [Next]_vars => StreamInv'
  BY ZenonT(60), StreamInvStep
<1>3. StreamInv /\ StreamInv' /\ [Next]_vars => [Stream!Next]_<<Contents, out>>
  BY ZenonT(60), StreamStep
<1> QED  BY <1>1, <1>2, <1>3, PTL DEF Spec, IsStream, Stream!Spec
=============================================================================
