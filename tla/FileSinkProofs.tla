--------------------------- MODULE FileSinkProofs ---------------------------
(***************************************************************************)
(* Proofs about FileSink, for every buffer capacity and every set of chunk *)
(* sizes: what the invariants of FileSink say, and that the sink           *)
(* implements DurableLog, faults of the disk included.                     *)
(***************************************************************************)
EXTENDS FileSink, TLAPS

Increasing(s) == \A i, j \in 1 .. Len(s) : i < j => s[i] < s[j]

Below(s, m) == \A i \in 1 .. Len(s) : s[i] < m

FromZero(s) == \A i \in 1 .. Len(s) : s[i] = i - 1

-----------------------------------------------------------------------------
(* A run is a sequence of positions. *)
LEMMA RunProperties ==
  ASSUME NEW first \in Nat, NEW n \in Nat
  PROVE  /\ Run(first, n) \in Seq(Nat)
         /\ Len(Run(first, n)) = n
         /\ \A i \in 1 .. n : Run(first, n)[i] = first + i - 1
  BY DEF Run

(* Concatenation, element by element. *)
LEMMA ConcatElements ==
  ASSUME NEW s \in Seq(Nat), NEW t \in Seq(Nat)
  PROVE  /\ s \o t \in Seq(Nat)
         /\ Len(s \o t) = Len(s) + Len(t)
         /\ \A i \in 1 .. Len(s) : (s \o t)[i] = s[i]
         /\ \A i \in 1 .. Len(t) : (s \o t)[Len(s) + i] = t[i]
  OBVIOUS

(* Appending the run that starts at m to a sequence below m keeps it in      *)
(* order, and whole if it was whole.                                         *)
LEMMA AppendRun ==
  ASSUME NEW s \in Seq(Nat), NEW m \in Nat, NEW k \in Nat,
         Increasing(s), Below(s, m)
  PROVE  /\ s \o Run(m, k) \in Seq(Nat)
         /\ Len(s \o Run(m, k)) = Len(s) + k
         /\ Increasing(s \o Run(m, k))
         /\ Below(s \o Run(m, k), m + k)
         /\ FromZero(s) /\ Len(s) = m => FromZero(s \o Run(m, k))
<1> DEFINE r == Run(m, k)
<1> DEFINE c == s \o r
<1>1. r \in Seq(Nat) /\ Len(r) = k /\ \A i \in 1 .. k : r[i] = m + i - 1
  BY RunProperties
<1> HIDE DEF r
<1>8. /\ c \in Seq(Nat) /\ Len(c) = Len(s) + Len(r)
      /\ \A i \in 1 .. Len(s) : c[i] = s[i]
      /\ \A i \in 1 .. Len(r) : c[Len(s) + i] = r[i]
  <2>1. s \in Seq(Nat) /\ r \in Seq(Nat)
    BY <1>1
  <2> QED
    BY ONLY <2>1, ConcatElements
<1> HIDE DEF c
<1>2. /\ c \in Seq(Nat) /\ Len(c) = Len(s) + k
      /\ \A i \in 1 .. Len(s) : c[i] = s[i]
      /\ \A i \in 1 .. k : c[Len(s) + i] = r[i]
  BY ONLY <1>1, <1>8
<1>3. \A i \in 1 .. Len(c) : i > Len(s) => c[i] = m + (i - Len(s)) - 1
  <2> SUFFICES ASSUME NEW i \in 1 .. Len(c), i > Len(s)
               PROVE  c[i] = m + (i - Len(s)) - 1
    OBVIOUS
  <2>1. i - Len(s) \in 1 .. k
    BY <1>2
  <2>2. c[Len(s) + (i - Len(s))] = r[i - Len(s)]
    BY <1>2, <2>1
  <2> QED
    BY <1>1, <1>2, <2>1, <2>2
<1>7. \A i \in 1 .. Len(s) : c[i] = s[i] /\ s[i] \in Nat /\ s[i] < m
  BY <1>2 DEF Below
<1>4. Increasing(c)
  <2> SUFFICES ASSUME NEW i \in 1 .. Len(c), NEW j \in 1 .. Len(c), i < j
               PROVE  c[i] < c[j]
    BY DEF Increasing
  <2>1. CASE j <= Len(s)
    <3>1. i \in 1 .. Len(s) /\ j \in 1 .. Len(s)
      BY <2>1
    <3>2. s[i] < s[j]
      BY <3>1 DEF Increasing
    <3>3. c[i] = s[i] /\ c[j] = s[j]
      BY <1>7, <3>1
    <3> QED
      BY ONLY <3>2, <3>3
  <2>2. CASE i <= Len(s) /\ j > Len(s)
    <3>1. c[j] >= m
      BY <1>2, <1>3, <2>2
    <3>2. i \in 1 .. Len(s)
      BY <2>2
    <3> QED
      BY <1>3, <1>7, <2>2, <3>1, <3>2
  <2>3. CASE i > Len(s)
    <3>1. i \in Nat /\ j \in Nat /\ Len(s) \in Nat /\ j > Len(s)
      BY <1>2, <2>3
    <3>2. c[i] = m + (i - Len(s)) - 1 /\ c[j] = m + (j - Len(s)) - 1
      BY <1>3, <2>3, <3>1
    <3> QED
      BY <3>1, <3>2
  <2> QED
    BY <1>2, <2>1, <2>2, <2>3
<1>5. Below(c, m + k)
  <2> SUFFICES ASSUME NEW i \in 1 .. Len(c) PROVE c[i] < m + k
    BY DEF Below
  <2>1. CASE i <= Len(s)
    BY <1>7, <2>1
  <2>2. CASE i > Len(s)
    BY <1>2, <1>3, <2>2
  <2> QED
    BY <1>2, <2>1, <2>2
<1>6. FromZero(s) /\ Len(s) = m => FromZero(c)
  BY <1>2, <1>3 DEF FromZero
<1> QED
  BY <1>2, <1>4, <1>5, <1>6 DEF r, c

-----------------------------------------------------------------------------
(* The inductive invariant: the invariants of FileSink hold together. *)
IInv ==
  /\ TypeOK
  /\ BufferFits
  /\ InOrder
  /\ Conserved
  /\ Intact

(* The first byte that is still in the buffer, or the next to be offered. *)
First == offered - Len(buffered)

(* The bytes in the buffer are the run that ends the offered stream. *)
LEMMA BufferIsRun ==
  ASSUME IInv
  PROVE  /\ First \in Nat
         /\ Increasing(file) /\ Below(file, First)
         /\ \A w \in 0 .. Len(buffered) : SubSeq(buffered, 1, w) = Run(First, w)
<1> USE DEF IInv, TypeOK, First
<1>1. First \in Nat
  BY DEF Conserved
<1>2. Increasing(file)
  BY DEF InOrder, Increasing
<1>3. Below(file, First)
  <2> SUFFICES ASSUME NEW i \in 1 .. Len(file) PROVE file[i] < First
    BY DEF Below
  <2>1. file[i] \in Nat /\ file[i] + Len(buffered) < offered
    BY DEF InOrder
  <2> QED
    BY <2>1
<1> HIDE DEF First
<1>4. ASSUME NEW w \in 0 .. Len(buffered)
      PROVE  SubSeq(buffered, 1, w) = Run(First, w)
  <2> DEFINE b == SubSeq(buffered, 1, w)
  <2> DEFINE r == Run(First, w)
  <2>1. b \in Seq(Nat) /\ Len(b) = w /\ \A i \in 1 .. w : b[i] = buffered[i]
    OBVIOUS
  <2>5. w \in Nat
    OBVIOUS
  <2>2. r \in Seq(Nat) /\ Len(r) = w /\ \A i \in 1 .. w : r[i] = First + i - 1
    BY ONLY <1>1, <2>5, RunProperties
  <2>3. ASSUME NEW i \in 1 .. w PROVE b[i] = r[i]
    <3>1. i \in 1 .. Len(buffered)
      OBVIOUS
    <3>2. buffered[i] \in Nat /\ buffered[i] + Len(buffered) = offered + i - 1
      BY <3>1 DEF BufferFits
    <3>3. r[i] = offered - Len(buffered) + i - 1
      BY <2>2 DEF First
    <3> HIDE DEF b, r
    <3> QED
      BY <2>1, <3>2, <3>3
  <2> HIDE DEF b, r
  <2>4. b = r
    BY <2>1, <2>2, <2>3
  <2> QED
    BY <2>4 DEF b, r
<1> QED
  BY <1>1, <1>2, <1>3, <1>4

(* What flush_buffer() leaves in the file: still in order, below everything  *)
(* that is yet to be offered, and whole if all of the buffer was written.    *)
LEMMA DrainProperties ==
  ASSUME IInv, NEW w \in 0 .. Len(buffered)
  PROVE  /\ Flushed(w) \in Seq(Nat)
         /\ Len(Flushed(w)) = Len(file) + w
         /\ Increasing(Flushed(w))
         /\ Below(Flushed(w), offered)
         /\ dropped = 0 /\ refused = 0 /\ w = Len(buffered) =>
              FromZero(Flushed(w)) /\ Len(Flushed(w)) = offered
<1>1. Flushed(w) = file \o Run(First, w)
  BY BufferIsRun DEF Flushed
<1>2. /\ file \in Seq(Nat) /\ First \in Nat /\ w \in Nat
      /\ Increasing(file) /\ Below(file, First)
  BY BufferIsRun DEF IInv, TypeOK
<1>3. /\ Flushed(w) \in Seq(Nat)
      /\ Len(Flushed(w)) = Len(file) + w
      /\ Increasing(Flushed(w))
      /\ Below(Flushed(w), First + w)
      /\ FromZero(file) /\ Len(file) = First => FromZero(Flushed(w))
  BY <1>1, <1>2, AppendRun
<1>4. First + w <= offered
  BY <1>2 DEF First, IInv, TypeOK
<1>5. Below(Flushed(w), offered)
  <2> SUFFICES ASSUME NEW i \in 1 .. Len(Flushed(w))
               PROVE  Flushed(w)[i] < offered
    BY DEF Below
  <2>1. Flushed(w)[i] \in Nat /\ Flushed(w)[i] < First + w
    BY <1>3 DEF Below
  <2> QED
    BY <1>2, <1>4, <2>1 DEF IInv, TypeOK
<1>6. ASSUME dropped = 0, refused = 0, w = Len(buffered)
      PROVE  FromZero(Flushed(w)) /\ Len(Flushed(w)) = offered
  <2>1. FromZero(file)
    BY <1>6 DEF IInv, Intact, FromZero
  <2>2. Len(file) = First /\ Len(file) + w = offered
    BY <1>6 DEF IInv, TypeOK, Conserved, First
  <2> QED
    BY <1>3, <2>1, <2>2
<1> QED
  BY <1>3, <1>5, <1>6

(* w is what WriteFile can have written of n bytes. *)
LEMMA WrittenBound ==
  ASSUME NEW n \in Nat, NEW w \in Written(n)
  PROVE  w \in 0 .. n /\ (DiskFaults = FALSE => w = n)
  BY SinkAssumption DEF Written

(* A sink that was not opened has nothing to keep. *)
LEMMA InitInv == Init => IInv
  BY SinkAssumption DEF Init, IInv, TypeOK, BufferFits, InOrder, Conserved, Intact

(* A step that empties the buffer into the file keeps the invariant. *)
LEMMA DrainStep ==
  ASSUME IInv, NEW w \in 0 .. Len(buffered),
         file' = Flushed(w), dropped' = dropped + (Len(buffered) - w),
         buffered' = <<>>,
         UNCHANGED <<offered, refused>>,
         alive' \in BOOLEAN, file_handle_' \in BOOLEAN,
         write_buffer_' \in BOOLEAN, synced' \in Nat
  PROVE  IInv'
<1> USE SinkAssumption
<1>1. /\ Flushed(w) \in Seq(Nat)
      /\ Len(Flushed(w)) = Len(file) + w
      /\ Increasing(Flushed(w))
      /\ Below(Flushed(w), offered)
      /\ dropped = 0 /\ refused = 0 /\ w = Len(buffered) =>
           FromZero(Flushed(w)) /\ Len(Flushed(w)) = offered
  BY DrainProperties
<1>2. Len(buffered) \in Nat /\ dropped \in Nat
  BY DEF IInv, TypeOK
<1>3. TypeOK'
  BY <1>1, <1>2 DEF IInv, TypeOK
<1>4. BufferFits'
  BY DEF BufferFits
<1>5. InOrder'
  <2> SUFFICES /\ Increasing(Flushed(w))
               /\ \A i \in 1 .. Len(Flushed(w)) : Flushed(w)[i] + 0 < offered
    BY DEF InOrder, Increasing
  <2> QED
    BY <1>1 DEF Below
<1>6. Conserved'
  <2>1. Len(file') = Len(file) + w /\ Len(buffered') = 0 /\ Len(file) \in Nat
    BY <1>1 DEF IInv, TypeOK
  <2>2. /\ Len(file) + Len(buffered) + dropped + refused = offered
        /\ refused \in Nat
    BY DEF IInv, TypeOK, Conserved
  <2> QED
    BY <1>2, <2>1, <2>2 DEF Conserved
<1>7. Intact'
  <2> SUFFICES ASSUME dropped' = 0, refused' = 0
               PROVE  \A i \in 1 .. Len(file') : file'[i] = i - 1
    BY DEF Intact
  <2>1. dropped = 0 /\ w = Len(buffered) /\ refused = 0
    BY <1>2
  <2> QED
    BY <1>1, <2>1 DEF FromZero, IInv, TypeOK
<1> QED
  BY <1>3, <1>4, <1>5, <1>6, <1>7 DEF IInv

(* write() of a large chunk. *)
LEMMA DirectStep ==
  ASSUME IInv, NEW n \in Nat, NEW ok \in BOOLEAN, WriteDirect(n, ok)
  PROVE  IInv'
<1> USE SinkAssumption
<1>1. PICK w \in Written(Len(buffered)), k \in Written(n) :
        /\ file' = Flushed(w) \o Run(offered, k)
        /\ dropped' = dropped + (Len(buffered) - w)
        /\ refused' = refused + (n - k)
  BY DEF WriteDirect
<1>2. /\ buffered' = <<>> /\ offered' = offered + n
      /\ UNCHANGED <<alive, file_handle_, write_buffer_, synced>>
  BY DEF WriteDirect
<1>3. /\ file \in Seq(Nat) /\ Len(file) \in Nat /\ Len(buffered) \in Nat
      /\ offered \in Nat /\ dropped \in Nat /\ refused \in Nat
      /\ Len(file) + Len(buffered) + dropped + refused = offered
  BY DEF IInv, TypeOK, Conserved
<1>4. w \in 0 .. Len(buffered) /\ k \in 0 .. n
  BY <1>3, WrittenBound
<1>5. /\ Flushed(w) \in Seq(Nat)
      /\ Len(Flushed(w)) = Len(file) + w
      /\ Increasing(Flushed(w))
      /\ Below(Flushed(w), offered)
      /\ dropped = 0 /\ refused = 0 /\ w = Len(buffered) =>
           FromZero(Flushed(w)) /\ Len(Flushed(w)) = offered
  BY <1>4, DrainProperties
<1>6. /\ file' \in Seq(Nat)
      /\ Len(file') = Len(Flushed(w)) + k
      /\ Increasing(file')
      /\ Below(file', offered + k)
      /\ FromZero(Flushed(w)) /\ Len(Flushed(w)) = offered => FromZero(file')
  <2> DEFINE f == Flushed(w)
  <2>1. f \in Seq(Nat) /\ Increasing(f) /\ Below(f, offered) /\ k \in Nat
    BY <1>4, <1>5
  <2>2. file' = f \o Run(offered, k)
    BY <1>1
  <2> HIDE DEF f
  <2>3. /\ file' \in Seq(Nat) /\ Len(file') = Len(f) + k
        /\ Increasing(file') /\ Below(file', offered + k)
        /\ FromZero(f) /\ Len(f) = offered => FromZero(file')
    BY ONLY <1>3, <2>1, <2>2, AppendRun
  <2> QED
    BY <2>3 DEF f
<1>7. TypeOK'
  BY <1>1, <1>2, <1>3, <1>4, <1>6 DEF IInv, TypeOK
<1>8. BufferFits'
  BY <1>2 DEF BufferFits
<1>9. InOrder'
  <2>1. ASSUME NEW i \in 1 .. Len(file') PROVE file'[i] + 0 < offered'
    <3>1. file'[i] \in Nat /\ file'[i] < offered + k
      BY <1>6 DEF Below
    <3> QED
      BY <1>2, <1>3, <1>4, <3>1
  <2>2. Len(buffered') = 0
    BY <1>2
  <2> QED
    BY <1>6, <2>1, <2>2 DEF InOrder, Increasing
<1>10. Conserved'
  <2>1. Len(buffered') = 0 /\ Len(file') = Len(file) + w + k
    BY <1>2, <1>5, <1>6
  <2>2. /\ dropped' = dropped + (Len(buffered) - w)
        /\ refused' = refused + (n - k) /\ offered' = offered + n
        /\ w \in Nat /\ k \in Nat
    BY <1>1, <1>2, <1>4
  <2> QED
    BY ONLY <1>3, <2>1, <2>2, n \in Nat DEF Conserved
<1>11. Intact'
  <2> SUFFICES ASSUME dropped' = 0, refused' = 0
               PROVE  FromZero(file')
    BY DEF Intact, FromZero
  <2>1. dropped = 0 /\ w = Len(buffered) /\ refused = 0 /\ k = n
    BY <1>1, <1>3, <1>4
  <2>2. FromZero(Flushed(w)) /\ Len(Flushed(w)) = offered
    BY <1>5, <2>1
  <2> QED
    BY <1>6, <2>2
<1> QED
  BY <1>7, <1>8, <1>9, <1>10, <1>11 DEF IInv

(* write() of a chunk that fits in the buffer. *)
LEMMA CopyStep ==
  ASSUME IInv, NEW n \in Nat, NEW ok \in BOOLEAN, WriteCopy(n, ok)
  PROVE  IInv'
<1> USE SinkAssumption
<1> DEFINE r == Run(offered, n)
<1>1. /\ buffered' = buffered \o r /\ offered' = offered + n
      /\ Len(buffered) + n <= WRITE_BUFFER_SIZE
      /\ UNCHANGED <<alive, file_handle_, write_buffer_, file, synced, dropped,
                     refused>>
  BY DEF WriteCopy
<1>2. /\ buffered \in Seq(Nat) /\ Len(buffered) \in Nat
      /\ file \in Seq(Nat) /\ Len(file) \in Nat
      /\ offered \in Nat /\ dropped \in Nat /\ refused \in Nat
      /\ Len(file) + Len(buffered) + dropped + refused = offered
  BY DEF IInv, TypeOK, Conserved
<1>3. r \in Seq(Nat) /\ Len(r) = n /\ \A i \in 1 .. n : r[i] = offered + i - 1
  BY <1>2, RunProperties
<1> HIDE DEF r
<1>4. /\ buffered' \in Seq(Nat) /\ Len(buffered') = Len(buffered) + n
      /\ \A i \in 1 .. Len(buffered) : buffered'[i] = buffered[i]
      /\ \A i \in 1 .. n : buffered'[Len(buffered) + i] = r[i]
  BY <1>1, <1>2, <1>3, ConcatElements
<1>5. TypeOK'
  BY <1>1, <1>2, <1>4 DEF IInv, TypeOK
<1>6. BufferFits'
  <2>1. ASSUME NEW i \in 1 .. Len(buffered')
        PROVE  buffered'[i] + Len(buffered') = offered' + i - 1
    <3>1. CASE i <= Len(buffered)
      <4>1. /\ buffered'[i] = buffered[i] /\ buffered[i] \in Nat
            /\ buffered[i] + Len(buffered) = offered + i - 1
        <5>1. i \in 1 .. Len(buffered)
          BY <1>2, <1>4, <3>1
        <5>2. buffered'[i] = buffered[i]
          BY <1>4, <5>1
        <5>3. buffered[i] \in Nat
          BY <1>2, <5>1
        <5>4. buffered[i] + Len(buffered) = offered + i - 1
          BY <5>1 DEF IInv, BufferFits
        <5> QED
          BY <5>2, <5>3, <5>4
      <4>2. offered' = offered + n /\ Len(buffered') = Len(buffered) + n
        BY <1>1, <1>4
      <4>3. i \in Nat
        BY <1>4
      <4>4. buffered[i] + (Len(buffered) + n) = (offered + n) + i - 1
        <5>1. buffered[i] \in Nat /\ Len(buffered) \in Nat /\ offered \in Nat
          BY <1>2, <4>1
        <5>2. buffered[i] + Len(buffered) = offered + i - 1
          BY <4>1
        <5>3. n \in Nat
          OBVIOUS
        <5> QED
          BY ONLY <4>3, <5>1, <5>2, <5>3
      <4> QED
        BY <4>1, <4>2, <4>4
    <3>2. CASE i > Len(buffered)
      <4>1. i - Len(buffered) \in 1 .. n
        BY <1>2, <1>4, <3>2
      <4>2. buffered'[Len(buffered) + (i - Len(buffered))] = r[i - Len(buffered)]
        BY <1>4, <4>1
      <4>3. Len(buffered) + (i - Len(buffered)) = i /\ i \in Nat
        BY <1>2, <1>4
      <4>4. buffered'[i] = offered + (i - Len(buffered)) - 1
        BY <1>3, <4>1, <4>2, <4>3
      <4> QED
        BY <1>1, <1>2, <1>4, <4>3, <4>4
    <3> QED
      BY <1>2, <1>4, <3>1, <3>2
  <2> QED
    BY <1>1, <1>4, <2>1 DEF BufferFits
<1>10. /\ offered' = offered + n /\ Len(buffered') = Len(buffered) + n
       /\ UNCHANGED <<file, dropped, refused>>
  BY <1>1, <1>4
<1>7. InOrder'
  <2>1. ASSUME NEW i \in 1 .. Len(file)
        PROVE  file[i] + Len(buffered') < offered'
    <3>1. file[i] \in Nat /\ file[i] + Len(buffered) < offered
      BY <1>2 DEF IInv, InOrder
    <3>2. file[i] + (Len(buffered) + n) < offered + n
      BY ONLY <1>2, <3>1, n \in Nat
    <3> QED
      BY ONLY <1>10, <3>2
  <2>2. \A i, j \in 1 .. Len(file) : i < j => file[i] < file[j]
    BY DEF IInv, InOrder
  <2> QED
    BY ONLY <1>10, <2>1, <2>2 DEF InOrder
<1>8. Conserved'
  <2>1. Len(file) + (Len(buffered) + n) + dropped + refused = offered + n
    BY ONLY <1>2, n \in Nat
  <2> QED
    BY ONLY <1>10, <2>1 DEF Conserved
<1>9. Intact'
  BY <1>10 DEF IInv, Intact
<1> QED
  BY <1>5, <1>6, <1>7, <1>8, <1>9 DEF IInv

(* write() of a chunk that makes flush_buffer() run first. *)
LEMMA SpillStep ==
  ASSUME IInv, NEW n \in Nat, NEW ok \in BOOLEAN, WriteSpill(n, ok)
  PROVE  IInv'
<1> USE SinkAssumption
<1> DEFINE r == Run(offered, n)
<1>1. PICK w \in Written(Len(buffered)) :
        file' = Flushed(w) /\ dropped' = dropped + (Len(buffered) - w)
  BY DEF WriteSpill
<1>2. /\ buffered' = r /\ offered' = offered + n /\ n < WRITE_BUFFER_SIZE
      /\ UNCHANGED <<alive, file_handle_, write_buffer_, synced, refused>>
  BY DEF WriteSpill
<1>3. /\ Len(file) \in Nat /\ Len(buffered) \in Nat
      /\ offered \in Nat /\ dropped \in Nat /\ refused \in Nat
      /\ Len(file) + Len(buffered) + dropped + refused = offered
  BY DEF IInv, TypeOK, Conserved
<1>4. w \in 0 .. Len(buffered)
  BY <1>3, WrittenBound
<1>5. /\ file' \in Seq(Nat)
      /\ Len(file') = Len(file) + w
      /\ Increasing(file')
      /\ Below(file', offered)
      /\ dropped = 0 /\ refused = 0 /\ w = Len(buffered) =>
           FromZero(file') /\ Len(file') = offered
  BY <1>1, <1>4, DrainProperties
<1>6. r \in Seq(Nat) /\ Len(r) = n /\ \A i \in 1 .. n : r[i] = offered + i - 1
  BY <1>3, RunProperties
<1> HIDE DEF r
<1>7. TypeOK'
  BY <1>1, <1>2, <1>3, <1>4, <1>5, <1>6 DEF IInv, TypeOK
<1>8. BufferFits'
  <2>1. ASSUME NEW i \in 1 .. n PROVE r[i] + n = (offered + n) + i - 1
    BY <1>3, <1>6
  <2> QED
    BY <1>2, <1>6, <2>1 DEF BufferFits
<1>9. InOrder'
  <2>1. ASSUME NEW i \in 1 .. Len(file') PROVE file'[i] + n < offered + n
    <3>1. file'[i] \in Nat /\ file'[i] < offered
      BY <1>5 DEF Below
    <3> QED
      BY <1>3, <3>1
  <2> QED
    BY <1>2, <1>5, <1>6, <2>1 DEF InOrder, Increasing
<1>10. Conserved'
  <2>1. w \in Nat /\ Len(buffered') = n
    BY <1>2, <1>4, <1>6
  <2>2. /\ Len(file') = Len(file) + w /\ offered' = offered + n
        /\ dropped' = dropped + (Len(buffered) - w) /\ refused' = refused
    BY <1>1, <1>2, <1>5
  <2>3. (Len(file) + w) + n + (dropped + (Len(buffered) - w)) + refused
          = offered + n
    BY ONLY <1>3, <2>1, n \in Nat
  <2> QED
    BY ONLY <2>1, <2>2, <2>3 DEF Conserved
<1>11. Intact'
  <2> SUFFICES ASSUME dropped' = 0, refused' = 0
               PROVE  FromZero(file')
    BY DEF Intact, FromZero
  <2>1. dropped = 0 /\ w = Len(buffered) /\ refused = 0
    BY <1>1, <1>2, <1>3, <1>4
  <2> QED
    BY <1>5, <2>1
<1> QED
  BY <1>7, <1>8, <1>9, <1>10, <1>11 DEF IInv

(* The steps of the sink, without the bound on the bytes offered to it. *)
Step == (\E n \in Sizes, ok \in BOOLEAN : Write(n, ok)) \/ Flush \/ Destroy

(* The bound only leaves steps out. *)
LEMMA NextIsStep == [Next]_sinkVars => [Step]_sinkVars
  BY DEF Next, Step

(* Every step keeps the invariant. *)
LEMMA StepInv == IInv /\ [Step]_sinkVars => IInv'
<1> SUFFICES ASSUME IInv, [Step]_sinkVars PROVE IInv'
  OBVIOUS
<1>1. ASSUME NEW n \in Sizes, NEW ok \in BOOLEAN, Write(n, ok) PROVE IInv'
  <2>1. n \in Nat
    BY SinkAssumption
  <2>2. CASE WriteUnusable(n, ok)
    BY <2>2 DEF WriteUnusable, sinkVars, IInv, TypeOK, BufferFits, InOrder,
                Conserved, Intact
  <2>3. CASE WriteDirect(n, ok)
    BY <2>1, <2>3, DirectStep
  <2>4. CASE WriteCopy(n, ok)
    BY <2>1, <2>4, CopyStep
  <2>5. CASE WriteSpill(n, ok)
    BY <2>1, <2>5, SpillStep
  <2> QED
    BY <1>1, <2>2, <2>3, <2>4, <2>5 DEF Write
<1>2. CASE Flush
  <2>1. PICK w \in Written(Len(buffered)) :
          file' = Flushed(w) /\ dropped' = dropped + (Len(buffered) - w)
    BY <1>2 DEF Flush
  <2>2. w \in 0 .. Len(buffered)
    <3>1. Len(buffered) \in Nat
      BY DEF IInv, TypeOK
    <3> QED
      BY ONLY <3>1, w \in Written(Len(buffered)), WrittenBound
  <2>3. Len(file') \in Nat
    BY <2>1, <2>2, DrainProperties
  <2>4. synced' \in Nat
    BY <1>2, <2>3 DEF Flush, Sync, IInv, TypeOK
  <2> QED
    BY <1>2, <2>1, <2>2, <2>4, DrainStep DEF Flush, IInv, TypeOK
<1>3. CASE Destroy
  <2>1. PICK w \in Written(Len(buffered)) :
          file' = Flushed(w) /\ dropped' = dropped + (Len(buffered) - w)
    BY <1>3 DEF Destroy
  <2>2. w \in 0 .. Len(buffered)
    <3>1. Len(buffered) \in Nat
      BY DEF IInv, TypeOK
    <3> QED
      BY ONLY <3>1, w \in Written(Len(buffered)), WrittenBound
  <2> QED
    BY <1>3, <2>1, <2>2, DrainStep DEF Destroy, IInv, TypeOK
<1>4. CASE UNCHANGED sinkVars
  BY <1>4 DEF sinkVars, IInv, TypeOK, BufferFits, InOrder, Conserved, Intact
<1> QED
  BY <1>1, <1>2, <1>3, <1>4 DEF Step

(* So does every step within the bound. *)
LEMMA NextInv == IInv /\ [Next]_sinkVars => IInv'
  BY StepInv, NextIsStep

-----------------------------------------------------------------------------
(* The inductive invariant of the file sink. *)
LEMMA Invariant == Spec => []IInv
  BY InitInv, NextInv, PTL DEF Spec

(* The file, the buffer and the counts keep their types. *)
THEOREM SinkTypes == Spec => []TypeOK
<1>1. IInv => TypeOK
  BY DEF IInv
<1> QED
  BY <1>1, Invariant, PTL

(* memcpy never runs past write_buffer_, whatever the chunks. *)
THEOREM BufferNeverOverflows == Spec => []BufferFits
<1>1. IInv => BufferFits
  BY DEF IInv
<1> QED
  BY <1>1, Invariant, PTL

(* Coalesced and direct writes reach the file in the order they were made.   *)
THEOREM BytesInOrder == Spec => []InOrder
<1>1. IInv => InOrder
  BY DEF IInv
<1> QED
  BY <1>1, Invariant, PTL

(* No byte is lost or made up but those a failing WriteFile leaves out.      *)
THEOREM BytesConserved == Spec => []Conserved
<1>1. IInv => Conserved
  BY DEF IInv
<1> QED
  BY <1>1, Invariant, PTL

(* While no WriteFile fell short, file and buffer hold the whole stream.     *)
THEOREM StreamIntact == Spec => []Intact
<1>1. IInv => Intact
  BY DEF IInv
<1> QED
  BY <1>1, Invariant, PTL

-----------------------------------------------------------------------------
(* Appending nothing, appending twice, and taking all of a sequence. *)
LEMMA ConcatEmpty == \A s \in Seq(Nat) : s \o <<>> = s
  OBVIOUS

(* Appending twice is appending the two together. *)
LEMMA ConcatAssoc ==
  \A s, t, u \in Seq(Nat) : (s \o t) \o u = s \o (t \o u)
  OBVIOUS

(* All of a sequence. *)
LEMMA SubSeqAll == \A s \in Seq(Nat) : SubSeq(s, 1, Len(s)) = s
  OBVIOUS

(* When nothing was lost before or in a drain of the buffer, all of it has   *)
(* reached the file.                                                         *)
LEMMA FullDrain ==
  ASSUME IInv, NEW w \in Written(Len(buffered)),
         dropped' = dropped + (Len(buffered) - w)
  PROVE  /\ dropped' \in Nat /\ dropped' >= dropped
         /\ dropped' = 0 => w = Len(buffered) /\ Flushed(w) = file \o buffered
<1>1. buffered \in Seq(Nat) /\ Len(buffered) \in Nat /\ dropped \in Nat
  BY DEF IInv, TypeOK
<1>2. w \in 0 .. Len(buffered)
  BY ONLY <1>1, w \in Written(Len(buffered)), WrittenBound
<1>3. SubSeq(buffered, 1, Len(buffered)) = buffered
  BY ONLY <1>1, SubSeqAll
<1>4. dropped' \in Nat /\ dropped' >= dropped
  BY <1>1, <1>2
<1>5. dropped' = 0 => w = Len(buffered)
  BY <1>1, <1>2
<1> QED
  BY <1>3, <1>4, <1>5 DEF Flushed

(* The log of the promise, while it holds. *)
Log == file \o buffered

(* The mapped log is made of two logs. *)
LEMMA LogType ==
  ASSUME IInv
  PROVE  /\ file \in Seq(Nat) /\ buffered \in Seq(Nat) /\ Log \in Seq(Nat)
         /\ Len(Log) = Len(file) + Len(buffered)
         /\ Lossless => Len(Log) = offered
<1>1. /\ file \in Seq(Nat) /\ buffered \in Seq(Nat)
      /\ Len(file) \in Nat /\ Len(buffered) \in Nat
      /\ Len(file) + Len(buffered) + dropped + refused = offered
  BY DEF IInv, TypeOK, Conserved
<1>2. Log \in Seq(Nat) /\ Len(Log) = Len(file) + Len(buffered)
  BY ONLY <1>1, ConcatElements DEF Log
<1> QED
  BY <1>1, <1>2 DEF Lossless

(* A write() that the sink accepts whole appends its chunk to the log. *)
LEMMA WriteAppends ==
  ASSUME IInv, NEW n \in Nat, NEW ok \in BOOLEAN, Write(n, ok),
         Lossless, Lossless', UNCHANGED sinkVars => FALSE
  PROVE  Log' = Log \o Run(offered, n) /\ synced' = synced
<1>1. /\ file \in Seq(Nat) /\ buffered \in Seq(Nat) /\ Log \in Seq(Nat)
      /\ offered \in Nat /\ Len(buffered) \in Nat
  BY LogType DEF IInv, TypeOK
<1>2. Run(offered, n) \in Seq(Nat)
  BY <1>1, RunProperties
<1>3. CASE WriteDirect(n, ok)
  <2>1. PICK w \in Written(Len(buffered)), k \in Written(n) :
          /\ file' = Flushed(w) \o Run(offered, k)
          /\ dropped' = dropped + (Len(buffered) - w)
          /\ refused' = refused + (n - k)
    BY <1>3 DEF WriteDirect
  <2>2. k \in 0 .. n
    BY ONLY n \in Nat, k \in Written(n), WrittenBound
  <2>3. k = n
    BY <2>1, <2>2 DEF Lossless
  <2>4. Flushed(w) = Log
    BY <2>1, FullDrain DEF Lossless, Log
  <2>5. Log \o Run(offered, n) \in Seq(Nat)
    BY ONLY <1>1, <1>2, ConcatElements
  <2>6. buffered' = <<>> /\ synced' = synced
    BY <1>3 DEF WriteDirect
  <2>7. file' = Log \o Run(offered, n)
    BY <2>1, <2>3, <2>4
  <2>8. file' \o <<>> = file'
    BY ONLY <2>5, <2>7, ConcatEmpty
  <2> QED
    BY <2>6, <2>7, <2>8 DEF Log
<1>4. CASE WriteCopy(n, ok)
  <2>1. /\ file' = file /\ buffered' = buffered \o Run(offered, n)
        /\ synced' = synced
    BY <1>4 DEF WriteCopy
  <2>2. file \o (buffered \o Run(offered, n)) = Log \o Run(offered, n)
    BY ONLY <1>1, <1>2, ConcatAssoc DEF Log
  <2> QED
    BY <2>1, <2>2 DEF Log
<1>5. CASE WriteSpill(n, ok)
  <2>1. PICK w \in Written(Len(buffered)) :
          file' = Flushed(w) /\ dropped' = dropped + (Len(buffered) - w)
    BY <1>5 DEF WriteSpill
  <2>2. Flushed(w) = Log
    BY <2>1, FullDrain DEF Lossless, Log
  <2>3. buffered' = Run(offered, n) /\ synced' = synced
    BY <1>5 DEF WriteSpill
  <2> QED
    BY <2>1, <2>2, <2>3 DEF Log
<1>6. ~WriteUnusable(n, ok)
  BY DEF WriteUnusable
<1> QED
  BY <1>3, <1>4, <1>5, <1>6 DEF Write

(* What was lost stays lost. *)
LEMMA LossStays ==
  ASSUME IInv, [Step]_sinkVars, Lossless'
  PROVE  Lossless
<1>1. dropped \in Nat /\ refused \in Nat /\ Len(buffered) \in Nat
  BY DEF IInv, TypeOK
<1>2. ASSUME NEW w \in Written(Len(buffered)),
             dropped' = dropped + (Len(buffered) - w)
      PROVE  dropped = 0
  <2>1. dropped' >= dropped /\ dropped' = 0
    BY <1>2, FullDrain DEF Lossless
  <2> QED
    BY <1>1, <2>1
<1>3. ASSUME NEW n \in Sizes, NEW ok \in BOOLEAN, Write(n, ok)
      PROVE  Lossless
  <2>1. n \in Nat
    BY SinkAssumption
  <2>2. CASE WriteDirect(n, ok)
    <3>1. PICK w \in Written(Len(buffered)), k \in Written(n) :
            /\ dropped' = dropped + (Len(buffered) - w)
            /\ refused' = refused + (n - k)
      BY <2>2 DEF WriteDirect
    <3>2. k \in 0 .. n
      BY ONLY <2>1, k \in Written(n), WrittenBound
    <3>3. refused = 0
      BY <1>1, <2>1, <3>1, <3>2 DEF Lossless
    <3> QED
      BY <1>2, <3>1, <3>3 DEF Lossless
  <2>3. CASE WriteSpill(n, ok)
    BY <1>2, <2>3 DEF WriteSpill, Lossless
  <2>4. CASE WriteCopy(n, ok) \/ WriteUnusable(n, ok)
    BY <2>4 DEF WriteCopy, WriteUnusable, sinkVars, Lossless
  <2> QED
    BY <1>3, <2>2, <2>3, <2>4 DEF Write
<1>4. CASE Flush
  BY <1>2, <1>4 DEF Flush, Lossless
<1>5. CASE Destroy
  BY <1>2, <1>5 DEF Destroy, Lossless
<1>6. CASE UNCHANGED sinkVars
  BY <1>6 DEF sinkVars, Lossless
<1> QED
  BY <1>3, <1>4, <1>5, <1>6 DEF Step

(* A drain that loses nothing leaves the log as it was. *)
LEMMA DrainKeepsLog ==
  ASSUME IInv, NEW w \in Written(Len(buffered)), file' = Flushed(w),
         dropped' = dropped + (Len(buffered) - w), buffered' = <<>>, Lossless'
  PROVE  Log' = Log /\ Len(file') = Len(Log)
<1>1. file' = Log
  BY FullDrain DEF Lossless, Log
<1>2. Log \in Seq(Nat)
  BY LogType
<1>3. Log \o <<>> = Log
  BY ONLY <1>2, ConcatEmpty
<1> QED
  BY <1>1, <1>3 DEF Log

(* Every step that loses nothing appends a chunk, makes the log durable, or  *)
(* changes neither the log nor how much of it is durable.                    *)
LEMMA LosslessStep ==
  ASSUME IInv, [Step]_sinkVars, Lossless, Lossless'
  PROVE  \/ \E n \in Sizes : Log' = Log \o Run(offered, n) /\ synced' = synced
         \/ Log' = Log /\ synced' = Len(Log)
         \/ Log' = Log /\ synced' = synced
<1>1. CASE UNCHANGED sinkVars
  BY <1>1 DEF sinkVars, Log
<1>2. ASSUME NEW n \in Sizes, NEW ok \in BOOLEAN, Write(n, ok),
             ~UNCHANGED sinkVars
      PROVE  Log' = Log \o Run(offered, n) /\ synced' = synced
  <2>1. n \in Nat
    BY SinkAssumption
  <2> QED
    BY <1>2, <2>1, WriteAppends
<1>3. CASE Flush
  <2>1. PICK w \in Written(Len(buffered)) :
          file' = Flushed(w) /\ dropped' = dropped + (Len(buffered) - w)
    BY <1>3 DEF Flush
  <2>2. buffered' = <<>> /\ (synced' = Len(file') \/ synced' = synced)
    BY <1>3 DEF Flush, Sync
  <2>3. Log' = Log /\ Len(file') = Len(Log)
    BY <2>1, <2>2, DrainKeepsLog
  <2> QED
    BY <2>2, <2>3
<1>4. CASE Destroy
  <2>1. PICK w \in Written(Len(buffered)) :
          file' = Flushed(w) /\ dropped' = dropped + (Len(buffered) - w)
    BY <1>4 DEF Destroy
  <2>2. buffered' = <<>> /\ synced' = synced
    BY <1>4 DEF Destroy
  <2>3. Log' = Log
    BY <2>1, <2>2, DrainKeepsLog
  <2> QED
    BY <2>2, <2>3
<1> QED
  BY <1>1, <1>2, <1>3, <1>4 DEF Step

(* A step of the sink is a step of the log, or leaves what is promised as it *)
(* is; the step that loses the first byte is the one that breaks the promise.*)
LEMMA StepSimulation ==
  ASSUME IInv, [Step]_sinkVars
  PROVE  [Promise!Next]_<<Lossless,
                          IF Lossless THEN file \o buffered ELSE <<>>,
                          IF Lossless THEN synced ELSE 0>>
<1> USE DEF Log
<1>1. CASE ~Lossless
  <2>1. ~Lossless'
    BY <1>1, LossStays
  <2> QED
    BY <1>1, <2>1 DEF Lossless
<1>2. CASE Lossless /\ ~Lossless'
  <2>1. Promise!Break
    BY <1>2 DEF Promise!Break, Lossless
  <2> QED
    BY <2>1 DEF Promise!Next
<1>3. CASE Lossless /\ Lossless'
  <2>1. Len(Log) = offered
    BY <1>3, LogType
  <2>2. CASE \E n \in Sizes : Log' = Log \o Run(offered, n) /\ synced' = synced
    <3>1. PICK n \in Sizes : Log' = Log \o Run(offered, n) /\ synced' = synced
      BY <2>2
    <3>2. Promise!Put(n)
      BY <1>3, <2>1, <3>1 DEF Promise!Put, Run, Lossless
    <3> QED
      BY <3>2 DEF Promise!Next
  <2>3. CASE Log' = Log /\ synced' = Len(Log)
    <3>1. Promise!Harden
      BY <1>3, <2>3 DEF Promise!Harden, Lossless
    <3> QED
      BY <3>1 DEF Promise!Next
  <2>4. CASE Log' = Log /\ synced' = synced
    BY <1>3, <2>4 DEF Lossless
  <2> QED
    BY <1>3, <2>2, <2>3, <2>4, LosslessStep
<1> QED
  BY <1>1, <1>2, <1>3 DEF Lossless

(* The sink starts as an empty log. *)
LEMMA InitSimulation == Init => Promise!Init
<1> SUFFICES ASSUME Init PROVE Promise!Init
  OBVIOUS
<1>1. Lossless /\ file \o buffered = <<>> /\ synced = 0
  BY ConcatEmpty DEF Init, Lossless
<1> QED
  BY <1>1 DEF Promise!Init, Lossless

(* Until the disk loses a byte, and then it is the disk that broke the        *)
(* promise, the buffered sink is a durable log: buffering changes neither    *)
(* what is written nor what flush() makes durable.                           *)
THEOREM SinkImplementsLog == Spec => ImplementsDurableLog
<1>1. Init => Promise!Init
  BY InitSimulation
<1>2. IInv /\ [Next]_sinkVars =>
        [Promise!Next]_<<Lossless,
                         IF Lossless THEN file \o buffered ELSE <<>>,
                         IF Lossless THEN synced ELSE 0>>
  BY StepSimulation, NextIsStep
<1> QED
  BY <1>1, <1>2, Invariant, PTL
  DEF Spec, ImplementsDurableLog, Promise!Spec

=============================================================================
