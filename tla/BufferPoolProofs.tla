-------------------------- MODULE BufferPoolProofs ---------------------------
(***************************************************************************)
(* Proofs about BufferPool, for every number of buffers and of callers.    *)
(***************************************************************************)
EXTENDS BufferPool, TLAPS

(* The inductive invariant: the types, and that no buffer is in two places. *)
IInv ==
  /\ free_buffers_ \in Seq(Buffers)
  /\ held \in [Callers -> SUBSET Buffers]
  /\ BuffersConserved

(* Taking the front off a FIFO without duplicates. *)
LEMMA TailElements ==
  ASSUME NEW S, NEW q \in Seq(S), q # <<>>,
         \A i, j \in 1 .. Len(q) : q[i] = q[j] => i = j
  PROVE  /\ Head(q) \in S /\ Tail(q) \in Seq(S)
         /\ \A i, j \in 1 .. Len(Tail(q)) : Tail(q)[i] = Tail(q)[j] => i = j
         /\ {Tail(q)[i] : i \in 1 .. Len(Tail(q))}
              = {q[i] : i \in 1 .. Len(q)} \ {Head(q)}
<1>1. /\ Tail(q) \in Seq(S) /\ Len(q) \in Nat \ {0} /\ Len(Tail(q)) = Len(q) - 1
      /\ \A i \in 1 .. Len(q) - 1 : Tail(q)[i] = q[i + 1]
      /\ Head(q) = q[1] /\ Head(q) \in S
  OBVIOUS
<1> DEFINE t == Tail(q)
<1>2. \A i, j \in 1 .. Len(t) : t[i] = t[j] => i = j
  <2> SUFFICES ASSUME NEW i \in 1 .. Len(t), NEW j \in 1 .. Len(t), t[i] = t[j]
               PROVE  i = j
    OBVIOUS
  <2>1. i + 1 \in 1 .. Len(q) /\ j + 1 \in 1 .. Len(q) /\ q[i + 1] = q[j + 1]
    BY <1>1
  <2>2. i + 1 = j + 1
    BY <2>1
  <2> QED
    BY <1>1, <2>2
<1>3. ASSUME NEW i \in 1 .. Len(t)
      PROVE  t[i] \in {q[k] : k \in 1 .. Len(q)} \ {Head(q)}
  <2>1. i + 1 \in 1 .. Len(q) /\ 1 \in 1 .. Len(q) /\ i + 1 # 1 /\ t[i] = q[i + 1]
    BY <1>1
  <2>2. q[i + 1] # q[1]
    BY <2>1
  <2> QED
    BY <1>1, <2>1, <2>2
<1>4. ASSUME NEW k \in 1 .. Len(q), q[k] # Head(q)
      PROVE  \E i \in 1 .. Len(t) : t[i] = q[k]
  <2>1. k # 1
    BY <1>1, <1>4
  <2>2. k - 1 \in 1 .. Len(t) /\ t[k - 1] = q[(k - 1) + 1]
    BY <1>1, <2>1
  <2>3. (k - 1) + 1 = k
    OBVIOUS
  <2> QED
    BY <2>2, <2>3
<1> HIDE DEF t
<1>5. {t[i] : i \in 1 .. Len(t)} = {q[i] : i \in 1 .. Len(q)} \ {Head(q)}
  BY <1>3, <1>4
<1> QED
  BY <1>1, <1>2, <1>5 DEF t

(* Adding an element that is not there to the end. *)
LEMMA AppendElement ==
  ASSUME NEW S, NEW q \in Seq(S), NEW b \in S,
         b \notin {q[i] : i \in 1 .. Len(q)},
         \A i, j \in 1 .. Len(q) : q[i] = q[j] => i = j
  PROVE  /\ Append(q, b) \in Seq(S)
         /\ \A i, j \in 1 .. Len(Append(q, b)) :
              Append(q, b)[i] = Append(q, b)[j] => i = j
         /\ {Append(q, b)[i] : i \in 1 .. Len(Append(q, b))}
              = {q[i] : i \in 1 .. Len(q)} \cup {b}
<1> DEFINE a == Append(q, b)
<1>1. /\ a \in Seq(S) /\ Len(q) \in Nat /\ Len(a) = Len(q) + 1
      /\ \A i \in 1 .. Len(q) : a[i] = q[i]
      /\ a[Len(q) + 1] = b
  OBVIOUS
<1> HIDE DEF a
<1>2. \A i \in 1 .. Len(a) : i \in 1 .. Len(q) \/ i = Len(q) + 1
  BY <1>1
<1>3. \A i, j \in 1 .. Len(a) : a[i] = a[j] => i = j
  <2> SUFFICES ASSUME NEW i \in 1 .. Len(a), NEW j \in 1 .. Len(a), a[i] = a[j]
               PROVE  i = j
    OBVIOUS
  <2>1. CASE i \in 1 .. Len(q) /\ j \in 1 .. Len(q)
    BY <1>1, <2>1
  <2>2. CASE i \in 1 .. Len(q) /\ j = Len(q) + 1
    BY <1>1, <2>2
  <2>3. CASE i = Len(q) + 1 /\ j \in 1 .. Len(q)
    BY <1>1, <2>3
  <2> QED
    BY <1>2, <2>1, <2>2, <2>3
<1>4. \A i \in 1 .. Len(q) : i \in 1 .. Len(a)
  BY <1>1
<1>5. Len(q) + 1 \in 1 .. Len(a)
  BY <1>1
<1>6. {a[i] : i \in 1 .. Len(a)} = {q[i] : i \in 1 .. Len(q)} \cup {b}
  BY <1>1, <1>2, <1>4, <1>5
<1> QED
  BY <1>1, <1>3, <1>6 DEF a

(* Every slot starts available and nobody holds one. *)
LEMMA InitInv == BUFFER_POOL_SIZE \in Nat /\ Init => IInv
  BY DEF Init, IInv, BuffersConserved, Free, Buffers

(* acquire() moves a buffer from the pool to a hand. *)
LEMMA AcquireInv ==
  ASSUME IInv, NEW c \in Callers, NEW b, Acquire(c, b)
  PROVE  IInv'
<1> USE DEF IInv, BuffersConserved
<1>1. CASE AcquireEmpty(c, b)
  BY <1>1 DEF AcquireEmpty, poolVars, Free
<1>2. CASE AcquireFront(c, b)
  <2>1. /\ free_buffers_ # <<>> /\ b = Head(free_buffers_)
        /\ free_buffers_' = Tail(free_buffers_)
        /\ held' = [held EXCEPT ![c] = @ \cup {b}]
    BY <1>2 DEF AcquireFront
  <2>2. /\ b \in Buffers /\ free_buffers_' \in Seq(Buffers)
        /\ \A i, j \in 1 .. Len(free_buffers_') :
             free_buffers_'[i] = free_buffers_'[j] => i = j
        /\ Free' = Free \ {b}
    <3> DEFINE q == free_buffers_
    <3>1. q \in Seq(Buffers) /\ \A i, j \in 1 .. Len(q) : q[i] = q[j] => i = j
      OBVIOUS
    <3>2. q # <<>> /\ b = Head(q) /\ free_buffers_' = Tail(q)
      BY <2>1
    <3>3. Free = {q[i] : i \in 1 .. Len(q)}
      BY DEF Free
    <3>4. Free' = {free_buffers_'[i] : i \in 1 .. Len(free_buffers_')}
      BY DEF Free
    <3> HIDE DEF q, IInv, BuffersConserved
    <3>5. /\ Head(q) \in Buffers /\ Tail(q) \in Seq(Buffers)
          /\ \A i, j \in 1 .. Len(Tail(q)) : Tail(q)[i] = Tail(q)[j] => i = j
          /\ {Tail(q)[i] : i \in 1 .. Len(Tail(q))}
               = {q[i] : i \in 1 .. Len(q)} \ {Head(q)}
      BY <3>1, <3>2, TailElements
    <3> QED
      BY <3>2, <3>3, <3>4, <3>5
  <2>3. b \in Free
    <3>1. 1 \in 1 .. Len(free_buffers_) /\ b = free_buffers_[1]
      BY <2>1
    <3> QED
      BY <3>1 DEF Free
  <2>4. \A d \in Callers : held'[d] = IF d = c THEN held[c] \cup {b} ELSE held[d]
    BY <2>1
  <2>5. held' \in [Callers -> SUBSET Buffers]
    BY <2>1, <2>2
  <2>6. \A d \in Callers : held'[d] \cap Free' = {}
    BY <2>2, <2>4
  <2>7. \A d, e \in Callers : d # e => held'[d] \cap held'[e] = {}
    BY <2>3, <2>4
  <2>8. Free' \cup UNION {held'[d] : d \in Callers} = Buffers
    <3>1. \A x \in Buffers : x \in Free' \/ \E d \in Callers : x \in held'[d]
      BY <2>2, <2>4
    <3>2. Free' \subseteq Buffers
      BY <2>2
    <3> QED
      BY <2>5, <3>1, <3>2
  <2> QED
    BY <2>2, <2>5, <2>6, <2>7, <2>8
<1> QED
  BY <1>1, <1>2 DEF Acquire

(* release() moves it back. *)
LEMMA ReleaseInv ==
  ASSUME IInv, NEW c \in Callers, NEW b, Release(c, b)
  PROVE  IInv'
<1> USE DEF IInv, BuffersConserved
<1>1. /\ b \in held[c]
      /\ free_buffers_' = Append(free_buffers_, b)
      /\ held' = [held EXCEPT ![c] = @ \ {b}]
  BY DEF Release
<1>2. b \in Buffers /\ b \notin Free
  BY <1>1
<1>3. /\ free_buffers_' \in Seq(Buffers)
      /\ \A i, j \in 1 .. Len(free_buffers_') :
           free_buffers_'[i] = free_buffers_'[j] => i = j
      /\ Free' = Free \cup {b}
  BY <1>1, <1>2, AppendElement DEF Free
<1>4. \A d \in Callers : held'[d] = IF d = c THEN held[c] \ {b} ELSE held[d]
  BY <1>1
<1>5. held' \in [Callers -> SUBSET Buffers]
  BY <1>1
<1>6. \A d \in Callers : b \notin held'[d]
  BY <1>1, <1>4
<1>7. \A d \in Callers : held'[d] \cap Free' = {}
  BY <1>3, <1>4, <1>6
<1>8. \A d, e \in Callers : d # e => held'[d] \cap held'[e] = {}
  BY <1>4
<1>9. Free' \cup UNION {held'[d] : d \in Callers} = Buffers
  <2>1. \A x \in Buffers : x \in Free' \/ \E d \in Callers : x \in held'[d]
    BY <1>3, <1>4
  <2>2. Free' \subseteq Buffers
    BY <1>2, <1>3
  <2> QED
    BY <1>5, <2>1, <2>2
<1> QED
  BY <1>3, <1>5, <1>7, <1>8, <1>9

(* However many threads share the pool, in whatever order they call it, no    *)
(* buffer is handed to two of them or lost.                                  *)
THEOREM PoolIsSound ==
  ASSUME BUFFER_POOL_SIZE \in Nat
  PROVE  Spec => []BuffersConserved
<1>1. IInv /\ [Next]_poolVars => IInv'
  <2> SUFFICES ASSUME IInv, [Next]_poolVars PROVE IInv'
    OBVIOUS
  <2>1. CASE UNCHANGED poolVars
    BY <2>1 DEF poolVars, IInv, BuffersConserved, Free
  <2> QED
    BY <2>1, AcquireInv, ReleaseInv DEF Next
<1>2. IInv => BuffersConserved
  BY DEF IInv
<1> QED
  BY <1>1, <1>2, InitInv, PTL DEF Spec

=============================================================================
