-------------------------- MODULE SparseDiskProofs --------------------------
(***************************************************************************)
(* Proofs about SparseDisk for every disk size, chunk size, base, payload    *)
(* and number of savestates: the type invariant, and that a disk whose host  *)
(* reports its read errors is a flat array of bytes, that only loads and    *)
(* the bytes of a write change the overlay, and that calls advance.         *)
(***************************************************************************)
EXTENDS SparseDisk, TLAPS

\* Quotient and remainder.
LEMMA DivMod ==
    ASSUME NEW a \in Nat, NEW n \in Nat \ {0}
    PROVE  a \div n \in Nat /\ a % n \in 0 .. n - 1 /\ a = n * (a \div n) + (a % n)
OBVIOUS

\* They are determined by the number they make up.
LEMMA DivModUnique ==
    ASSUME NEW n \in Nat \ {0}, NEW q \in Nat, NEW p \in Nat,
           NEW r \in 0 .. n - 1, NEW s \in 0 .. n - 1, n * q + r = n * p + s
    PROVE  q = p /\ r = s
<1>1. n * (q - p) = s - r  OBVIOUS
<1>2. CASE q > p
    <2>1. n * (q - p) >= n  BY <1>2
    <2> QED  BY <2>1, <1>1
<1>3. CASE q < p
    <2>1. n * (p - q) >= n  BY <1>3
    <2> QED  BY <2>1, <1>1
<1>4. CASE q = p  BY <1>4
<1> QED  BY <1>2, <1>3, <1>4

\* Walking inside a chunk changes the place in it and not the chunk.
LEMMA SameChunk ==
    ASSUME NEW n \in Nat \ {0}, NEW a \in Nat, NEW j \in Nat, (a % n) + j < n
    PROVE  (a + j) \div n = a \div n /\ (a + j) % n = (a % n) + j
<1> DEFINE b == a + j
<1>1. a \div n \in Nat /\ a % n \in 0 .. n - 1 /\ a = n * (a \div n) + (a % n)
    BY DivMod
<1>2. b \in Nat  OBVIOUS
<1> HIDE DEF b
<1>3. b \div n \in Nat /\ b % n \in 0 .. n - 1 /\ b = n * (b \div n) + (b % n)
    BY <1>2, DivMod
<1>4. (a % n) + j \in 0 .. n - 1  BY <1>1
<1>5. n * (a \div n) + ((a % n) + j) = n * (b \div n) + (b % n)
    BY <1>1, <1>3 DEF b
<1> DEFINE q == a \div n  p == b \div n  r == (a % n) + j  s == b % n
<1>6. q \in Nat /\ p \in Nat /\ r \in 0 .. n - 1 /\ s \in 0 .. n - 1 /\ n * q + r = n * p + s
    BY <1>1, <1>3, <1>4, <1>5
<1> HIDE DEF q, p, r, s
<1>7. q = p /\ r = s  BY <1>6, DivModUnique
<1> QED  BY <1>7 DEF q, p, r, s, b

\* Quotients keep the order.
LEMMA DivMonotone ==
    ASSUME NEW n \in Nat \ {0}, NEW a \in Nat, NEW b \in Nat, a <= b
    PROVE  a \div n <= b \div n
<1> DEFINE q == a \div n  p == b \div n
<1>1. q \in Nat /\ a % n \in 0 .. n - 1 /\ a = n * q + (a % n)  BY DivMod
<1>2. p \in Nat /\ b % n \in 0 .. n - 1 /\ b = n * p + (b % n)  BY DivMod
<1> HIDE DEF q, p
<1>3. SUFFICES ASSUME q > p  PROVE FALSE  BY <1>1, <1>2 DEF q, p
<1>4. n * (q - p) >= n  BY <1>1, <1>2, <1>3
<1>5. n * q >= n * p + n  BY <1>1, <1>2, <1>4
<1> QED  BY <1>1, <1>2, <1>5

\* Every address lies in a chunk, at a place of it.
LEMMA ChunkOf ==
    ASSUME NEW a \in Addresses
    PROVE  /\ a \div CHUNK \in Chunks /\ a % CHUNK \in 0 .. CHUNK - 1
           /\ a = (a \div CHUNK) * CHUNK + (a % CHUNK)
<1>1. a \in Nat /\ Size - 1 \in Nat /\ a <= Size - 1 /\ CHUNK \in Nat \ {0}
    BY SparseDiskAssumption DEF Addresses
<1>2. a \div CHUNK \in Nat /\ a % CHUNK \in 0 .. CHUNK - 1 /\ a = CHUNK * (a \div CHUNK) + (a % CHUNK)
    BY <1>1, DivMod
<1>3. (Size - 1) \div CHUNK \in Nat  BY <1>1, DivMod
<1>4. a \div CHUNK <= (Size - 1) \div CHUNK  BY <1>1, DivMonotone
<1> QED  BY <1>1, <1>2, <1>3, <1>4 DEF Chunks

LEMMA BaseByteType == \A a \in Nat : BaseByte(a) \in Values
BY SparseDiskAssumption DEF BaseByte

LEMMA ViewType == ASSUME NEW ov \in Overlays PROVE View(ov) \in [Addresses -> Values]
<1>1. ASSUME NEW a \in Addresses PROVE View(ov)[a] \in Values
    <2>1. a \div CHUNK \in Chunks /\ a % CHUNK \in 0 .. CHUNK - 1  BY ChunkOf
    <2>2. a \in Nat  BY SparseDiskAssumption DEF Addresses
    <2>3. BaseByte(a) \in Values  BY <2>2, BaseByteType
    <2> QED  BY <2>1, <2>3 DEF View, Overlays, Block
<1> QED  BY <1>1 DEF View

-----------------------------------------------------------------------------
(* What a step of the loop works on. *)

\* The call in progress: its chunk is one of the disk's, and what is taken of
\* it lies inside the chunk and inside the request.
LEMMA LoopFacts ==
    ASSUME TypeOK, call # NoCall, call.done < call.len
    PROVE  /\ call \in Calls /\ call.offset + call.len <= Size
           /\ call.buffer \in [0 .. call.len - 1 -> Values]
           /\ call.offset \in Nat /\ call.len \in Nat /\ call.done \in Nat
           /\ Offset \in Addresses /\ Offset = call.offset + call.done
           /\ Chunk \in Chunks /\ Within \in 0 .. CHUNK - 1
           /\ Offset = Chunk * CHUNK + Within
           /\ Take \in 1 .. CHUNK - Within /\ call.done + Take <= call.len
           /\ CHUNK \in Nat \ {0} /\ Size \in Nat
<1>1. /\ call \in Calls /\ call.offset + call.len <= Size
      /\ call.buffer \in [0 .. call.len - 1 -> Values]
    BY DEF TypeOK
<1>2. call.offset \in Nat /\ call.len \in Nat /\ call.done \in Nat /\ Size \in Nat /\ CHUNK \in Nat \ {0}
    BY <1>1, SparseDiskAssumption DEF Calls, Addresses
<1>3. Offset \in Addresses /\ Offset = call.offset + call.done
    BY <1>1, <1>2 DEF Offset, Addresses
<1>4. Chunk \in Chunks /\ Within \in 0 .. CHUNK - 1 /\ Offset = Chunk * CHUNK + Within
    BY <1>3, ChunkOf DEF Chunk, Within
<1>5. Take \in 1 .. CHUNK - Within /\ call.done + Take <= call.len
    BY <1>2, <1>4 DEF Take
<1> QED  BY <1>1, <1>2, <1>3, <1>4, <1>5

\* The bytes taken lie in the chunk of the first one.
LEMMA TakenInChunk ==
    ASSUME TypeOK, call # NoCall, call.done < call.len, NEW j \in 0 .. Take - 1
    PROVE  (Offset + j) \div CHUNK = Chunk /\ (Offset + j) % CHUNK = Within + j
<1>1. Take \in 1 .. CHUNK - Within /\ Within \in 0 .. CHUNK - 1 /\ Offset \in Nat /\ CHUNK \in Nat \ {0}
    BY LoopFacts DEF Addresses
<1>2. Within + j < CHUNK /\ j \in Nat  BY <1>1
<1> QED  BY <1>1, <1>2, SameChunk DEF Chunk, Within

LEMMA SpanType ==
    ASSUME NEW c \in Chunks
    PROVE  /\ c \in Nat /\ c * CHUNK \in Nat /\ Span(c) \in 0 .. CHUNK
           /\ \A a \in Addresses : a \div CHUNK = c => a % CHUNK < Span(c)
<1>1. CHUNK \in Nat \ {0} /\ Size \in Nat \ {0} /\ Size - 1 \in Nat  BY SparseDiskAssumption
<1>2. (Size - 1) \div CHUNK \in Nat /\ Size - 1 \in Addresses  BY <1>1, DivMod DEF Addresses
<1>3. c \in Nat /\ c * CHUNK \in Nat  BY <1>1, <1>2 DEF Chunks
<1>4. c * CHUNK <= Size - 1
    <2> DEFINE d == (Size - 1) \div CHUNK
    <2>1. d \in Nat /\ Size - 1 = CHUNK * d + ((Size - 1) % CHUNK) /\ (Size - 1) % CHUNK \in 0 .. CHUNK - 1
        BY <1>1, DivMod
    <2>2. c <= d  BY <1>2 DEF Chunks
    <2> HIDE DEF d
    <2>3. CHUNK * (d - c) >= 0  BY <1>1, <1>3, <2>1, <2>2
    <2>4. CHUNK * d >= c * CHUNK  BY <1>1, <1>3, <2>1, <2>3
    <2> QED  BY <1>1, <1>3, <2>1, <2>4
<1>5. ASSUME NEW a \in Addresses, a \div CHUNK = c PROVE a % CHUNK < Span(c)
    <2>1. a % CHUNK \in 0 .. CHUNK - 1 /\ a = c * CHUNK + (a % CHUNK)
        BY <1>5, ChunkOf
    <2>2. a < Size /\ a \in Nat  BY <1>1 DEF Addresses
    <2> QED  BY <1>1, <1>3, <2>1, <2>2 DEF Span
<1> QED  BY <1>1, <1>3, <1>4, <1>5 DEF Span

LEMMA ReadBaseType ==
    ASSUME NEW a \in Nat, NEW n \in Nat, NEW bytes \in readBase(a, n)
    PROVE  bytes \in [0 .. n - 1 -> Values]
<1>1. PICK got \in IF ReadErrors THEN 0 .. n ELSE {n} :
        bytes = [k \in 0 .. n - 1 |-> IF k < got THEN BaseByte(a + k) ELSE Zero]
    BY DEF readBase
<1>2. \A k \in 0 .. n - 1 : BaseByte(a + k) \in Values  BY BaseByteType
<1> QED  BY <1>1, <1>2, SparseDiskAssumption

LEMMA MaterialiseType ==
    ASSUME TypeOK, NEW c \in Chunks, NEW block \in materialise(c)
    PROVE  block \in Block
<1>1. CASE overlay[c] # NoBlock  BY <1>1 DEF TypeOK, Overlays, materialise
<1>2. CASE overlay[c] = NoBlock
    <2>1. PICK bytes \in readBase(c * CHUNK, Span(c)) :
            block = [w \in 0 .. CHUNK - 1 |-> IF w < Span(c) THEN bytes[w] ELSE Zero]
        BY <1>2 DEF materialise
    <2>2. c * CHUNK \in Nat /\ Span(c) \in Nat  BY SpanType, SparseDiskAssumption
    <2>3. bytes \in [0 .. Span(c) - 1 -> Values]  BY <2>2, ReadBaseType
    <2>4. ASSUME NEW w \in 0 .. CHUNK - 1
          PROVE  (IF w < Span(c) THEN bytes[w] ELSE Zero) \in Values
        <3>1. CASE w < Span(c)
            <4>1. w \in 0 .. Span(c) - 1  BY <2>2, <3>1
            <4> QED  BY <2>3, <3>1, <4>1
        <3>2. CASE ~(w < Span(c))  BY <3>2, SparseDiskAssumption
        <3> QED  BY <3>1, <3>2
    <2> QED  BY <2>1, <2>4 DEF Block
<1> QED  BY <1>1, <1>2

-----------------------------------------------------------------------------
(* The type invariant. *)

LEMMA BufferType ==
    ASSUME NEW n \in 1 .. MaxLen, NEW b \in [0 .. n - 1 -> Values]
    PROVE  b \in Buffers
BY DEF Buffers

LEMMA InitTypeOK == Init => TypeOK
BY DEF Init, TypeOK, Overlays

LEMMA BeginTypeOK ==
    ASSUME TypeOK, NEW op \in {"read", "write"}, NEW offset \in 0 .. Size,
           NEW len \in 1 .. MaxLen, NEW data \in [0 .. MaxLen - 1 -> Values],
           Begin(op, offset, len, data)
    PROVE  TypeOK'
<1> DEFINE buffer == [k \in 0 .. len - 1 |-> data[k]]
           new == [op |-> op, offset |-> offset, len |-> len, done |-> 0, buffer |-> buffer]
<1>1. buffer \in [0 .. len - 1 -> Values] /\ buffer \in Buffers
    <2>1. buffer \in [0 .. len - 1 -> Values]  BY SparseDiskAssumption
    <2> HIDE DEF buffer
    <2> QED  BY <2>1, BufferType
<1>2. reply' \in {Pending, Refused}  BY DEF Begin
<1>3. overlay' = overlay /\ saved' = saved  BY DEF Begin
<1>4. CASE offset + len > Size
    <2>1. call' = NoCall  BY <1>4 DEF Begin
    <2> QED  BY <1>2, <1>3, <2>1 DEF TypeOK
<1>5. CASE ~(offset + len > Size)
    <2>1. call' = new  BY <1>5 DEF Begin
    <2>2. offset \in Addresses /\ offset + len <= Size
        BY <1>5, SparseDiskAssumption DEF Addresses
    <2> HIDE DEF buffer
    <2>3. new \in Calls  BY <1>1, <2>2, SparseDiskAssumption DEF Calls
    <2> QED  BY <1>1, <1>2, <1>3, <2>1, <2>2, <2>3, SparseDiskAssumption DEF TypeOK
<1> QED  BY <1>4, <1>5

\* The call after an iteration that moved its bytes.
LEMMA MovedCall ==
    ASSUME TypeOK, call # NoCall, call.done < call.len,
           NEW buffer \in [0 .. call.len - 1 -> Values],
           NEW moved, moved = [call EXCEPT !.done = @ + Take, !.buffer = buffer]
    PROVE  /\ moved \in Calls /\ moved.offset + moved.len <= Size
           /\ moved.done <= moved.len
           /\ moved.buffer \in [0 .. moved.len - 1 -> Values]
<1>1. /\ call \in Calls /\ call.offset + call.len <= Size /\ call.done \in Nat
      /\ Take \in Nat /\ call.done + Take <= call.len /\ call.len \in 1 .. MaxLen
    BY LoopFacts DEF Calls
<1>2. call.done + Take \in 0 .. MaxLen  BY <1>1, SparseDiskAssumption
<1>3. buffer \in Buffers  BY <1>1, BufferType
<1>4. moved = [op |-> call.op, offset |-> call.offset, len |-> call.len,
               done |-> call.done + Take, buffer |-> buffer]
    BY <1>1 DEF Calls
<1> QED  BY <1>1, <1>2, <1>3, <1>4 DEF Calls

LEMMA ReadChunkTypeOK == TypeOK /\ ReadChunk => TypeOK'
<1> SUFFICES ASSUME TypeOK, ReadChunk PROVE TypeOK'  OBVIOUS
<1>1. call # NoCall /\ call.done < call.len  BY DEF ReadChunk, Looping
<1>2. PICK bytes \in IF overlay[Chunk] # NoBlock
                     THEN {[k \in 0 .. Take - 1 |-> overlay[Chunk][Within + k]]}
                     ELSE readBase(Offset, Take) :
        call' = [call EXCEPT
            !.done = @ + Take,
            !.buffer = [k \in 0 .. call.len - 1 |->
                IF k \in call.done .. call.done + Take - 1
                THEN bytes[k - call.done] ELSE @[k]]]
    BY DEF ReadChunk
<1>3. /\ call.buffer \in [0 .. call.len - 1 -> Values] /\ call.done \in Nat /\ call.len \in Nat
      /\ Offset \in Nat /\ Chunk \in Chunks /\ Within \in 0 .. CHUNK - 1
      /\ Take \in 1 .. CHUNK - Within /\ CHUNK \in Nat \ {0} /\ call \in Calls
    BY <1>1, LoopFacts DEF Addresses
<1>4. bytes \in [0 .. Take - 1 -> Values]
    <2>1. CASE overlay[Chunk] # NoBlock
        <3>1. overlay[Chunk] \in Block  BY <1>3, <2>1 DEF TypeOK, Overlays
        <3>2. \A k \in 0 .. Take - 1 : Within + k \in 0 .. CHUNK - 1  BY <1>3
        <3> QED  BY <1>2, <2>1, <3>1, <3>2 DEF Block
    <2>2. CASE overlay[Chunk] = NoBlock
        BY <1>2, <1>3, <2>2, ReadBaseType
    <2> QED  BY <2>1, <2>2
<1> DEFINE buffer == [k \in 0 .. call.len - 1 |->
                IF k \in call.done .. call.done + Take - 1
                THEN bytes[k - call.done] ELSE call.buffer[k]]
<1>5. buffer \in [0 .. call.len - 1 -> Values]
    <2>1. ASSUME NEW k \in 0 .. call.len - 1, k \in call.done .. call.done + Take - 1
          PROVE  bytes[k - call.done] \in Values
        <3>1. k - call.done \in 0 .. Take - 1  BY <1>3, <2>1
        <3> QED  BY <1>4, <3>1
    <2>2. \A k \in 0 .. call.len - 1 : call.buffer[k] \in Values  BY <1>3
    <2> QED  BY <2>1, <2>2
<1>6. call' = [call EXCEPT !.done = @ + Take, !.buffer = buffer]  BY <1>2, <1>3 DEF Calls
<1> HIDE DEF buffer
<1>7. /\ call' \in Calls /\ call'.offset + call'.len <= Size /\ call'.done <= call'.len
      /\ call'.buffer \in [0 .. call'.len - 1 -> Values]
    BY <1>1, <1>5, <1>6, MovedCall
<1> QED  BY <1>7 DEF TypeOK, ReadChunk

LEMMA WriteChunkTypeOK == TypeOK /\ WriteChunk => TypeOK'
<1> SUFFICES ASSUME TypeOK, WriteChunk PROVE TypeOK'  OBVIOUS
<1>1. call # NoCall /\ call.done < call.len  BY DEF WriteChunk, Looping
<1>2. /\ call.buffer \in [0 .. call.len - 1 -> Values] /\ call.done \in Nat /\ call.len \in Nat
      /\ Chunk \in Chunks /\ Within \in 0 .. CHUNK - 1 /\ call.done + Take <= call.len
      /\ Take \in 1 .. CHUNK - Within /\ CHUNK \in Nat \ {0} /\ call \in Calls
    BY <1>1, LoopFacts
<1>3. PICK block \in materialise(Chunk) :
        overlay' = [overlay EXCEPT ![Chunk] =
            [w \in 0 .. CHUNK - 1 |->
                IF w \in Within .. Within + Take - 1
                THEN call.buffer[call.done + (w - Within)] ELSE block[w]]]
    BY DEF WriteChunk
<1>4. block \in [0 .. CHUNK - 1 -> Values]  BY <1>2, <1>3, MaterialiseType DEF Block
<1> DEFINE written == [w \in 0 .. CHUNK - 1 |->
                IF w \in Within .. Within + Take - 1
                THEN call.buffer[call.done + (w - Within)] ELSE block[w]]
<1>5. written \in Block
    <2>1. \A w \in Within .. Within + Take - 1 : call.done + (w - Within) \in 0 .. call.len - 1
        BY <1>2
    <2> QED  BY <1>2, <1>4, <2>1 DEF Block
<1>6. overlay' \in Overlays
    <2>1. overlay' = [overlay EXCEPT ![Chunk] = written]  BY <1>3
    <2> HIDE DEF written
    <2> QED  BY <1>5, <2>1 DEF TypeOK, Overlays
<1>7. call' = [call EXCEPT !.done = @ + Take, !.buffer = call.buffer]
    <2>1. call' = [call EXCEPT !.done = @ + Take]  BY DEF WriteChunk
    <2> QED  BY <1>2, <2>1 DEF Calls
<1>8. /\ call' \in Calls /\ call'.offset + call'.len <= Size /\ call'.done <= call'.len
      /\ call'.buffer \in [0 .. call'.len - 1 -> Values]
    BY <1>1, <1>2, <1>7, MovedCall
<1> QED  BY <1>6, <1>8 DEF TypeOK, WriteChunk

LEMMA ReturnTypeOK == TypeOK /\ Return => TypeOK'
<1> SUFFICES ASSUME TypeOK, Return PROVE TypeOK'  OBVIOUS
<1>1. call \in Calls  BY DEF TypeOK, Return
<1>2. call.buffer \in Buffers  BY <1>1 DEF Calls
<1>3. reply' = Accepted \/ reply' = Bytes(call.buffer)  BY DEF Return
<1> QED  BY <1>2, <1>3 DEF TypeOK, Return

LEMMA NextTypeOK == TypeOK /\ [Next]_vars => TypeOK'
<1> SUFFICES ASSUME TypeOK, [Next]_vars PROVE TypeOK'  OBVIOUS
<1>1. Blank \in [0 .. MaxLen - 1 -> Values]  BY SparseDiskAssumption DEF Blank
<1>2. ASSUME NEW offset \in 0 .. Size, NEW len \in 1 .. MaxLen, Begin("read", offset, len, Blank)
      PROVE  TypeOK'
    BY <1>1, <1>2, BeginTypeOK
<1>3. ASSUME NEW offset \in 0 .. Size, NEW len \in 1 .. MaxLen, NEW data \in Payloads,
             Begin("write", offset, len, data)
      PROVE  TypeOK'
    BY <1>3, BeginTypeOK, SparseDiskAssumption
<1>4. CASE ReadChunk  BY <1>4, ReadChunkTypeOK
<1>5. CASE WriteChunk  BY <1>5, WriteChunkTypeOK
<1>6. CASE BaseFails  BY <1>6 DEF BaseFails, TypeOK
<1>7. CASE Return  BY <1>7, ReturnTypeOK
<1>8. ASSUME NEW s \in Slots, Save(s) PROVE TypeOK'  BY <1>8 DEF Save, TypeOK
<1>9. ASSUME NEW s \in Slots, Load(s) PROVE TypeOK'  BY <1>9 DEF Load, TypeOK
<1>10. CASE UNCHANGED vars  BY <1>10 DEF vars, TypeOK
<1> QED  BY <1>2, <1>3, <1>4, <1>5, <1>6, <1>7, <1>8, <1>9, <1>10 DEF Next

\* A request in progress stays inside the disk, its loop inside the request,
\* and every block whole, whatever the host does.
THEOREM TypeCorrect == Spec => []TypeOK
<1>1. Init => TypeOK  BY InitTypeOK
<1>2. TypeOK /\ [Next]_vars => TypeOK'  BY NextTypeOK
<1> QED  BY <1>1, <1>2, PTL DEF Spec

-----------------------------------------------------------------------------
(* The disk is flat. *)

\* A base whose read errors are reported delivers its bytes.
LEMMA ReadBaseBytes ==
    ASSUME ReadErrors = FALSE, NEW a \in Nat, NEW n \in Nat, NEW bytes \in readBase(a, n)
    PROVE  \A k \in 0 .. n - 1 : bytes[k] = BaseByte(a + k)
BY DEF readBase

\* A block found or created holds the bytes of its chunk.
LEMMA MaterialiseBytes ==
    ASSUME TypeOK, ReadErrors = FALSE, NEW c \in Chunks, NEW block \in materialise(c),
           NEW a \in Addresses, a \div CHUNK = c
    PROVE  block[a % CHUNK] = View(overlay)[a]
<1>1. CASE overlay[c] # NoBlock  BY <1>1 DEF materialise, View
<1>2. CASE overlay[c] = NoBlock
    <2>1. PICK bytes \in readBase(c * CHUNK, Span(c)) :
            block = [w \in 0 .. CHUNK - 1 |-> IF w < Span(c) THEN bytes[w] ELSE Zero]
        BY <1>2 DEF materialise
    <2>2. c * CHUNK \in Nat /\ Span(c) \in Nat /\ a % CHUNK < Span(c)
        BY SpanType, SparseDiskAssumption
    <2>3. a % CHUNK \in 0 .. CHUNK - 1 /\ a = c * CHUNK + (a % CHUNK)  BY ChunkOf
    <2> DEFINE w == a % CHUNK
    <2>4. w \in 0 .. CHUNK - 1 /\ w < Span(c) /\ a = c * CHUNK + w  BY <2>2, <2>3
    <2>5. View(overlay)[a] = BaseByte(a)  BY <1>2 DEF View
    <2> HIDE DEF w
    <2>6. w \in 0 .. Span(c) - 1  BY <2>2, <2>4
    <2>7. bytes[w] = BaseByte(c * CHUNK + w)  BY <2>2, <2>6, ReadBaseBytes
    <2>8. block[w] = BaseByte(a)  BY <2>1, <2>4, <2>7
    <2> QED  BY <2>5, <2>8 DEF w
<1> QED  BY <1>1, <1>2

LEMMA InitFlat == Init => Flat!Init
<1> SUFFICES ASSUME Init PROVE Flat!Init  OBVIOUS
<1>1. View(overlay) = [a \in Addresses |-> BaseByte(a)]
    <2>1. \A a \in Addresses : overlay[a \div CHUNK] = NoBlock  BY ChunkOf DEF Init
    <2> QED  BY <2>1 DEF View
<1>2. [s \in Slots |-> IF saved[s] = NoState THEN NoState ELSE View(saved[s])]
        = [s \in Slots |-> NoState]
    BY DEF Init
<1> QED  BY <1>1, <1>2 DEF Init, Flat!Init, Pending, Flat!Pending

\* An iteration of a read moves bytes of the flat disk.
LEMMA ReadChunkFlat ==
    ASSUME TypeOK, ReadErrors = FALSE, ReadChunk
    PROVE  Flat!ReadSome(Take)
<1>1. call # NoCall /\ call.op = "read" /\ call.done < call.len  BY DEF ReadChunk, Looping
<1>2. PICK bytes \in IF overlay[Chunk] # NoBlock
                     THEN {[k \in 0 .. Take - 1 |-> overlay[Chunk][Within + k]]}
                     ELSE readBase(Offset, Take) :
        call' = [call EXCEPT
            !.done = @ + Take,
            !.buffer = [k \in 0 .. call.len - 1 |->
                IF k \in call.done .. call.done + Take - 1
                THEN bytes[k - call.done] ELSE @[k]]]
    BY DEF ReadChunk
<1>3. /\ call.offset \in Nat /\ call.done \in Nat /\ call.len \in Nat
      /\ Offset \in Nat /\ Offset = call.offset + call.done
      /\ Take \in Nat /\ call.done + Take <= call.len
      /\ call.offset + call.len <= Size /\ Size \in Nat
      /\ call \in Calls
    BY <1>1, LoopFacts DEF Addresses
<1>4. ASSUME NEW j \in 0 .. Take - 1 PROVE bytes[j] = View(overlay)[Offset + j]
    <2>1. Offset + j \in Addresses
        <3>1. j \in Nat /\ j < Take  BY <1>3
        <3>2. Offset + j < Size  BY <1>3, <3>1
        <3> QED  BY <1>3, <3>1, <3>2 DEF Addresses
    <2>2. (Offset + j) \div CHUNK = Chunk /\ (Offset + j) % CHUNK = Within + j
        BY <1>1, TakenInChunk
    <2>3. CASE overlay[Chunk] # NoBlock
        BY <1>2, <2>1, <2>2, <2>3 DEF View
    <2>4. CASE overlay[Chunk] = NoBlock
        <3>1. bytes[j] = BaseByte(Offset + j)  BY <1>2, <1>3, <2>4, ReadBaseBytes
        <3> QED  BY <2>1, <2>2, <2>4, <3>1 DEF View
    <2> QED  BY <2>3, <2>4
<1>5. ASSUME NEW k \in call.done .. call.done + Take - 1
      PROVE  bytes[k - call.done] = View(overlay)[call.offset + k]
    <2>1. k - call.done \in 0 .. Take - 1 /\ Offset + (k - call.done) = call.offset + k  BY <1>3
    <2> QED  BY <1>4, <2>1
<1> DEFINE got == [k \in 0 .. call.len - 1 |->
                IF k \in call.done .. call.done + Take - 1
                THEN bytes[k - call.done] ELSE call.buffer[k]]
           flat == [k \in 0 .. call.len - 1 |->
                IF k \in call.done .. call.done + Take - 1
                THEN View(overlay)[call.offset + k] ELSE call.buffer[k]]
<1>6. got = flat  BY <1>5
<1>7. call' = [call EXCEPT !.done = @ + Take, !.buffer = got]  BY <1>2, <1>3 DEF Calls
<1>8. call' = [call EXCEPT !.done = @ + Take, !.buffer = flat]  BY <1>6, <1>7
<1>9. call' = [call EXCEPT !.done = @ + Take, !.buffer =
                [k \in 0 .. call.len - 1 |->
                    IF k \in call.done .. call.done + Take - 1
                    THEN View(overlay)[call.offset + k] ELSE @[k]]]
    BY <1>3, <1>8 DEF Calls
<1>10. overlay' = overlay /\ reply' = reply /\ saved' = saved  BY DEF ReadChunk
<1>11. View(overlay)' = View(overlay)  BY <1>10 DEF View
<1> QED  BY <1>1, <1>9, <1>10, <1>11 DEF Flat!ReadSome

\* An iteration of a write changes the bytes it takes, and nothing around them.
LEMMA WriteChunkFlat ==
    ASSUME TypeOK, ReadErrors = FALSE, WriteChunk
    PROVE  Flat!WriteSome(Take)
<1>1. call # NoCall /\ call.op = "write" /\ call.done < call.len  BY DEF WriteChunk, Looping
<1>2. PICK block \in materialise(Chunk) :
        overlay' = [overlay EXCEPT ![Chunk] =
            [w \in 0 .. CHUNK - 1 |->
                IF w \in Within .. Within + Take - 1
                THEN call.buffer[call.done + (w - Within)] ELSE block[w]]]
    BY DEF WriteChunk
<1>3. /\ call.offset \in Nat /\ call.done \in Nat /\ call.len \in Nat
      /\ Offset = call.offset + call.done /\ Offset = Chunk * CHUNK + Within
      /\ Take \in Nat /\ Chunk \in Chunks /\ Within \in Nat /\ Chunk * CHUNK \in Nat
    BY <1>1, LoopFacts, SpanType
<1> DEFINE written == [w \in 0 .. CHUNK - 1 |->
                IF w \in Within .. Within + Take - 1
                THEN call.buffer[call.done + (w - Within)] ELSE block[w]]
           flat(a) == IF a - call.offset \in call.done .. call.done + Take - 1
                      THEN call.buffer[a - call.offset] ELSE View(overlay)[a]
<1>4. ASSUME NEW a \in Addresses PROVE View(overlay')[a] = flat(a)
    <2>1. /\ a \div CHUNK \in Chunks /\ a % CHUNK \in 0 .. CHUNK - 1
          /\ a = (a \div CHUNK) * CHUNK + (a % CHUNK)
        BY ChunkOf
    <2>2. CASE a \div CHUNK = Chunk
        <3> DEFINE w == a % CHUNK
        <3>1. w \in 0 .. CHUNK - 1 /\ a = Chunk * CHUNK + w  BY <2>1, <2>2
        <3>2. overlay'[Chunk] = written  BY <1>2, <1>3 DEF TypeOK, Overlays
        <3>3. written # NoBlock
            <4>1. overlay' \in Overlays  BY WriteChunkTypeOK DEF TypeOK
            <4>2. DOMAIN written = 0 .. CHUNK - 1  OBVIOUS
            <4>3. written \in Block
                <5>1. block \in [0 .. CHUNK - 1 -> Values]  BY <1>2, <1>3, MaterialiseType DEF Block
                <5>2. /\ call.buffer \in [0 .. call.len - 1 -> Values]
                      /\ call.done + Take <= call.len
                    BY <1>1, LoopFacts
                <5>3. \A v \in Within .. Within + Take - 1 : call.done + (v - Within) \in 0 .. call.len - 1
                    BY <1>3, <5>2
                <5> QED  BY <5>1, <5>2, <5>3 DEF Block
            <4> QED  BY <4>3, AbsenceAssumption
        <3>4. View(overlay')[a] = written[w]  BY <2>2, <3>2, <3>3 DEF View
        <3>5. block[w] = View(overlay)[a]  BY <1>2, <1>3, <2>2, MaterialiseBytes
        <3> HIDE DEF w
        <3>6. w \in Within .. Within + Take - 1 <=> a - call.offset \in call.done .. call.done + Take - 1
            BY <1>3, <3>1
        <3>7. call.done + (w - Within) = a - call.offset  BY <1>3, <3>1
        <3>8. written[w] = flat(a)  BY <3>1, <3>5, <3>6, <3>7
        <3> QED  BY <3>4, <3>8
    <2>3. CASE a \div CHUNK # Chunk
        <3>1. overlay'[a \div CHUNK] = overlay[a \div CHUNK]  BY <1>2, <2>1, <2>3 DEF TypeOK, Overlays
        <3>2. View(overlay')[a] = View(overlay)[a]  BY <3>1 DEF View
        <3>3. ~(a - call.offset \in call.done .. call.done + Take - 1)
            <4>1. SUFFICES ASSUME a - call.offset \in call.done .. call.done + Take - 1
                  PROVE FALSE
                OBVIOUS
            <4>2. a \in Nat  BY SparseDiskAssumption DEF Addresses
            <4> DEFINE j == a - Offset
            <4>3. j \in 0 .. Take - 1 /\ a = Offset + j  BY <1>3, <4>1, <4>2
            <4> HIDE DEF j
            <4>4. (Offset + j) \div CHUNK = Chunk  BY <1>1, <4>3, TakenInChunk
            <4> QED  BY <2>3, <4>3, <4>4
        <3> QED  BY <3>2, <3>3
    <2> QED  BY <2>2, <2>3
<1>5. View(overlay)' = [a \in Addresses |-> flat(a)]
    <2> HIDE DEF flat
    <2>1. View(overlay') = [a \in Addresses |-> View(overlay')[a]]  BY DEF View
    <2>2. [a \in Addresses |-> View(overlay')[a]] = [a \in Addresses |-> flat(a)]  BY <1>4
    <2>3. View(overlay)' = View(overlay')  BY DEF View
    <2> QED  BY <2>1, <2>2, <2>3
<1>6. call' = [call EXCEPT !.done = @ + Take] /\ reply' = reply /\ saved' = saved
    BY DEF WriteChunk
<1> QED  BY <1>1, <1>5, <1>6 DEF Flat!WriteSome, Flat!Addresses, Addresses

\* A call that begins, fails or returns does the same on the flat disk.
LEMMA CallFlat ==
    ASSUME TypeOK
    PROVE  /\ \A op, offset, len, data :
                Begin(op, offset, len, data) => Flat!Begin(op, offset, len, data)
           /\ BaseFails => Flat!Fail
           /\ Return => Flat!Finish
<1>1. overlay' = overlay => View(overlay)' = View(overlay)  BY DEF View
<1>2. ASSUME NEW op, NEW offset, NEW len, NEW data, Begin(op, offset, len, data)
      PROVE  Flat!Begin(op, offset, len, data)
    BY <1>1, <1>2 DEF Begin, Flat!Begin, Pending, Flat!Pending, Refused, Flat!Refused
<1>3. ASSUME BaseFails PROVE Flat!Fail
    BY <1>1, <1>3 DEF BaseFails, Flat!Fail, Refused, Flat!Refused
<1>4. ASSUME Return PROVE Flat!Finish
    BY <1>1, <1>4 DEF Return, Flat!Finish, Accepted, Flat!Accepted, Bytes, Flat!Bytes
<1> QED  BY <1>2, <1>3, <1>4

\* The overlay saved is the disk saved.
LEMMA StateFlat ==
    ASSUME TypeOK, NEW s \in Slots
    PROVE  /\ Save(s) => Flat!Save(s)
           /\ Load(s) => Flat!Load(s)
<1> DEFINE disks == [t \in Slots |-> IF saved[t] = NoState THEN NoState ELSE View(saved[t])]
<1>1. overlay' = overlay => View(overlay)' = View(overlay)  BY DEF View
<1>2. ASSUME Save(s) PROVE Flat!Save(s)
    <2>1. saved' = [saved EXCEPT ![s] = overlay] /\ saved \in [Slots -> Overlays \cup {NoState}]
        BY <1>2 DEF Save, TypeOK
    <2>2. overlay # NoState  BY AbsenceAssumption DEF TypeOK
    <2>3. ASSUME NEW t \in Slots
          PROVE  (IF saved'[t] = NoState THEN NoState ELSE View(saved'[t]))
                    = [disks EXCEPT ![s] = View(overlay)][t]
        <3>1. CASE t = s  BY <2>1, <2>2, <3>1
        <3>2. CASE t # s  BY <2>1, <3>2
        <3> QED  BY <3>1, <3>2
    <2>4. [t \in Slots |-> IF saved'[t] = NoState THEN NoState ELSE View(saved'[t])]
            = [disks EXCEPT ![s] = View(overlay)]
        BY <2>3
    <2>5. (disks)' = [t \in Slots |-> IF saved'[t] = NoState THEN NoState ELSE View(saved'[t])]
        BY DEF View
    <2> QED  BY <1>1, <1>2, <2>4, <2>5 DEF Save, Flat!Save, Pending, Flat!Pending
<1>3. ASSUME Load(s) PROVE Flat!Load(s)
    <2>1. saved[s] # NoState /\ saved[s] \in Overlays /\ overlay' = saved[s] /\ saved' = saved
        BY <1>3 DEF Load, TypeOK
    <2>2. View(saved[s]) # NoState  BY <2>1, ViewType, AbsenceAssumption
    <2>3. disks[s] = View(saved[s])  BY <2>1
    <2>4. View(overlay)' = View(saved[s])
        <3>1. View(overlay)' = View(overlay')  BY DEF View
        <3> QED  BY <2>1, <3>1
    <2>5. (disks)' = disks  BY <2>1 DEF View
    <2> QED  BY <1>3, <2>2, <2>3, <2>4, <2>5 DEF Load, Flat!Load, Pending, Flat!Pending
<1> QED  BY <1>2, <1>3

LEMMA NextFlat ==
    ASSUME TypeOK, ReadErrors = FALSE, [Next]_vars
    PROVE  [Flat!Next]_(Flat!vars)
<1>1. Blank = Flat!Blank  BY DEF Blank, Flat!Blank
<1>2. ASSUME NEW offset \in 0 .. Size, NEW len \in 1 .. MaxLen, Begin("read", offset, len, Blank)
      PROVE  Flat!Next
    <2>1. Flat!Begin("read", offset, len, Flat!Blank)  BY <1>1, <1>2, CallFlat
    <2> QED  BY <2>1 DEF Flat!Next
<1>3. ASSUME NEW offset \in 0 .. Size, NEW len \in 1 .. MaxLen, NEW data \in Payloads,
             Begin("write", offset, len, data)
      PROVE  Flat!Next
    <2>1. Flat!Begin("write", offset, len, data)  BY <1>3, CallFlat
    <2> QED  BY <2>1 DEF Flat!Next
<1>4. ASSUME call # NoCall, call.done < call.len PROVE Take \in 1 .. MaxLen
    <2>1. /\ Take \in 1 .. CHUNK - Within /\ call.done + Take <= call.len /\ call.done \in Nat
          /\ call.len \in 1 .. MaxLen /\ CHUNK \in Nat /\ Within \in Nat
        BY <1>4, LoopFacts DEF Calls
    <2> QED  BY <2>1, SparseDiskAssumption
<1>5. CASE ReadChunk
    <2>1. Take \in 1 .. MaxLen  BY <1>4, <1>5 DEF ReadChunk, Looping
    <2>2. Flat!ReadSome(Take)  BY <1>5, ReadChunkFlat
    <2> QED  BY <2>1, <2>2 DEF Flat!Next
<1>6. CASE WriteChunk
    <2>1. Take \in 1 .. MaxLen  BY <1>4, <1>6 DEF WriteChunk, Looping
    <2>2. Flat!WriteSome(Take)  BY <1>6, WriteChunkFlat
    <2> QED  BY <2>1, <2>2 DEF Flat!Next
<1>7. CASE BaseFails  BY <1>7, CallFlat DEF Flat!Next
<1>8. CASE Return  BY <1>8, CallFlat DEF Flat!Next
<1>9. ASSUME NEW s \in Slots, Save(s) \/ Load(s) PROVE Flat!Next
    BY <1>9, StateFlat DEF Flat!Next
<1>10. CASE UNCHANGED vars  BY <1>10 DEF vars, Flat!vars, View
<1> QED  BY <1>2, <1>3, <1>5, <1>6, <1>7, <1>8, <1>9, <1>10 DEF Next

\* If the host reports its read errors, the disk is a flat array of bytes:
\* whatever the size, the chunks, the base and the savestates, no sequence of
\* calls, failures, saves and loads tells it from one.
THEOREM DiskIsFlat ==
    ASSUME ReadErrors = FALSE
    PROVE  Spec => FlatSpec
<1>1. Init => Flat!Init  BY InitFlat
<1>2. TypeOK /\ [Next]_vars => [Flat!Next]_(Flat!vars)  BY NextFlat
<1> QED  BY <1>1, <1>2, TypeCorrect, PTL DEF Spec, FlatSpec, Flat!Spec

-----------------------------------------------------------------------------
(* What changes the overlay. *)

\* Where a byte of a chunk that was in the overlay may come from.
ByteRightly(c, w) ==
    overlay[c] # NoBlock /\ overlay'[c][w] # overlay[c][w] =>
        /\ c * CHUNK + w - call.offset \in 0 .. call.len - 1
        /\ overlay'[c][w] = call.buffer[c * CHUNK + w - call.offset]

\* Where a chunk may come from.
ChangesRightly(c) ==
    \/ \E s \in Slots : saved[s] # NoState /\ overlay' = saved[s]
    \/ /\ call # NoCall /\ call.op = "write"
       /\ c * CHUNK < call.offset + call.len
       /\ call.offset < (c + 1) * CHUNK
       /\ overlay'[c] # NoBlock
       /\ \A w \in 0 .. CHUNK - 1 : ByteRightly(c, w)

\* The loop is at a chunk of its request.
LEMMA ChunkOfRequest ==
    ASSUME TypeOK, call # NoCall, call.done < call.len
    PROVE  Chunk * CHUNK < call.offset + call.len /\ call.offset < (Chunk + 1) * CHUNK
<1>1. /\ call.offset \in Nat /\ call.len \in Nat /\ call.done \in Nat
      /\ Chunk \in Chunks /\ Offset = call.offset + call.done
      /\ Within \in 0 .. CHUNK - 1 /\ Offset = Chunk * CHUNK + Within
      /\ CHUNK \in Nat \ {0}
    BY LoopFacts
<1>2. Chunk \in Nat  BY <1>1, SpanType
<1> DEFINE start == Chunk * CHUNK  end == (Chunk + 1) * CHUNK
<1>3. start \in Nat /\ end = start + CHUNK  BY <1>1, <1>2
<1>4. call.offset + call.done = start + Within  BY <1>1
<1> HIDE DEF start, end
<1>5. start < call.offset + call.len /\ call.offset < end  BY <1>1, <1>3, <1>4
<1> QED  BY <1>5 DEF start, end

\* A byte the loop puts into a chunk is the byte the request has for its place.
LEMMA ByteOfRequest ==
    ASSUME TypeOK, call # NoCall, call.done < call.len,
           NEW w \in Within .. Within + Take - 1
    PROVE  /\ Chunk * CHUNK + w - call.offset = call.done + (w - Within)
           /\ Chunk * CHUNK + w - call.offset \in 0 .. call.len - 1
<1>1. /\ call.offset \in Nat /\ call.len \in Nat /\ call.done \in Nat
      /\ Chunk \in Chunks /\ Offset = call.offset + call.done
      /\ Within \in 0 .. CHUNK - 1 /\ Offset = Chunk * CHUNK + Within
      /\ Take \in Nat /\ call.done + Take <= call.len /\ CHUNK \in Nat \ {0}
    BY LoopFacts
<1>2. Chunk \in Nat  BY <1>1, SpanType
<1> DEFINE start == Chunk * CHUNK
<1>3. start \in Nat  BY <1>1, <1>2
<1>4. call.offset + call.done = start + Within  BY <1>1
<1>a. w \in Int /\ Within \in Int /\ Take \in Int /\ Within <= w /\ w - Within <= Take - 1  BY <1>1
<1> HIDE DEF start
<1>5. start + w - call.offset = call.done + (w - Within)  BY <1>1, <1>a, <1>3, <1>4
<1>6. call.done + (w - Within) \in 0 .. call.len - 1  BY <1>1, <1>a
<1> QED  BY <1>5, <1>6 DEF start

LEMMA OverlayStep ==
    ASSUME TypeOK, Next, NEW c \in Chunks, overlay'[c] # overlay[c]
    PROVE  ChangesRightly(c)
<1>1. CASE overlay' = overlay  BY <1>1
<1>2. CASE WriteChunk
    <2>1. call # NoCall /\ call.op = "write" /\ call.done < call.len
        BY <1>2 DEF WriteChunk, Looping
    <2>2. PICK block \in materialise(Chunk) :
            overlay' = [overlay EXCEPT ![Chunk] =
                [w \in 0 .. CHUNK - 1 |->
                    IF w \in Within .. Within + Take - 1
                    THEN call.buffer[call.done + (w - Within)] ELSE block[w]]]
        BY <1>2 DEF WriteChunk
    <2>3. c = Chunk  BY <2>2 DEF TypeOK, Overlays
    <2>4. overlay'[c] = [w \in 0 .. CHUNK - 1 |->
                            IF w \in Within .. Within + Take - 1
                            THEN call.buffer[call.done + (w - Within)] ELSE block[w]]
        BY <2>2, <2>3 DEF TypeOK, Overlays
    <2>5. overlay'[c] # NoBlock
        <3>1. block \in [0 .. CHUNK - 1 -> Values] /\ call.buffer \in [0 .. call.len - 1 -> Values]
            BY <2>1, <2>2, LoopFacts, MaterialiseType DEF Block
        <3>2. \A w \in Within .. Within + Take - 1 : call.done + (w - Within) \in 0 .. call.len - 1
            BY <2>1, ByteOfRequest
        <3>3. overlay'[c] \in Block  BY <2>4, <3>1, <3>2 DEF Block
        <3> QED  BY <3>3, AbsenceAssumption
    <2>6. ASSUME NEW w \in 0 .. CHUNK - 1 PROVE ByteRightly(c, w)
        <3>1. CASE w \in Within .. Within + Take - 1
            BY <2>1, <2>3, <2>4, <3>1, ByteOfRequest DEF ByteRightly
        <3>2. CASE w \notin Within .. Within + Take - 1
            <4>1. overlay[c] # NoBlock => block = overlay[c]
                BY <2>2, <2>3 DEF materialise
            <4> QED  BY <2>4, <3>2, <4>1 DEF ByteRightly
        <3> QED  BY <3>1, <3>2
    <2> QED  BY <2>1, <2>3, <2>5, <2>6, ChunkOfRequest DEF ChangesRightly
<1>3. ASSUME NEW s \in Slots, Load(s) PROVE ChangesRightly(c)
    BY <1>3 DEF Load, ChangesRightly
<1>4. Next => overlay' = overlay \/ WriteChunk \/ \E s \in Slots : Load(s)
    BY DEF Next, Begin, ReadChunk, BaseFails, Return, Save
<1> QED  BY <1>1, <1>2, <1>3, <1>4

\* Nothing but a load, or a write that covers it, changes a chunk of the overlay,
\* and a write changes only the bytes of its request: reads leave savestates as
\* small as they were, whatever the host makes of them.
THEOREM OnlyWritesEnter == Spec => OverlayIsWritten
<1> DEFINE Changes == \A c \in Chunks : overlay'[c] # overlay[c] => ChangesRightly(c)
<1>1. TypeOK /\ [Next]_vars => [Changes]_vars  BY OverlayStep
<1>2. OverlayIsWritten <=> [][Changes]_vars  BY DEF OverlayIsWritten, ChangesRightly, ByteRightly
<1> HIDE DEF Changes
<1> QED  BY <1>1, <1>2, TypeCorrect, PTL DEF Spec

-----------------------------------------------------------------------------
(* What a call has left to do. *)

\* A step of a call ends it, or leaves it the same request with fewer bytes to go.
Advances ==
    call # NoCall =>
        \/ call' = NoCall
        \/ /\ call'.op = call.op /\ call'.offset = call.offset /\ call'.len = call.len
           /\ call'.done > call.done /\ call'.done <= call.len

LEMMA StepAdvances == TypeOK /\ Next => Advances
<1> SUFFICES ASSUME TypeOK, Next, call # NoCall  PROVE Advances  BY DEF Advances
<1>1. ASSUME call.done < call.len, NEW b,
             call' = [call EXCEPT !.done = @ + Take] \/ call' = [call EXCEPT !.done = @ + Take, !.buffer = b]
      PROVE  Advances
    <2>1. /\ call \in Calls /\ call.done \in Nat /\ call.len \in Nat
          /\ Take \in Nat \ {0} /\ call.done + Take <= call.len
        BY <1>1, LoopFacts DEF TypeOK
    <2>2. /\ call'.op = call.op /\ call'.offset = call.offset /\ call'.len = call.len
          /\ call'.done = call.done + Take
        BY <1>1, <2>1 DEF Calls
    <2>3. call.done + Take > call.done  BY <2>1
    <2> QED  BY <2>1, <2>2, <2>3 DEF Advances
<1>2. CASE ReadChunk
    <2>1. call.done < call.len /\ \E b : call' = [call EXCEPT !.done = @ + Take, !.buffer = b]
        BY <1>2 DEF ReadChunk, Looping
    <2> QED  BY <1>1, <2>1
<1>3. CASE WriteChunk  BY <1>1, <1>3 DEF WriteChunk, Looping
<1>4. CASE BaseFails \/ Return  BY <1>4 DEF BaseFails, Return, Advances
<1> QED  BY <1>2, <1>3, <1>4 DEF Next, Begin, Save, Load

\* Every iteration of the loops brings a call nearer to its end: whatever the
\* chunks and the host, a request of len bytes is done in at most len of them.
THEOREM CallAdvances == Spec => [][Advances]_vars
<1>1. TypeOK /\ [Next]_vars => [Advances]_vars  BY StepAdvances
<1> QED  BY <1>1, TypeCorrect, PTL DEF Spec
=============================================================================
