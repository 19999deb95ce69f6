----------------------------- MODULE SparseDisk -----------------------------
(***************************************************************************)
(* src/waterbox/sparse-disk.h: a writable disk whose base stays on the host *)
(* and whose written chunks, the overlay, are guest memory.  read and write *)
(* walk the chunks of a request one at a time; each iteration of their loop *)
(* is a step here.  A savestate captures guest memory: the overlay, and     *)
(* nothing of the base.                                                    *)
(***************************************************************************)
EXTENDS Integers

CONSTANTS
    Size,           \* bytes of the disk
    CHUNK,          \* bytes of a chunk (64 KiB in the code)
    Values, Zero,   \* what a byte may hold, and the zero byte
    BaseLen,        \* bytes of the base, a file or a head; a longer disk
    BaseBytes,      \* reads as zero after them
    MaxLen,         \* longest request of a model
    Payloads,       \* what writes write: MaxLen bytes, cut to the request
    Slots,          \* savestate slots
    HostMayFail,    \* the host may refuse to seek in the base
    ReadErrors,     \* fread may stop early although the base goes on
    NoBlock,        \* a chunk the overlay does not hold
    NoCall, NoState \* no call in progress, an empty slot

Addresses == 0 .. Size - 1
Chunks    == 0 .. (Size - 1) \div CHUNK
Block     == [0 .. CHUNK - 1 -> Values]
Overlays  == [Chunks -> Block \cup {NoBlock}]
Buffers   == UNION {[0 .. n - 1 -> Values] : n \in 1 .. MaxLen}
Calls     == [op : {"read", "write"}, offset : Addresses, len : 1 .. MaxLen,
              done : 0 .. MaxLen, buffer : Buffers]

ASSUME SparseDiskAssumption ==
    /\ Size \in Nat \ {0} /\ CHUNK \in Nat \ {0} /\ MaxLen \in Nat \ {0}
    /\ Zero \in Values
    /\ BaseLen \in Nat /\ BaseBytes \in [0 .. BaseLen - 1 -> Values]
    /\ Payloads \subseteq [0 .. MaxLen - 1 -> Values]
    /\ HostMayFail \in BOOLEAN /\ ReadErrors \in BOOLEAN

\* The three absent values are told apart from everything they stand for.
ASSUME AbsenceAssumption ==
    /\ NoBlock \notin Block
    /\ NoState \notin Overlays \cup [Addresses -> Values]
    /\ \A c \in Calls : NoCall # c

VARIABLES
    overlay,    \* _overlay: the block of each chunk written, or NoBlock
    call,       \* read or write in progress: offset and len of the request,
                \* the caller's buffer, and how many bytes the loop has done
    reply,      \* what the call that just ended returned
    saved       \* the overlay in each savestate

vars == <<overlay, call, reply, saved>>

----------------------------------------------------------------------------
BaseByte(a) == IF a < BaseLen THEN BaseBytes[a] ELSE Zero

\* The bytes readBase may deliver: those of the base, and zero after its end.
\* It takes every short read for the end of the file.
readBase(offset, len) ==
    {[k \in 0 .. len - 1 |-> IF k < got THEN BaseByte(offset + k) ELSE Zero] :
        got \in IF ReadErrors THEN 0 .. len ELSE {len}}

\* The last chunk of a disk may be shorter than a block.
Span(c) == IF Size - c * CHUNK < CHUNK THEN Size - c * CHUNK ELSE CHUNK

\* Mutant: a chunk is written into a block of zeros.
MaterialiseBlank(c) ==
    IF overlay[c] # NoBlock THEN {overlay[c]} ELSE {[w \in 0 .. CHUNK - 1 |-> Zero]}

\* The blocks a write may find or create for a chunk.
materialise(c) ==
    IF overlay[c] # NoBlock THEN {overlay[c]}
    ELSE {[w \in 0 .. CHUNK - 1 |-> IF w < Span(c) THEN bytes[w] ELSE Zero] :
            bytes \in readBase(c * CHUNK, Span(c))}

\* The disk as it stands: the overlay where it has the chunk, the base elsewhere.
View(ov) ==
    [a \in Addresses |->
        IF ov[a \div CHUNK] # NoBlock THEN ov[a \div CHUNK][a % CHUNK] ELSE BaseByte(a)]

----------------------------------------------------------------------------
Pending  == [result |-> "none"]
Refused  == [result |-> "false"]
Accepted == [result |-> "true"]
Bytes(buffer) == [result |-> "true", buffer |-> buffer]

Init ==
    /\ overlay = [c \in Chunks |-> NoBlock]
    /\ call = NoCall
    /\ reply = Pending
    /\ saved = [s \in Slots |-> NoState]

\* Mutant: the range check lets the byte after the last one through.
BeginOneTooFar(op, offset, len, data) ==
    /\ call = NoCall
    /\ IF offset + len > Size + 1
       THEN reply' = Refused /\ call' = call
       ELSE /\ reply' = Pending
            /\ call' = [op |-> op, offset |-> offset, len |-> len, done |-> 0,
                        buffer |-> [k \in 0 .. len - 1 |-> data[k]]]
    /\ UNCHANGED <<overlay, saved>>

\* A call of read or write, up to its range check.
Begin(op, offset, len, data) ==
    /\ call = NoCall
    /\ IF offset + len > Size
       THEN reply' = Refused /\ call' = call
       ELSE /\ reply' = Pending
            /\ call' = [op |-> op, offset |-> offset, len |-> len, done |-> 0,
                        buffer |-> [k \in 0 .. len - 1 |-> data[k]]]
    /\ UNCHANGED <<overlay, saved>>

(* One iteration of the loop: offset, chunk, within and take. *)
Offset == call.offset + call.done
Chunk  == Offset \div CHUNK
Within == Offset % CHUNK

\* Mutant: the rest of the chunk is counted one byte short.
TakeOneShort ==
    IF call.len - call.done < CHUNK - Within - 1 THEN call.len - call.done
    ELSE CHUNK - Within - 1

Take ==
    IF call.len - call.done < CHUNK - Within THEN call.len - call.done ELSE CHUNK - Within

Looping(op) == call # NoCall /\ call.op = op /\ call.done < call.len

\* Mutant: a read brings its chunk into the overlay, as a write does.
ReadChunkMaterialises ==
    /\ Looping("read")
    /\ \E block \in materialise(Chunk) :
        /\ overlay' = [overlay EXCEPT ![Chunk] = block]
        /\ call' = [call EXCEPT
                !.done = @ + Take,
                !.buffer = [k \in 0 .. call.len - 1 |->
                    IF k \in call.done .. call.done + Take - 1
                    THEN block[Within + (k - call.done)] ELSE @[k]]]
    /\ UNCHANGED <<reply, saved>>

ReadChunk ==
    /\ Looping("read")
    /\ \E bytes \in IF overlay[Chunk] # NoBlock
                    THEN {[k \in 0 .. Take - 1 |-> overlay[Chunk][Within + k]]}
                    ELSE readBase(Offset, Take) :
        call' = [call EXCEPT
            !.done = @ + Take,
            !.buffer = [k \in 0 .. call.len - 1 |->
                IF k \in call.done .. call.done + Take - 1
                THEN bytes[k - call.done] ELSE @[k]]]
    /\ UNCHANGED <<overlay, reply, saved>>

WriteChunk ==
    /\ Looping("write")
    /\ \E block \in materialise(Chunk) :
        overlay' = [overlay EXCEPT ![Chunk] =
            [w \in 0 .. CHUNK - 1 |->
                IF w \in Within .. Within + Take - 1
                THEN call.buffer[call.done + (w - Within)] ELSE block[w]]]
    /\ call' = [call EXCEPT !.done = @ + Take]
    /\ UNCHANGED <<reply, saved>>

\* The base cannot be read: the call fails, and a write keeps the chunks it
\* has done.  A chunk of the overlay never needs the base.
BaseFails ==
    /\ HostMayFail
    /\ call # NoCall /\ call.done < call.len
    /\ overlay[Chunk] = NoBlock
    /\ reply' = Refused
    /\ call' = NoCall
    /\ UNCHANGED <<overlay, saved>>

Return ==
    /\ call # NoCall
    /\ call.done = call.len
    /\ reply' = IF call.op = "read" THEN Bytes(call.buffer) ELSE Accepted
    /\ call' = NoCall
    /\ UNCHANGED <<overlay, saved>>

\* The sandbox saves and restores guest memory between calls.
Save(s) ==
    /\ call = NoCall
    /\ saved' = [saved EXCEPT ![s] = overlay]
    /\ reply' = Pending
    /\ UNCHANGED <<overlay, call>>

\* Mutant: a load leaves the chunks the state does not have.
LoadMerges(s) ==
    /\ call = NoCall
    /\ saved[s] # NoState
    /\ overlay' = [c \in Chunks |-> IF saved[s][c] # NoBlock THEN saved[s][c] ELSE overlay[c]]
    /\ reply' = Pending
    /\ UNCHANGED <<call, saved>>

Load(s) ==
    /\ call = NoCall
    /\ saved[s] # NoState
    /\ overlay' = saved[s]
    /\ reply' = Pending
    /\ UNCHANGED <<call, saved>>

Blank == [k \in 0 .. MaxLen - 1 |-> Zero]

Next ==
    \/ \E offset \in 0 .. Size, len \in 1 .. MaxLen :
        \/ Begin("read", offset, len, Blank)
        \/ \E data \in Payloads : Begin("write", offset, len, data)
    \/ ReadChunk \/ WriteChunk \/ BaseFails \/ Return
    \/ \E s \in Slots : Save(s) \/ Load(s)

Spec == Init /\ [][Next]_vars

\* The loops run without waiting for anybody.
FairSpec == Spec /\ WF_vars(ReadChunk \/ WriteChunk \/ Return)

----------------------------------------------------------------------------
(* Correctness *)

\* Every variable has its type; a call in progress has passed the range check,
\* and its loop is inside the request and its buffer.
TypeOK ==
    /\ overlay \in Overlays
    /\ \/ call = NoCall
       \/ /\ call \in Calls
          /\ call.offset + call.len <= Size
          /\ call.done <= call.len
          /\ call.buffer \in [0 .. call.len - 1 -> Values]
    /\ reply \in {Pending, Refused, Accepted} \/ \E b \in Buffers : reply = Bytes(b)
    /\ saved \in [Slots -> Overlays \cup {NoState}]

\* The disk behind the overlay is a flat array of bytes: every read returns
\* what the writes and loads before it left there, whatever chunks they fell
\* in, whatever failed in between, and a savestate is the whole disk.
Flat == INSTANCE FlatDisk WITH
    Original <- [a \in Addresses |-> BaseByte(a)],
    content  <- View(overlay),
    saved    <- [s \in Slots |-> IF saved[s] = NoState THEN NoState ELSE View(saved[s])]

FlatSpec == Flat!Spec

\* A savestate carries what was written and nothing else, whatever the host
\* makes of its reads: a chunk of the overlay is new or other than it was only
\* when a state is loaded or a write reaches it, and what a write does to a chunk
\* that was there is to put the bytes of the request where the request has them.
OverlayIsWritten ==
    [][\A c \in Chunks : overlay'[c] # overlay[c] =>
         \/ \E s \in Slots : saved[s] # NoState /\ overlay' = saved[s]
         \/ /\ call # NoCall /\ call.op = "write"
            /\ c * CHUNK < call.offset + call.len
            /\ call.offset < (c + 1) * CHUNK
            /\ overlay'[c] # NoBlock
            /\ \A w \in 0 .. CHUNK - 1 :
                overlay[c] # NoBlock /\ overlay'[c][w] # overlay[c][w] =>
                    /\ c * CHUNK + w - call.offset \in 0 .. call.len - 1
                    /\ overlay'[c][w] = call.buffer[c * CHUNK + w - call.offset]]_vars

\* A chunk about to be written starts as what the base says it is
\* (sparse-disk.h:114): what the request does not cover reads back as it did.
StartsAsTheBase ==
    [][\A a \in Addresses :
         call # NoCall /\ call.op = "write" /\ ~(a - call.offset \in 0 .. call.len - 1) =>
            View(overlay)[a] = View(overlay')[a]]_vars

\* The loops end: every call the disk accepts returns.
CallsReturn == call # NoCall ~> call = NoCall
=============================================================================
