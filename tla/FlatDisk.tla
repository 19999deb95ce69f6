------------------------------ MODULE FlatDisk ------------------------------
(***************************************************************************)
(* What the machine's hard disk promises to the disk layer above it         *)
(* (src/patches/src/ints/bios_disk.cpp, imageDisk_Sparse) and to an export: *)
(* a flat array of bytes, read and written by one call at a time, that a    *)
(* savestate captures whole.  SparseDisk implements it.                     *)
(***************************************************************************)
EXTENDS Integers

CONSTANTS
    Size,           \* bytes of the disk
    Zero,           \* what a read buffer holds before it is filled
    Original,       \* the disk before anything was written to it
    MaxLen,         \* longest request of a model
    Payloads,       \* what writes write: MaxLen bytes, cut to the request
    Slots,          \* savestate slots
    HostMayFail,    \* the host may refuse to read the base
    NoCall, NoState \* no call in progress, an empty slot

Addresses == 0 .. Size - 1

VARIABLES
    content,    \* the bytes
    call,       \* the call in progress: its buffer and how much of it is done
    reply,      \* what the call that just ended returned
    saved       \* the disk in each savestate

vars == <<content, call, reply, saved>>

Pending  == [result |-> "none"]
Refused  == [result |-> "false"]
Accepted == [result |-> "true"]
Bytes(buffer) == [result |-> "true", buffer |-> buffer]

Init ==
    /\ content = Original
    /\ call = NoCall
    /\ reply = Pending
    /\ saved = [s \in Slots |-> NoState]

\* Out of range calls are refused as a whole.
Begin(op, offset, len, data) ==
    /\ call = NoCall
    /\ IF offset + len > Size
       THEN reply' = Refused /\ call' = call
       ELSE /\ reply' = Pending
            /\ call' = [op |-> op, offset |-> offset, len |-> len, done |-> 0,
                        buffer |-> [k \in 0 .. len - 1 |-> data[k]]]
    /\ UNCHANGED <<content, saved>>

\* Some more bytes, in order.
ReadSome(n) ==
    /\ call # NoCall /\ call.op = "read"
    /\ call' = [call EXCEPT
            !.done = @ + n,
            !.buffer = [k \in 0 .. call.len - 1 |->
                IF k \in call.done .. call.done + n - 1
                THEN content[call.offset + k] ELSE @[k]]]
    /\ UNCHANGED <<content, reply, saved>>

WriteSome(n) ==
    /\ call # NoCall /\ call.op = "write"
    /\ call' = [call EXCEPT !.done = @ + n]
    /\ content' = [a \in Addresses |->
            IF a - call.offset \in call.done .. call.done + n - 1
            THEN call.buffer[a - call.offset] ELSE content[a]]
    /\ UNCHANGED <<reply, saved>>

Finish ==
    /\ call # NoCall
    /\ call.done = call.len
    /\ reply' = IF call.op = "read" THEN Bytes(call.buffer) ELSE Accepted
    /\ call' = NoCall
    /\ UNCHANGED <<content, saved>>

\* A call the host fails keeps what it has already moved.
Fail ==
    /\ HostMayFail
    /\ call # NoCall
    /\ reply' = Refused
    /\ call' = NoCall
    /\ UNCHANGED <<content, saved>>

\* Savestates are taken and loaded between calls.
Save(s) ==
    /\ call = NoCall
    /\ saved' = [saved EXCEPT ![s] = content]
    /\ reply' = Pending
    /\ UNCHANGED <<content, call>>

Load(s) ==
    /\ call = NoCall
    /\ saved[s] # NoState
    /\ content' = saved[s]
    /\ reply' = Pending
    /\ UNCHANGED <<call, saved>>

\* A read's buffer starts with nothing of interest.
Blank == [k \in 0 .. MaxLen - 1 |-> Zero]

Next ==
    \/ \E offset \in 0 .. Size, len \in 1 .. MaxLen :
        \/ Begin("read", offset, len, Blank)
        \/ \E data \in Payloads : Begin("write", offset, len, data)
    \/ \E n \in 1 .. MaxLen : ReadSome(n) \/ WriteSome(n)
    \/ Finish \/ Fail
    \/ \E s \in Slots : Save(s) \/ Load(s)

Spec == Init /\ [][Next]_vars
=============================================================================
