------------------------------ MODULE FileStore ------------------------------
(***************************************************************************)
(* What a file system promises its clients between a mount and the next    *)
(* unmount: a file is a sequence of bytes, which only writing through a    *)
(* descriptor of that file changes, and a read returns the bytes that are  *)
(* at the descriptor's position.  Calls read and write a run at a time.    *)
(***************************************************************************)
EXTENDS Integers, Sequences

CONSTANTS Slots, Descs, Values, MaxRun, NoSlot

VARIABLES
    bytes,     \* the bytes of each existing file
    open,      \* each descriptor: [file, pos]; file is NoSlot when it is closed
    heard      \* what the last read has returned so far

storeVars == <<bytes, open, heard>>

Closed == [d \in Descs |-> [file |-> NoSlot, pos |-> 0]]
NoFiles == [f \in {} |-> <<>>]

StoreInit == bytes = NoFiles /\ open = Closed /\ heard = <<>>

\* An unmount, a mount, the end of the process.
Reset == bytes' = NoFiles /\ open' = Closed /\ heard' = <<>>

Create(f) ==
    /\ f \notin DOMAIN bytes
    /\ bytes' = [g \in DOMAIN bytes \cup {f} |-> IF g = f THEN <<>> ELSE bytes[g]]
    /\ UNCHANGED <<open, heard>>

Delete(f) ==
    /\ f \in DOMAIN bytes
    /\ bytes' = [g \in DOMAIN bytes \ {f} |-> bytes[g]]
    /\ UNCHANGED <<open, heard>>

Open(d, f) ==
    /\ open[d].file = NoSlot /\ f \in DOMAIN bytes
    /\ open' = [open EXCEPT ![d] = [file |-> f, pos |-> 0]]
    /\ UNCHANGED <<bytes, heard>>

Close(d) ==
    /\ open' = [open EXCEPT ![d] = [file |-> NoSlot, pos |-> 0]]
    /\ UNCHANGED <<bytes, heard>>

Seek(d) ==
    /\ open[d].file \in DOMAIN bytes
    /\ \E p \in 0 .. Len(bytes[open[d].file]) : open' = [open EXCEPT ![d].pos = p]
    /\ UNCHANGED <<bytes, heard>>

Read(d, n) ==
    /\ open[d].file \in DOMAIN bytes
    /\ open[d].pos + n <= Len(bytes[open[d].file])
    /\ heard' = heard \o SubSeq(bytes[open[d].file], open[d].pos + 1, open[d].pos + n)
    /\ open' = [open EXCEPT ![d].pos = @ + n]
    /\ UNCHANGED bytes

Forget == heard' = <<>> /\ UNCHANGED <<bytes, open>>

\* The old bytes with n times v from position p on.
Overwritten(old, p, n, v) ==
    [i \in 1 .. IF p + n > Len(old) THEN p + n ELSE Len(old) |->
        IF i \in p + 1 .. p + n THEN v ELSE old[i]]

Write(d, n, v) ==
    /\ open[d].file \in DOMAIN bytes
    /\ bytes' = [bytes EXCEPT ![open[d].file] = Overwritten(@, open[d].pos, n, v)]
    /\ open' = [open EXCEPT ![d].pos = @ + n]
    /\ UNCHANGED heard

StoreNext ==
    \/ Reset \/ Forget
    \/ \E f \in Slots : Create(f) \/ Delete(f)
    \/ \E d \in Descs :
          \/ Close(d) \/ Seek(d)
          \/ \E f \in Slots : Open(d, f)
          \/ \E n \in 1 .. MaxRun : Read(d, n) \/ \E v \in Values : Write(d, n, v)

StoreSpec == StoreInit /\ [][StoreNext]_storeVars
=============================================================================
