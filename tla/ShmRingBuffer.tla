--------------------------- MODULE ShmRingBuffer ---------------------------
(***************************************************************************)
(* MessageQueue over ShmRingBuffer (sonar/distributed/device_communicators/*)
(* shm_broadcast.py): one writer process and several reader processes      *)
(* share a ring of slots.  Each slot has a written flag, one read flag per *)
(* reader and its data; there is no lock.  The first byte of the data says *)
(* whether the message is in the slot or, being too large, comes through a *)
(* socket after the slot was published.  An idle reader sleeps on a socket *)
(* on which the writer publishes wake-ups that may be dropped.             *)
(*                                                                         *)
(* A process's stores become visible to the others one at a time: stores   *)
(* is the writer's store buffer, Commit lets one store out, and a          *)
(* memory_fence waits until the buffer is empty.  StoresInOrder says       *)
(* whether the machine keeps the order of the stores (x86) or not (ARM).   *)
(* The writer issues a group of stores in one step: a store that is late   *)
(* in the program is a store that stays in the buffer longer.  A reader    *)
(* stores only its read flag, right before a fence, so that store is       *)
(* immediate.                                                              *)
(***************************************************************************)
EXTENDS Integers, Sequences, SequencesExt

CONSTANTS
    Reader,          \* local readers
    MaxChunks,       \* slots of the ring
    MaxMsgs,         \* bound: messages that the writer tries to send
    Large,           \* bound: those that may be too large for a slot
    StoresInOrder,   \* stores leave the store buffer in program order
    Hasty,           \* readers whose dequeue has a timeout
    Stoppable        \* readers in which MessageQueue.shutdown may be called

ASSUME RingAssumption ==
    /\ MaxChunks \in Nat \ {0} /\ MaxMsgs \in Nat /\ Large \subseteq 1 .. MaxMsgs
    /\ StoresInOrder \in BOOLEAN /\ Hasty \subseteq Reader /\ Stoppable \subseteq Reader
    /\ IsFiniteSet(Reader) /\ Reader \cap {"written", "overflow", "body"} = {}

VARIABLES
    mem,      \* the shared memory: flags 0 or 1, body a message number
    stores,   \* the writer's stores that are not visible yet
    wpc,      \* where the writer is
    widx,     \* the writer's current_idx
    msg,      \* number of the message being sent
    big,      \* it does not fit into a slot
    socket,   \* socket[r]: payloads on their way to r through local_socket
    notified, \* notified[r]: a wake-up is pending at r (at most one is kept)
    rpc,      \* rpc[r]: where reader r is
    ridx,     \* ridx[r]: current_idx of r
    loaded,   \* loaded[r]: what r read last from memory
    shut,     \* shut[r]: shutting_down of r
    cancel,   \* cancel[r]: a cancel ping is pending at r
    log,      \* history: the messages published, in order
    taken     \* taken[r]: history: the messages returned to r

writerVars == <<wpc, widx, msg, big>>
readerVars == <<rpc, ridx, loaded, taken>>
shutVars == <<shut, cancel>>
vars == <<mem, stores, writerVars, socket, notified, readerVars, shutVars, log>>

Slot == 0 .. MaxChunks - 1
Field == {"written", "overflow", "body"} \cup Reader
Msg == 1 .. MaxMsgs

Init ==
    /\ mem = [l \in Field \X Slot |-> 0]
    /\ stores = <<>>
    /\ wpc = "idle" /\ widx = 0 /\ msg = 0 /\ big = FALSE
    /\ socket = [r \in Reader |-> <<>>]
    /\ notified = [r \in Reader |-> FALSE]
    /\ rpc = [r \in Reader |-> "flag"]
    /\ ridx = [r \in Reader |-> 0]
    /\ loaded = [r \in Reader |-> 0]
    /\ shut = [r \in Reader |-> FALSE]
    /\ cancel = [r \in Reader |-> FALSE]
    /\ log = <<>>
    /\ taken = [r \in Reader |-> <<>>]

-----------------------------------------------------------------------------
(* The writer: enqueue and acquire_write. *)

MemoryFence == stores = <<>>

Enqueue ==
    /\ wpc = "idle" /\ msg < MaxMsgs
    /\ msg' = msg + 1
    /\ big' \in IF msg' \in Large THEN BOOLEAN ELSE {FALSE}
    /\ wpc' = "check"
    /\ UNCHANGED <<mem, stores, widx, socket, notified, readerVars, shutVars, log>>

(* Slip: free as soon as anybody has read the slot. *)
WritableAfterFirst == mem[<<"written", widx>>] = 0 \/ \E r \in Reader : mem[<<r, widx>>] = 1

(* check(): not written, or read by every reader.  The loads are one step:
   while the writer waits, read flags only go from 0 to 1. *)
Writable == mem[<<"written", widx>>] = 0 \/ \A r \in Reader : mem[<<r, widx>>] = 1

(* Slip: the read flags are left as they are. *)
FillStoresKeepRead ==
    <<[at |-> <<"written", widx>>, val |-> 0],
      [at |-> <<"overflow", widx>>, val |-> IF big THEN 1 ELSE 0]>>
    \o (IF big THEN <<>> ELSE <<[at |-> <<"body", widx>>, val |-> msg]>>)

(* Mark the slot unwritten, let the caller fill it (a large message only sets
   the overflow byte) and clear the read flags. *)
FillStores ==
    <<[at |-> <<"written", widx>>, val |-> 0],
      [at |-> <<"overflow", widx>>, val |-> IF big THEN 1 ELSE 0]>>
    \o (IF big THEN <<>> ELSE <<[at |-> <<"body", widx>>, val |-> msg]>>)
    \o SetToSeq({[at |-> <<r, widx>>, val |-> 0] : r \in Reader})

Fill ==
    /\ wpc = "check" /\ MemoryFence /\ Writable
    /\ stores' = FillStores
    /\ wpc' = "publish"
    /\ UNCHANGED <<mem, widx, msg, big, socket, notified, readerVars, shutVars, log>>

(* TimeoutError: the message is given up before anything was stored. *)
WriteTimeout ==
    /\ wpc = "check" /\ ~Writable
    /\ wpc' = "idle"
    /\ UNCHANGED <<mem, stores, widx, msg, big, socket, notified, readerVars, shutVars, log>>

Publish ==
    /\ wpc = "publish" /\ MemoryFence
    /\ stores' = <<[at |-> <<"written", widx>>, val |-> 1]>>
    /\ wpc' = "advance"
    /\ UNCHANGED <<mem, widx, msg, big, socket, notified, readerVars, shutVars, log>>

Advance ==
    /\ wpc = "advance" /\ MemoryFence
    /\ widx' = (widx + 1) % MaxChunks
    /\ wpc' = IF big THEN "send" ELSE "notify"
    /\ UNCHANGED <<mem, stores, msg, big, socket, notified, readerVars, shutVars, log>>

(* local_socket.send_multipart of a large message. *)
SendPayload ==
    /\ wpc = "send"
    /\ socket' = [r \in Reader |-> Append(socket[r], msg)]
    /\ wpc' = "notify"
    /\ UNCHANGED <<mem, stores, widx, msg, big, notified, readerVars, shutVars, log>>

(* SpinCondition.notify: the PUB socket may drop the ping for any reader. *)
Notify ==
    /\ wpc = "notify"
    /\ \E reached \in SUBSET Reader :
          notified' = [r \in Reader |-> notified[r] \/ r \in reached]
    /\ wpc' = "idle"
    /\ UNCHANGED <<mem, stores, widx, msg, big, socket, readerVars, shutVars, log>>

(* One store of the writer becomes visible. *)
Commit ==
    \E i \in 1 .. Len(stores) :
        LET s == stores[i]
        IN  /\ StoresInOrder => i = 1
            /\ mem' = [mem EXCEPT ![s.at] = s.val]
            /\ stores' = RemoveAt(stores, i)
            /\ log' = IF s.at[1] = "written" /\ s.val = 1 THEN Append(log, msg) ELSE log
            /\ UNCHANGED <<writerVars, socket, notified, readerVars, shutVars>>

-----------------------------------------------------------------------------
(* A reader: dequeue, acquire_read and _wait_until_readable. *)

(* check_readable loads the read flag of the reader first ... *)
CheckReadFlag(r) ==
    /\ rpc[r] = "flag"
    /\ loaded' = [loaded EXCEPT ![r] = mem[<<r, ridx[r]>>]]
    /\ rpc' = [rpc EXCEPT ![r] = "written"]
    /\ UNCHANGED <<mem, stores, writerVars, socket, notified, ridx, taken, shutVars, log>>

(* ... and then the written flag. *)
CheckWritten(r) ==
    /\ rpc[r] = "written"
    /\ rpc' = [rpc EXCEPT ![r] =
                 IF mem[<<"written", ridx[r]>>] = 1 /\ loaded[r] = 0 THEN "overflow" ELSE "wait"]
    /\ UNCHANGED <<mem, stores, writerVars, socket, notified, ridx, loaded, taken, shutVars, log>>

(* Slip: shutting_down is not looked at. *)
RechecksAlways(r) ==
    /\ rpc[r] = "wait"
    /\ rpc' = [rpc EXCEPT ![r] = "flag"]
    /\ UNCHANGED <<mem, stores, writerVars, socket, ridx, loaded, taken, shut, log>>

(* SpinCondition.wait returns, and the loop starts again or is cancelled. *)
Rechecks(r) ==
    /\ rpc[r] = "wait"
    /\ rpc' = [rpc EXCEPT ![r] = IF shut[r] THEN "cancelled" ELSE "flag"]
    /\ UNCHANGED <<mem, stores, writerVars, socket, ridx, loaded, taken, shut, log>>

(* Shortly after a read wait only yields the processor. *)
WaitYields(r) == Rechecks(r) /\ UNCHANGED <<notified, cancel>>

WaitNotified(r) ==
    /\ notified[r] /\ ~cancel[r]
    /\ Rechecks(r)
    /\ notified' = [notified EXCEPT ![r] = FALSE]
    /\ UNCHANGED cancel

WaitCancelled(r) == cancel[r] /\ Rechecks(r) /\ UNCHANGED <<notified, cancel>>

(* Slip: the poll has no timeout, so only a wake-up ends it. *)
WaitNeverTimesOut(r) == notified[r] /\ Rechecks(r) /\ UNCHANGED <<notified, cancel>>

(* The timeout of the poll is capped at SHM_READER_RECHECK_INTERVAL_MS.  A
   TimeoutError at the caller's deadline ends here too: it leaves no trace. *)
WaitTimedOut(r) == Rechecks(r) /\ UNCHANGED <<notified, cancel>>

ReadOverflow(r) ==
    /\ rpc[r] = "overflow"
    /\ rpc' = [rpc EXCEPT ![r] = IF mem[<<"overflow", ridx[r]>>] = 1 THEN "markBig" ELSE "body"]
    /\ UNCHANGED <<mem, stores, writerVars, socket, notified, ridx, loaded, taken, shutVars, log>>

ReadBody(r) ==
    /\ rpc[r] = "body"
    /\ loaded' = [loaded EXCEPT ![r] = mem[<<"body", ridx[r]>>]]
    /\ rpc' = [rpc EXCEPT ![r] = "mark"]
    /\ UNCHANGED <<mem, stores, writerVars, socket, notified, ridx, taken, shutVars, log>>

(* Set the read flag, advance; record_read may swallow a pending wake-up.  A
   message from the slot is returned, a large one is still to be fetched. *)
MarkRead(r) ==
    /\ rpc[r] \in {"mark", "markBig"}
    /\ mem' = [mem EXCEPT ![<<r, ridx[r]>>] = 1]
    /\ ridx' = [ridx EXCEPT ![r] = (@ + 1) % MaxChunks]
    /\ taken' = IF rpc[r] = "mark" THEN [taken EXCEPT ![r] = Append(@, loaded[r])] ELSE taken
    /\ rpc' = [rpc EXCEPT ![r] = IF @ = "mark" THEN "flag" ELSE "recv"]
    /\ \E polled \in BOOLEAN : notified' = [notified EXCEPT ![r] = @ /\ ~polled]
    /\ UNCHANGED <<stores, writerVars, socket, loaded, shutVars, log>>

RecvPayload(r) ==
    /\ rpc[r] = "recv" /\ socket[r] # <<>>
    /\ taken' = [taken EXCEPT ![r] = Append(@, Head(socket[r]))]
    /\ socket' = [socket EXCEPT ![r] = Tail(@)]
    /\ rpc' = [rpc EXCEPT ![r] = "flag"]
    /\ UNCHANGED <<mem, stores, writerVars, notified, ridx, loaded, shutVars, log>>

(* TimeoutError in MessageQueue.recv: the slot is already marked as read. *)
RecvTimeout(r) ==
    /\ r \in Hasty
    /\ rpc[r] = "recv" /\ socket[r] = <<>>
    /\ rpc' = [rpc EXCEPT ![r] = "flag"]
    /\ UNCHANGED <<mem, stores, writerVars, socket, notified, ridx, loaded, taken, shutVars, log>>

(* shutdown() runs in another thread of the reader's process: the flag, then
   the ping (SpinCondition.cancel). *)
SetShuttingDown(r) ==
    /\ r \in Stoppable /\ ~shut[r]
    /\ shut' = [shut EXCEPT ![r] = TRUE]
    /\ UNCHANGED <<mem, stores, writerVars, socket, notified, readerVars, cancel, log>>

Cancel(r) ==
    /\ shut[r] /\ ~cancel[r]
    /\ cancel' = [cancel EXCEPT ![r] = TRUE]
    /\ UNCHANGED <<mem, stores, writerVars, socket, notified, readerVars, shut, log>>

-----------------------------------------------------------------------------
Write == Fill \/ Publish \/ Advance \/ SendPayload \/ Notify

Waits(r) == WaitNotified(r) \/ WaitCancelled(r) \/ WaitTimedOut(r)

Reads(r) ==
    \/ CheckReadFlag(r) \/ CheckWritten(r) \/ Waits(r)
    \/ ReadOverflow(r) \/ ReadBody(r) \/ MarkRead(r) \/ RecvPayload(r)

Next ==
    \/ Enqueue \/ Write \/ WriteTimeout \/ Commit
    \/ \E r \in Reader :
          \/ Reads(r) \/ WaitYields(r) \/ RecvTimeout(r)
          \/ SetShuttingDown(r) \/ Cancel(r)

(* The processes run and stores drain.  Nothing makes the writer send, a call
   time out, or wake-ups arrive. *)
Fairness ==
    /\ WF_vars(Write) /\ WF_vars(Commit)
    /\ \A r \in Reader : WF_vars(Reads(r)) /\ WF_vars(Cancel(r))

Spec == Init /\ [][Next]_vars /\ Fairness

-----------------------------------------------------------------------------
(* Properties *)

Readers(loc) == {r \in Reader : rpc[r] \in loc}

(* Flags are 0 or 1, both sides stay within the ring, and every store goes
   to a field of a slot. *)
TypeOK ==
    /\ \A l \in DOMAIN mem : mem[l] \in (IF l[1] = "body" THEN 0 .. MaxMsgs ELSE {0, 1})
    /\ \A i \in DOMAIN stores : stores[i].at \in Field \X Slot
    /\ wpc \in {"idle", "check", "publish", "advance", "send", "notify"}
    /\ widx \in Slot /\ msg \in 0 .. MaxMsgs /\ big \in BOOLEAN
    /\ Readers({"flag", "written", "wait", "overflow", "body", "mark", "markBig",
                "recv", "cancelled"}) = Reader
    /\ ridx \in [Reader -> Slot] /\ loaded \in [Reader -> 0 .. MaxMsgs]
    /\ notified \in [Reader -> BOOLEAN] /\ shut \in [Reader -> BOOLEAN]
    /\ cancel \in [Reader -> BOOLEAN]

(* While a reader is between its check and its read flag (acquire_read has
   yielded the buffer), the writer has no store to that slot under way: a
   message is never overwritten or half written under a reader. *)
SlotNotOverwritten ==
    \A r \in Readers({"overflow", "body", "mark", "markBig"}) :
        \A i \in DOMAIN stores :
            stores[i].at[2] = ridx[r] => stores[i].at[1] = "written" /\ stores[i].val = 1

(* The shared memory is well formed and no message is overwritten or half
   written under a reader. *)
RingSafe == TypeOK /\ SlotNotOverwritten

Patient == Reader \ Hasty

Broadcast ==
    INSTANCE BroadcastQueue
    WITH Reader <- Patient, Message <- Msg, Capacity <- MaxChunks + 1,
         taken <- [r \in Patient |-> taken[r]],
         left <- Readers({"cancelled"}) \cap Patient

(* The ring, its flags and the socket are a broadcast queue for the readers
   whose calls have no deadline: each takes what was published, once and in
   order, the writer is never further ahead than the ring (and one large
   message whose slot is free again), and a reader that is not shut down gets
   every message, although wake-ups are lost and other readers time out. *)
ImplementsBroadcast == Broadcast!Spec

(* A writer that waits for a free slot gets one unless a reader was shut down:
   writer and readers never wait for each other. *)
WriterNotStuck ==
    wpc = "check" ~> (wpc # "check" \/ \E r \in Reader : shut[r])

(* shutdown() gets an idle reader out of dequeue, whatever the order of flag,
   ping and wake-ups.  (It cannot wake a reader that waits for a payload.) *)
ShutdownEnds ==
    \A r \in Reader : shut[r] ~> rpc[r] \in {"cancelled", "recv"}
=============================================================================
