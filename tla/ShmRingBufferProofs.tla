------------------------ MODULE ShmRingBufferProofs ------------------------
(***************************************************************************)
(* Proofs about the shared-memory ring, for any number of readers, slots   *)
(* and messages, on a machine that keeps the order of the stores.          *)
(***************************************************************************)
EXTENDS ShmRingBuffer, FiniteSetTheorems, SequenceTheorems, TLAPS

WriterLoc == {"idle", "check", "publish", "advance", "send", "notify"}
InSlot == {"overflow", "body", "mark", "markBig"}
ReaderLoc == InSlot \cup {"flag", "written", "wait", "recv", "cancelled"}

Store == [at : Field \X Slot, val : 0 .. MaxMsgs]
WrittenStore(v) == [at |-> <<"written", widx>>, val |-> v]

(* What the memory and the store buffer may hold. *)
MemoryInv ==
    /\ mem \in [Field \X Slot -> 0 .. MaxMsgs]
    /\ \A f \in Field, s \in Slot : f # "body" => mem[<<f, s>>] \in {0, 1}
    /\ stores \in Seq(Store)
    /\ \A i \in 1 .. Len(stores) :
          /\ stores[i].at[2] = widx
          /\ stores[i].at[1] # "body" => stores[i].val \in {0, 1}

(* Where the writer and the readers may be. *)
LocalInv ==
    /\ wpc \in WriterLoc
    /\ widx \in Slot /\ msg \in 0 .. MaxMsgs /\ big \in BOOLEAN
    /\ wpc # "idle" => msg \in Msg
    /\ rpc \in [Reader -> ReaderLoc]
    /\ ridx \in [Reader -> Slot] /\ loaded \in [Reader -> 0 .. MaxMsgs]
    /\ notified \in [Reader -> BOOLEAN] /\ shut \in [Reader -> BOOLEAN]
    /\ cancel \in [Reader -> BOOLEAN]

(* The store written := 0 of the slot being filled is still in the buffer. *)
Unmarking == stores # <<>> /\ stores[1] = WrittenStore(0)

(* Only acquire_write stores, and it marks the slot unwritten first: a slot
   whose flag is up while the stores drain has been read by everybody. *)
StoresInv ==
    /\ wpc \notin {"publish", "advance"} => stores = <<>>
    /\ wpc = "advance" => stores = <<>> \/ stores = <<WrittenStore(1)>>
    /\ wpc = "publish" =>
          /\ \A i \in 2 .. Len(stores) : stores[i].at[1] # "written"
          /\ \A i \in 1 .. Len(stores) : stores[i].at[1] \in Reader => stores[i].val = 0
          /\ \/ Unmarking /\ (mem[<<"written", widx>>] = 0 \/ \A r \in Reader : mem[<<r, widx>>] = 1)
             \/ ~Unmarking /\ mem[<<"written", widx>>] = 0
                /\ \A i \in 1 .. Len(stores) : stores[i].at[1] # "written"

(* A reader that may use a slot has not set its read flag there, and while it
   uses the slot the written flag is up. *)
ReadersInv ==
    \A r \in Reader :
        /\ rpc[r] = "written" /\ loaded[r] = 0 => mem[<<r, ridx[r]>>] = 0
        /\ rpc[r] \in InSlot => mem[<<r, ridx[r]>>] = 0 /\ mem[<<"written", ridx[r]>>] = 1

RingInv == MemoryInv /\ LocalInv /\ StoresInv /\ ReadersInv
-----------------------------------------------------------------------------
SlotOf(k) == (k - 1) % MaxChunks

(* The message being sent is in the log and current_idx not advanced yet. *)
Committed == wpc = "advance" /\ stores = <<>>
(* A slot is between its written := 0 and its written := 1. *)
Filling == wpc = "publish" \/ (wpc = "advance" /\ stores # <<>>)
Unsent == big /\ (Committed \/ wpc = "send")

(* Position of the last slot r has marked as read. *)
Marked(r) == Len(taken[r]) + (IF rpc[r] = "recv" THEN 1 ELSE 0)
Sent == Len(log) - (IF Unsent THEN 1 ELSE 0)
Live == {k \in 1 .. Len(log) : k + MaxChunks > Len(log) + (IF Filling THEN 1 ELSE 0)}
(* Positions of the large messages that r has not taken. *)
Awaited(r) == {k \in 1 .. Len(log) : k > Len(taken[r]) /\ (k <= Marked(r) \/ mem[<<"overflow", SlotOf(k)>>] = 1)}

Increasing(s) == \A i, j \in 1 .. Len(s) : i < j => s[i] < s[j]

LogInv ==
    /\ log \in Seq(Msg) /\ Increasing(log)
    /\ \A k \in 1 .. Len(log) : log[k] <= msg
    /\ wpc = "check" \/ Filling => \A k \in 1 .. Len(log) : log[k] < msg
    /\ Committed \/ wpc = "send" => Len(log) > 0 /\ log[Len(log)] = msg
    /\ wpc = "send" => big
    /\ widx = (Len(log) - (IF Committed THEN 1 ELSE 0)) % MaxChunks

(* What Fill leaves to be committed. *)
FillInv ==
    /\ wpc = "publish" =>
          /\ \A i \in 1 .. Len(stores) :
               /\ stores[i].at[1] = "overflow" => stores[i].val = (IF big THEN 1 ELSE 0)
               /\ stores[i].at[1] = "body" => ~big /\ stores[i].val = msg
          /\ \A r \in Reader : mem[<<r, widx>>] = 0 \/ \E i \in 1 .. Len(stores) : stores[i].at = <<r, widx>>
          /\ mem[<<"overflow", widx>>] = (IF big THEN 1 ELSE 0) \/ \E i \in 1 .. Len(stores) : stores[i].at = <<"overflow", widx>>
          /\ big \/ mem[<<"body", widx>>] = msg \/ \E i \in 1 .. Len(stores) : stores[i].at = <<"body", widx>>
    /\ wpc = "advance" /\ stores # <<>> =>
          /\ mem[<<"written", widx>>] = 0
          /\ \A r \in Reader : mem[<<r, widx>>] = 0
          /\ mem[<<"overflow", widx>>] = (IF big THEN 1 ELSE 0)
          /\ big \/ mem[<<"body", widx>>] = msg
    /\ Unsent => mem[<<"overflow", SlotOf(Len(log))>>] = 1

SlotsInv ==
    /\ \A k \in Live :
          /\ mem[<<"written", SlotOf(k)>>] = 1
          /\ mem[<<"overflow", SlotOf(k)>>] = 0 => mem[<<"body", SlotOf(k)>>] = log[k]
          /\ \A r \in Patient : mem[<<r, SlotOf(k)>>] = 1 <=> k <= Marked(r)
    /\ \A k \in Slot : k >= Len(log) => mem[<<"written", k>>] = 0

PatientInv ==
    \A r \in Patient :
        /\ taken[r] \in Seq(Msg) /\ Len(taken[r]) <= Sent
        /\ \A k \in 1 .. Len(taken[r]) : taken[r][k] = log[k]
        /\ Marked(r) <= Len(log)
        /\ Len(log) + (IF Filling THEN 1 ELSE 0) <= Marked(r) + MaxChunks
        /\ ridx[r] = Marked(r) % MaxChunks
        /\ rpc[r] = "body" => mem[<<"overflow", ridx[r]>>] = 0
        /\ rpc[r] = "markBig" => mem[<<"overflow", ridx[r]>>] = 1
        /\ rpc[r] = "mark" => mem[<<"overflow", ridx[r]>>] = 0 /\ loaded[r] = mem[<<"body", ridx[r]>>]

SocketInv ==
    \A r \in Patient :
        /\ socket[r] \in Seq(Msg) /\ Increasing(socket[r])
        /\ \A i \in 1 .. Len(socket[r]) :
              \E k \in Awaited(r) : k <= Sent /\ socket[r][i] = log[k]
        /\ \A k \in Awaited(r) :
              k <= Sent => \E i \in 1 .. Len(socket[r]) : socket[r][i] = log[k]

(* The types of what the readers have taken and of what is on its way. *)
HistoryInv == taken \in [Reader -> Seq(0 .. MaxMsgs)] /\ socket \in [Reader -> Seq(Msg)]

QueueInv == RingInv /\ LogInv /\ FillInv /\ SlotsInv /\ PatientInv /\ SocketInv
-----------------------------------------------------------------------------
(* SetToSeq lists exactly the elements of a finite set. *)
LEMMA SetToSeqProperties ==
    ASSUME NEW S, IsFiniteSet(S)
    PROVE  /\ SetToSeq(S) \in Seq(S)
           /\ \A e \in S : \E i \in 1 .. Len(SetToSeq(S)) : SetToSeq(S)[i] = e
<1> DEFINE n == Cardinality(S)
           q == SetToSeq(S)
<1>1. n \in Nat /\ ExistsBijection(1 .. n, S)
  BY FS_CardinalityType
<1>2. \E f \in [1 .. n -> S] : IsInjective(f)
  BY <1>1 DEF ExistsBijection, Bijection, Injection
<1>3. q \in [1 .. n -> S] /\ IsInjective(q)
  BY <1>2 DEF SetToSeq
<1> HIDE DEF q
<1>4. q \in Seq(S) /\ Len(q) = n
  BY <1>1, <1>3
<1>5. q \in Injection(1 .. n, S)
  BY <1>3 DEF Injection
<1>6. IsFiniteSet(1 .. n) /\ Cardinality(1 .. n) = n
  BY <1>1, FS_Interval
<1>7. q \in Surjection(1 .. n, S)
  BY <1>5, <1>6, FS_Injection
<1> QED BY <1>4, <1>7 DEF Surjection, q

(* Taking the first store out of the buffer leaves the others in order. *)
LEMMA RemoveFirstStore ==
    ASSUME NEW S, NEW s \in Seq(S), s # <<>>
    PROVE  /\ RemoveAt(s, 1) \in Seq(S)
           /\ Len(RemoveAt(s, 1)) = Len(s) - 1
           /\ \A i \in 1 .. Len(s) - 1 : RemoveAt(s, 1)[i] = s[i + 1]
<1> DEFINE t == SubSeq(s, 2, Len(s))
<1>1. SubSeq(s, 1, 0) = <<>>
  BY SubSeqEmpty
<1>2. /\ t \in Seq(S)
      /\ Len(t) = Len(s) - 1
      /\ \A i \in 1 .. Len(s) - 1 : t[i] = s[i + 1]
  BY SMTT(30)
<1>3. RemoveAt(s, 1) = SubSeq(s, 1, 0) \o t
  BY DEF RemoveAt
<1>4. RemoveAt(s, 1) = t
  BY <1>1, <1>2, <1>3, ConcatEmptySeq
<1> HIDE DEF t
<1> QED BY <1>2, <1>4

(* The stores of Fill: written := 0 comes first, the overflow byte and the
   body hold the message, and every read flag is cleared. *)
LEMMA FillStoresProperties ==
    ASSUME widx \in Slot, msg \in Msg, big \in BOOLEAN
    PROVE  /\ FillStores \in Seq(Store)
           /\ Len(FillStores) \in Nat \ {0}
           /\ FillStores[1] = WrittenStore(0)
           /\ \A i \in 1 .. Len(FillStores) : FillStores[i].at[2] = widx
           /\ \A i \in 2 .. Len(FillStores) : FillStores[i].at[1] # "written"
           /\ \A i \in 1 .. Len(FillStores) :
                 /\ FillStores[i].at[1] \in Reader => FillStores[i].val = 0
                 /\ FillStores[i].at[1] = "overflow" => FillStores[i].val = (IF big THEN 1 ELSE 0)
                 /\ FillStores[i].at[1] = "body" => ~big /\ FillStores[i].val = msg
           /\ \A r \in Reader : \E i \in 1 .. Len(FillStores) : FillStores[i].at = <<r, widx>>
           /\ \E i \in 1 .. Len(FillStores) : FillStores[i].at = <<"overflow", widx>>
           /\ big \/ \E i \in 1 .. Len(FillStores) : FillStores[i].at = <<"body", widx>>
<1> DEFINE O == [at |-> <<"overflow", widx>>, val |-> IF big THEN 1 ELSE 0]
           B == [at |-> <<"body", widx>>, val |-> msg]
           Clear(r) == [at |-> <<r, widx>>, val |-> 0]
           C == {[at |-> <<r, widx>>, val |-> 0] : r \in Reader}
           c == SetToSeq(C)
           f == [r \in Reader |-> Clear(r)]
           a == <<WrittenStore(0), O>>
           b == IF big THEN <<>> ELSE <<B>>
<1>1. IsFiniteSet(C)
  <2>1. f \in Surjection(Reader, C)
    BY DEF Surjection
  <2> QED BY <2>1, FS_Surjection, RingAssumption
<1>2. C \subseteq Store /\ O \in Store /\ B \in Store /\ WrittenStore(0) \in Store
  BY RingAssumption DEF Store, Field, Msg, WrittenStore
<1>3. c \in Seq(C) /\ \A e \in C : \E i \in 1 .. Len(c) : c[i] = e
  BY <1>1, SetToSeqProperties
<1>4. c \in Seq(Store)
  BY <1>2, <1>3, SeqMonotonic
<1>5. /\ Len(c) \in Nat
      /\ \A i \in 1 .. Len(c) : c[i] \in Store /\ c[i].at[2] = widx /\ c[i].at[1] \in Reader /\ c[i].val = 0
  <2> HIDE DEF c
  <2>1. ASSUME NEW e \in C
        PROVE  e \in Store /\ e.at[2] = widx /\ e.at[1] \in Reader /\ e.val = 0
    BY <1>2
  <2> HIDE DEF C
  <2> QED BY <1>3, <2>1
<1>6. \A r \in Reader : \E i \in 1 .. Len(c) : c[i].at = <<r, widx>>
  <2> TAKE r \in Reader
  <2>1. Clear(r) \in C
    OBVIOUS
  <2>2. PICK i \in 1 .. Len(c) : c[i] = Clear(r)
    BY <1>3, <2>1
  <2>3. Clear(r).at = <<r, widx>>
    OBVIOUS
  <2> HIDE DEF c, Clear
  <2> QED BY <2>2, <2>3
<1>7. FillStores = (a \o b) \o c
  BY DEF FillStores, WrittenStore
<1> HIDE DEF c, C
<1>8. CASE big
  <2>1. FillStores = a \o c
    BY <1>2, <1>7, <1>8
  <2> HIDE DEF O, B
  <2>2. a \in Seq(Store) /\ Len(a) = 2 /\ a[1] = WrittenStore(0) /\ a[2] = O
    BY <1>2
  <2>3. /\ FillStores \in Seq(Store)
        /\ Len(FillStores) = 2 + Len(c)
        /\ FillStores[1] = WrittenStore(0) /\ FillStores[2] = O
        /\ \A i \in 1 .. Len(c) : FillStores[i + 2] = c[i]
    BY <1>4, <2>1, <2>2, ConcatProperties
  <2>4. \A i \in 3 .. Len(FillStores) : FillStores[i] = c[i - 2] /\ i - 2 \in 1 .. Len(c)
    BY <1>5, <2>3
  <2>5. WrittenStore(0).at = <<"written", widx>> /\ O.at = <<"overflow", widx>> /\ O.val = 1
    BY <1>8 DEF WrittenStore, O
  <2>6. \A i \in 1 .. Len(FillStores) : i = 1 \/ i = 2 \/ i \in 3 .. Len(FillStores)
    BY <1>5, <2>3
  <2>7. \A i \in 1 .. Len(c) : i + 2 \in 1 .. Len(FillStores)
    BY <1>5, <2>3
  <2>8. \A i \in 3 .. Len(FillStores) : FillStores[i].at[2] = widx /\ FillStores[i].at[1] \in Reader /\ FillStores[i].val = 0
    BY <1>5, <2>4
  <2>9. \A r \in Reader : r # "written" /\ r # "overflow" /\ r # "body"
    BY RingAssumption
  <2>10. \A r \in Reader : \E i \in 1 .. Len(FillStores) : FillStores[i].at = <<r, widx>>
    BY <1>6, <2>3, <2>7
  <2> HIDE DEF a, b
  <2>11. \A i \in 1 .. Len(FillStores) : FillStores[i].at[2] = widx
    BY <2>3, <2>5, <2>6, <2>8
  <2>12. \A i \in 2 .. Len(FillStores) : FillStores[i].at[1] # "written"
    BY <1>5, <2>3, <2>5, <2>6, <2>8, <2>9
  <2>13. ASSUME NEW i \in 1 .. Len(FillStores)
         PROVE  /\ FillStores[i].at[1] \in Reader => FillStores[i].val = 0
                /\ FillStores[i].at[1] = "overflow" => FillStores[i].val = (IF big THEN 1 ELSE 0)
                /\ FillStores[i].at[1] = "body" => ~big /\ FillStores[i].val = msg
    BY <1>8, <2>3, <2>5, <2>6, <2>8, <2>9
  <2>14. 1 \in 1 .. Len(FillStores) /\ 2 \in 1 .. Len(FillStores)
         /\ 2 \in 1 .. Len(FillStores)
    BY <1>5, <2>3
  <2>15. \E i \in 1 .. Len(FillStores) : FillStores[i].at = <<"overflow", widx>>
    BY <2>3, <2>5, <2>14
  <2>16. big \/ \E i \in 1 .. Len(FillStores) : FillStores[i].at = <<"body", widx>>
    BY <1>8, <2>3, <2>5, <2>14
  <2>17. Len(FillStores) \in Nat \ {0}
    BY <1>5, <2>3
  <2> HIDE DEF Clear, f
  <2> QED BY <2>3, <2>10, <2>11, <2>12, <2>13, <2>15, <2>16, <2>17
<1>9. CASE ~big
  <2> DEFINE d == a \o <<B>>
  <2>1. FillStores = d \o c
    BY <1>7, <1>9
  <2> HIDE DEF O, B
  <2>2. d \in Seq(Store) /\ Len(d) = 3 /\ d[1] = WrittenStore(0) /\ d[2] = O /\ d[3] = B
    BY <1>2, ConcatProperties
  <2> HIDE DEF d
  <2>3. /\ FillStores \in Seq(Store)
        /\ Len(FillStores) = 3 + Len(c)
        /\ FillStores[1] = WrittenStore(0) /\ FillStores[2] = O /\ FillStores[3] = B
        /\ \A i \in 1 .. Len(c) : FillStores[i + 3] = c[i]
    <3>1. /\ FillStores \in Seq(Store)
          /\ Len(FillStores) = 3 + Len(c)
          /\ \A i \in 1 .. 3 + Len(c) : FillStores[i] = IF i <= 3 THEN d[i] ELSE c[i - 3]
      <4>1. d \in Seq(Store) /\ Len(d) = 3
        BY <2>2
      <4>2. /\ d \o c \in Seq(Store)
            /\ Len(d \o c) = Len(d) + Len(c)
            /\ \A i \in 1 .. Len(d) + Len(c) : (d \o c)[i] = IF i <= Len(d) THEN d[i] ELSE c[i - Len(d)]
        BY <1>4, <4>1, ConcatProperties, Zenon
      <4> QED BY <2>1, <4>1, <4>2
    <3>2. FillStores[1] = d[1] /\ FillStores[2] = d[2] /\ FillStores[3] = d[3]
      BY <1>5, <3>1
    <3>3. \A i \in 1 .. Len(c) : FillStores[i + 3] = c[i]
      BY <1>5, <3>1
    <3> QED BY <2>2, <3>1, <3>2, <3>3
  <2>4. \A i \in 4 .. Len(FillStores) : FillStores[i] = c[i - 3] /\ i - 3 \in 1 .. Len(c)
    BY <1>5, <2>3
  <2>5. /\ WrittenStore(0).at = <<"written", widx>> /\ O.at = <<"overflow", widx>> /\ O.val = 0
        /\ B.at = <<"body", widx>> /\ B.val = msg
    BY <1>9 DEF WrittenStore, O, B
  <2>6. \A i \in 1 .. Len(FillStores) : i = 1 \/ i = 2 \/ i = 3 \/ i \in 4 .. Len(FillStores)
    BY <1>5, <2>3
  <2>7. \A i \in 1 .. Len(c) : i + 3 \in 1 .. Len(FillStores)
    BY <1>5, <2>3
  <2>8. \A i \in 4 .. Len(FillStores) : FillStores[i].at[2] = widx /\ FillStores[i].at[1] \in Reader /\ FillStores[i].val = 0
    BY <1>5, <2>4
  <2>9. \A r \in Reader : r # "written" /\ r # "overflow" /\ r # "body"
    BY RingAssumption
  <2>10. \A r \in Reader : \E i \in 1 .. Len(FillStores) : FillStores[i].at = <<r, widx>>
    BY <1>6, <2>3, <2>7
  <2> HIDE DEF a, b, d
  <2>11. \A i \in 1 .. Len(FillStores) : FillStores[i].at[2] = widx
    BY <2>3, <2>5, <2>6, <2>8
  <2>12. \A i \in 2 .. Len(FillStores) : FillStores[i].at[1] # "written"
    BY <1>5, <2>3, <2>5, <2>6, <2>8, <2>9
  <2>13. ASSUME NEW i \in 1 .. Len(FillStores)
         PROVE  /\ FillStores[i].at[1] \in Reader => FillStores[i].val = 0
                /\ FillStores[i].at[1] = "overflow" => FillStores[i].val = (IF big THEN 1 ELSE 0)
                /\ FillStores[i].at[1] = "body" => ~big /\ FillStores[i].val = msg
    BY <1>9, <2>3, <2>5, <2>6, <2>8, <2>9
  <2>14. 1 \in 1 .. Len(FillStores) /\ 2 \in 1 .. Len(FillStores)
         /\ 3 \in 1 .. Len(FillStores)
    BY <1>5, <2>3
  <2>15. \E i \in 1 .. Len(FillStores) : FillStores[i].at = <<"overflow", widx>>
    BY <2>3, <2>5, <2>14
  <2>16. big \/ \E i \in 1 .. Len(FillStores) : FillStores[i].at = <<"body", widx>>
    BY <1>9, <2>3, <2>5, <2>14
  <2>17. Len(FillStores) \in Nat \ {0}
    BY <1>5, <2>3
  <2> HIDE DEF Clear, f
  <2> QED BY <2>3, <2>10, <2>11, <2>12, <2>13, <2>15, <2>16, <2>17
<1> QED BY <1>8, <1>9
-----------------------------------------------------------------------------
(* A reader is not the name of one of the other fields of a slot. *)
LEMMA ReaderNames ==
    \A r \in Reader : r \in Field /\ r # "written" /\ r # "overflow" /\ r # "body"
BY RingAssumption DEF Field

LEMMA RingInit == Init => RingInv
<1> SUFFICES ASSUME Init PROVE RingInv
  OBVIOUS
<1> USE RingAssumption DEF Init
<1>1. 0 \in Slot /\ 0 \in 0 .. MaxMsgs /\ "flag" \in ReaderLoc /\ "idle" \in WriterLoc
  BY DEF Slot, ReaderLoc, WriterLoc
<1>2. MemoryInv
  <2>1. stores \in Seq(Store) /\ Len(stores) = 0
    OBVIOUS
  <2> QED BY <1>1, <2>1 DEF MemoryInv
<1>3. LocalInv
  <2>1. rpc \in [Reader -> ReaderLoc] /\ ridx \in [Reader -> Slot] /\ loaded \in [Reader -> 0 .. MaxMsgs]
    BY <1>1
  <2>2. /\ notified \in [Reader -> BOOLEAN] /\ shut \in [Reader -> BOOLEAN]
        /\ cancel \in [Reader -> BOOLEAN] /\ big \in BOOLEAN
    OBVIOUS
  <2>3. wpc \in WriterLoc /\ widx \in Slot /\ msg \in 0 .. MaxMsgs /\ wpc = "idle"
    BY <1>1
  <2> QED BY <2>1, <2>2, <2>3 DEF LocalInv
<1>4. StoresInv /\ ReadersInv
  BY DEF StoresInv, ReadersInv, InSlot
<1> QED BY <1>2, <1>3, <1>4 DEF RingInv

(* The parts of a store. *)
LEMMA StoreParts ==
    \A s \in Store : /\ s.at[1] \in Field /\ s.at[2] \in Slot /\ s.val \in 0 .. MaxMsgs
                     /\ s.at = <<s.at[1], s.at[2]>> /\ s.at \in Field \X Slot
<1> SUFFICES ASSUME NEW s \in Store
             PROVE  /\ s.at[1] \in Field /\ s.at[2] \in Slot /\ s.val \in 0 .. MaxMsgs
                    /\ s.at = <<s.at[1], s.at[2]>> /\ s.at \in Field \X Slot
  OBVIOUS
<1>1. s.at \in Field \X Slot /\ s.val \in 0 .. MaxMsgs
  BY DEF Store
<1> QED BY <1>1

(* The steps of the writer but for the stores becoming visible. *)
LEMMA RingWriter ==
    ASSUME RingInv, Enqueue \/ Write \/ WriteTimeout
    PROVE  RingInv'
<1> USE RingAssumption DEF RingInv, writerVars, readerVars, shutVars
<1>1. CASE Enqueue
  <2>1. msg' \in 0 .. MaxMsgs /\ msg' \in Msg
    BY <1>1 DEF Enqueue, LocalInv, Msg
  <2>2. big' \in BOOLEAN
    BY <1>1, Zenon DEF Enqueue
  <2>a. MemoryInv' /\ LocalInv'
    BY <1>1, <2>1, <2>2 DEF Enqueue, MemoryInv, LocalInv, WriterLoc
  <2>3. StoresInv' /\ ReadersInv'
    BY <1>1 DEF Enqueue, StoresInv, ReadersInv
  <2> QED BY <2>a, <2>3
<1>2. CASE Fill
  <2>1. widx \in Slot /\ msg \in Msg /\ big \in BOOLEAN
    BY <1>2 DEF Fill, MemoryInv, LocalInv
  <2>2. /\ stores' \in Seq(Store) /\ Len(stores') \in Nat \ {0} /\ stores'[1] = WrittenStore(0)
        /\ \A i \in 1 .. Len(stores') : stores'[i].at[2] = widx
        /\ \A i \in 2 .. Len(stores') : stores'[i].at[1] # "written"
        /\ \A i \in 1 .. Len(stores') :
             /\ stores'[i].at[1] \in Reader => stores'[i].val = 0
             /\ stores'[i].at[1] = "overflow" => stores'[i].val = (IF big THEN 1 ELSE 0)
    BY <1>2, <2>1, FillStoresProperties DEF Fill
  <2>3. \A i \in 1 .. Len(stores') : stores'[i].at[1] # "body" => stores'[i].val \in {0, 1}
    <3> SUFFICES ASSUME NEW i \in 1 .. Len(stores'), stores'[i].at[1] # "body"
                 PROVE  stores'[i].val \in {0, 1}
      OBVIOUS
    <3>1. i = 1 \/ i \in 2 .. Len(stores')
      BY <2>2
    <3>2. CASE i = 1
      BY <2>2, <3>2 DEF WrittenStore
    <3>3. CASE i \in 2 .. Len(stores')
      <4>1. stores'[i].at[1] \in Field
        BY <2>2, StoreParts
      <4> QED BY <2>2, <3>3, <4>1 DEF Field
    <3> QED BY <3>1, <3>2, <3>3
  <2>4. MemoryInv' /\ LocalInv'
    BY <1>2, <2>1, <2>2, <2>3 DEF Fill, MemoryInv, LocalInv, WriterLoc
  <2>5. stores' # <<>> /\ Unmarking'
    BY <1>2, <2>2 DEF Unmarking, WrittenStore, Fill
  <2>6. mem[<<"written", widx>>] = 0 \/ \A r \in Reader : mem[<<r, widx>>] = 1
    BY <1>2 DEF Fill, Writable
  <2>7. StoresInv'
    BY <1>2, <2>2, <2>5, <2>6 DEF Fill, StoresInv
  <2>8. ReadersInv'
    BY <1>2 DEF Fill, ReadersInv
  <2> QED BY <2>4, <2>7, <2>8
<1>3. CASE Publish
  <2>1. WrittenStore(1) \in Store /\ widx \in Slot /\ msg \in Msg /\ stores' = <<WrittenStore(1)>>
    BY <1>3 DEF Publish, MemoryInv, LocalInv, Store, Field, Msg, WrittenStore
  <2>2. /\ stores' \in Seq(Store) /\ Len(stores') = 1 /\ stores'[1] = WrittenStore(1)
        /\ WrittenStore(1).at = <<"written", widx>> /\ WrittenStore(1).val = 1
    <3>1. WrittenStore(1).at = <<"written", widx>> /\ WrittenStore(1).val = 1
      BY DEF WrittenStore
    <3> QED BY <2>1, <3>1
  <2>3. MemoryInv' /\ LocalInv'
    BY <1>3, <2>1, <2>2 DEF Publish, MemoryInv, LocalInv, WriterLoc
  <2>4. StoresInv' /\ ReadersInv'
    BY <1>3, <2>1 DEF Publish, StoresInv, ReadersInv, WrittenStore
  <2> QED BY <2>3, <2>4
<1>4. CASE Advance
  <2>1. widx' \in Slot /\ stores = <<>>
    BY <1>4 DEF Advance, MemoryInv, LocalInv, Slot, MemoryFence
  <2>2. MemoryInv' /\ LocalInv'
    BY <1>4, <2>1 DEF Advance, MemoryInv, LocalInv, WriterLoc
  <2>3. StoresInv' /\ ReadersInv'
    BY <1>4, <2>1 DEF Advance, StoresInv, ReadersInv
  <2> QED BY <2>2, <2>3
<1>5. CASE SendPayload
  BY <1>5 DEF SendPayload, MemoryInv, LocalInv, StoresInv, ReadersInv, WriterLoc
<1>6. CASE Notify
  <2>1. notified' \in [Reader -> BOOLEAN]
    BY <1>6 DEF Notify, MemoryInv, LocalInv
  <2>2. MemoryInv' /\ LocalInv'
    BY <1>6, <2>1 DEF Notify, MemoryInv, LocalInv, WriterLoc
  <2>3. StoresInv' /\ ReadersInv'
    BY <1>6 DEF Notify, StoresInv, ReadersInv
  <2> QED BY <2>2, <2>3
<1>7. CASE WriteTimeout
  BY <1>7 DEF WriteTimeout, MemoryInv, LocalInv, StoresInv, ReadersInv, WriterLoc
<1> QED BY <1>1, <1>2, <1>3, <1>4, <1>5, <1>6, <1>7 DEF Write

(* What Commit does when the machine keeps the order of the stores. *)
LEMMA CommitFirst ==
    ASSUME RingInv, StoresInOrder, Commit
    PROVE  /\ stores # <<>> /\ Len(stores) \in Nat \ {0}
           /\ stores[1] \in Store /\ stores[1].at = <<stores[1].at[1], widx>>
           /\ stores[1].at[1] \in Field
           /\ mem' = [mem EXCEPT ![stores[1].at] = stores[1].val]
           /\ stores' \in Seq(Store) /\ Len(stores') = Len(stores) - 1
           /\ \A i \in 1 .. Len(stores) - 1 : stores'[i] = stores[i + 1]
           /\ log' = IF stores[1].at[1] = "written" /\ stores[1].val = 1
                     THEN Append(log, msg) ELSE log
           /\ UNCHANGED <<writerVars, socket, notified, readerVars, shutVars>>
<1>1. stores \in Seq(Store)
  BY DEF RingInv, MemoryInv
<1>2. /\ 1 \in 1 .. Len(stores) /\ stores' = RemoveAt(stores, 1)
      /\ mem' = [mem EXCEPT ![stores[1].at] = stores[1].val]
      /\ log' = IF stores[1].at[1] = "written" /\ stores[1].val = 1
                THEN Append(log, msg) ELSE log
      /\ UNCHANGED <<writerVars, socket, notified, readerVars, shutVars>>
  BY Zenon DEF Commit
<1>3. stores # <<>> /\ Len(stores) \in Nat \ {0} /\ stores[1] \in Store
  BY <1>1, <1>2
<1>4. stores[1].at[1] \in Field /\ stores[1].at = <<stores[1].at[1], widx>>
  <2>1. stores[1].at \in Field \X Slot /\ stores[1].at[2] = widx
    BY <1>2, <1>3, StoreParts DEF RingInv, MemoryInv
  <2> QED BY <2>1
<1>5. stores' \in Seq(Store) /\ Len(stores') = Len(stores) - 1
      /\ \A i \in 1 .. Len(stores) - 1 : stores'[i] = stores[i + 1]
  BY <1>1, <1>2, <1>3, RemoveFirstStore
<1> QED BY <1>2, <1>3, <1>4, <1>5

LEMMA RingCommit ==
    ASSUME RingInv, StoresInOrder, Commit
    PROVE  RingInv'
<1> USE RingAssumption
<1> DEFINE f == stores[1].at[1]
           v == stores[1].val
<1>1. /\ Len(stores) \in Nat \ {0} /\ stores # <<>>
      /\ f \in Field /\ v \in 0 .. MaxMsgs /\ stores[1].at = <<f, widx>>
      /\ stores[1] = [at |-> <<f, widx>>, val |-> v]
      /\ mem' = [mem EXCEPT ![<<f, widx>>] = v]
      /\ stores' \in Seq(Store) /\ Len(stores') = Len(stores) - 1
      /\ \A i \in 1 .. Len(stores) - 1 : stores'[i] = stores[i + 1]
      /\ UNCHANGED <<writerVars, socket, notified, readerVars, shutVars>>
  <2>1. stores[1] \in Store /\ stores[1].at = <<f, widx>>
    BY CommitFirst
  <2>2. stores[1] = [at |-> <<f, widx>>, val |-> v] /\ v \in 0 .. MaxMsgs
    BY <2>1, StoreParts DEF Store
  <2> QED BY <2>1, <2>2, CommitFirst
<1>2. widx \in Slot /\ mem \in [Field \X Slot -> 0 .. MaxMsgs] /\ (f # "body" => v \in {0, 1})
  BY <1>1 DEF RingInv, MemoryInv, LocalInv
<1> HIDE DEF f, v
<1>3. \A g \in Field, s \in Slot :
         mem'[<<g, s>>] = IF g = f /\ s = widx THEN v ELSE mem[<<g, s>>]
  BY <1>1, <1>2
<1>4. MemoryInv' /\ LocalInv'
  <2>1. mem' \in [Field \X Slot -> 0 .. MaxMsgs]
    BY <1>1, <1>2
  <2>2. \A g \in Field, s \in Slot : g # "body" => mem'[<<g, s>>] \in {0, 1}
    BY <1>2, <1>3 DEF RingInv, MemoryInv
  <2>3. \A i \in 1 .. Len(stores') :
           /\ stores'[i].at[2] = widx
           /\ stores'[i].at[1] # "body" => stores'[i].val \in {0, 1}
    <3> SUFFICES ASSUME NEW i \in 1 .. Len(stores')
                 PROVE  /\ stores'[i].at[2] = widx
                        /\ stores'[i].at[1] # "body" => stores'[i].val \in {0, 1}
      OBVIOUS
    <3>1. i + 1 \in 1 .. Len(stores) /\ stores'[i] = stores[i + 1]
      BY <1>1
    <3> QED BY <3>1 DEF RingInv, MemoryInv
  <2> QED BY <1>1, <2>1, <2>2, <2>3 DEF RingInv, MemoryInv, LocalInv, writerVars, readerVars, shutVars
<1>5. CASE wpc = "publish"
  <2>1. \A i \in 1 .. Len(stores') : stores'[i].at[1] # "written"
    BY <1>1, <1>5, SMTT(30) DEF RingInv, StoresInv
  <2>a. \A i \in 1 .. Len(stores') : stores'[i].at[1] \in Reader => stores'[i].val = 0
    BY <1>1, <1>5 DEF RingInv, StoresInv
  <2>2. ~Unmarking'
    <3> SUFFICES ASSUME stores' # <<>>, stores'[1] = WrittenStore(0)'
                 PROVE  FALSE
      BY DEF Unmarking
    <3>1. 1 \in 1 .. Len(stores')
      BY <1>1
    <3>2. stores'[1].at = <<"written", widx'>>
      BY DEF WrittenStore
    <3> QED BY <2>1, <3>1, <3>2
  <2>3. mem'[<<"written", widx>>] = 0
    <3>1. CASE Unmarking
      BY <1>1, <1>2, <1>3, <3>1 DEF Unmarking, WrittenStore, Field
    <3>2. CASE ~Unmarking
      <4>1. f # "written" /\ mem[<<"written", widx>>] = 0
        BY <1>1, <1>5, <3>2 DEF RingInv, StoresInv, f
      <4> QED BY <1>2, <1>3, <4>1 DEF Field
    <3> QED BY <3>1, <3>2
  <2>4. StoresInv'
    BY <1>1, <1>5, <2>1, <2>a, <2>2, <2>3 DEF StoresInv, writerVars
  <2>5. ReadersInv'
    <3> SUFFICES ASSUME NEW r \in Reader
                 PROVE  /\ rpc[r] = "written" /\ loaded[r] = 0 => mem'[<<r, ridx[r]>>] = 0
                        /\ rpc[r] \in InSlot => mem'[<<r, ridx[r]>>] = 0
                                               /\ mem'[<<"written", ridx[r]>>] = 1
      BY <1>1 DEF ReadersInv, readerVars
    <3>1. ridx[r] \in Slot /\ r \in Field /\ "written" \in Field
      BY DEF RingInv, MemoryInv, LocalInv, Field
    <3>2. /\ rpc[r] = "written" /\ loaded[r] = 0 => mem[<<r, ridx[r]>>] = 0
          /\ rpc[r] \in InSlot => mem[<<r, ridx[r]>>] = 0 /\ mem[<<"written", ridx[r]>>] = 1
      BY DEF RingInv, ReadersInv
    <3>3. CASE ridx[r] # widx
      BY <1>3, <3>1, <3>2, <3>3
    <3>4. CASE ridx[r] = widx
      <4>1. rpc[r] \in InSlot => FALSE
        BY <1>5, <3>2, <3>4 DEF RingInv, StoresInv
      <4>2. f = r => v = 0
        BY <1>1, <1>5 DEF RingInv, StoresInv, f, v
      <4> QED BY <1>3, <3>1, <3>2, <3>4, <4>1, <4>2
    <3> QED BY <3>3, <3>4
  <2> QED BY <1>4, <2>4, <2>5 DEF RingInv
<1>6. CASE wpc = "advance"
  <2>1. f = "written" /\ v = 1 /\ stores' = <<>>
    <3>1. stores = <<WrittenStore(1)>>
      BY <1>1, <1>6 DEF RingInv, StoresInv
    <3>2. stores[1] = WrittenStore(1) /\ Len(stores) = 1
      BY <3>1
    <3> QED BY <1>1, <3>2 DEF WrittenStore, f, v
  <2>2. StoresInv'
    BY <1>1, <1>6, <2>1 DEF StoresInv, writerVars
  <2>3. ReadersInv'
    BY <1>1, <1>2, <1>3, <2>1, ReaderNames DEF RingInv, ReadersInv, readerVars, MemoryInv, LocalInv, Field
  <2> QED BY <1>4, <2>2, <2>3 DEF RingInv
<1> QED BY <1>1, <1>5, <1>6 DEF RingInv, StoresInv

(* The steps of a reader. *)
LEMMA RingReader ==
    ASSUME RingInv, NEW r \in Reader,
           Reads(r) \/ WaitYields(r) \/ RecvTimeout(r) \/ SetShuttingDown(r) \/ Cancel(r)
    PROVE  RingInv'
<1> USE RingAssumption DEF RingInv, writerVars, readerVars, shutVars
<1>1. CASE CheckReadFlag(r)
  <2>1. mem[<<r, ridx[r]>>] \in 0 .. MaxMsgs
    BY ReaderNames DEF MemoryInv, LocalInv
  <2>2. MemoryInv' /\ LocalInv' /\ StoresInv'
    BY <1>1, <2>1 DEF CheckReadFlag, MemoryInv, LocalInv, StoresInv, Unmarking, WrittenStore, ReaderLoc
  <2>3. ReadersInv'
    BY <1>1 DEF CheckReadFlag, ReadersInv, InSlot, LocalInv
  <2> QED BY <2>2, <2>3
<1>2. CASE CheckWritten(r)
  <2>1. MemoryInv' /\ LocalInv' /\ StoresInv'
    BY <1>2 DEF CheckWritten, MemoryInv, LocalInv, StoresInv, Unmarking, WrittenStore, ReaderLoc, InSlot
  <2>2. ReadersInv'
    BY <1>2 DEF CheckWritten, ReadersInv, InSlot, LocalInv
  <2> QED BY <2>1, <2>2
<1>3. CASE Waits(r) \/ WaitYields(r)
  <2>1. Rechecks(r) /\ cancel' = cancel /\ (notified' = notified \/ notified' = [notified EXCEPT ![r] = FALSE])
    BY <1>3 DEF Waits, WaitYields, WaitNotified, WaitCancelled, WaitTimedOut
  <2>2. notified' \in [Reader -> BOOLEAN]
    BY <2>1 DEF LocalInv
  <2>3. MemoryInv' /\ LocalInv' /\ StoresInv'
    BY <2>1, <2>2 DEF Rechecks, MemoryInv, LocalInv, StoresInv, Unmarking, WrittenStore, ReaderLoc
  <2>4. ReadersInv'
    BY <2>1 DEF Rechecks, ReadersInv, InSlot, LocalInv
  <2> QED BY <2>3, <2>4
<1>4. CASE ReadOverflow(r)
  <2>1. MemoryInv' /\ LocalInv' /\ StoresInv'
    BY <1>4 DEF ReadOverflow, MemoryInv, LocalInv, StoresInv, Unmarking, WrittenStore, ReaderLoc, InSlot
  <2>2. ReadersInv'
    BY <1>4 DEF ReadOverflow, ReadersInv, InSlot, LocalInv
  <2> QED BY <2>1, <2>2
<1>5. CASE ReadBody(r)
  <2>1. mem[<<"body", ridx[r]>>] \in 0 .. MaxMsgs
    BY DEF MemoryInv, LocalInv, Field
  <2>2. MemoryInv' /\ LocalInv' /\ StoresInv'
    BY <1>5, <2>1 DEF ReadBody, MemoryInv, LocalInv, StoresInv, Unmarking, WrittenStore, ReaderLoc, InSlot
  <2>3. ReadersInv'
    BY <1>5 DEF ReadBody, ReadersInv, InSlot, LocalInv
  <2> QED BY <2>2, <2>3
<1>6. CASE MarkRead(r)
  <2>1. /\ mem' = [mem EXCEPT ![<<r, ridx[r]>>] = 1]
        /\ ridx' = [ridx EXCEPT ![r] = (ridx[r] + 1) % MaxChunks]
        /\ rpc' = [rpc EXCEPT ![r] = IF rpc[r] = "mark" THEN "flag" ELSE "recv"]
        /\ UNCHANGED <<stores, wpc, widx, msg, big, loaded, shut, cancel>>
        /\ rpc[r] \in InSlot
    BY <1>6 DEF MarkRead, InSlot
  <2>2. notified' \in [Reader -> BOOLEAN]
    <3>1. PICK p \in BOOLEAN : notified' = [notified EXCEPT ![r] = @ /\ ~p]
      BY <1>6 DEF MarkRead
    <3> QED BY <3>1, Zenon DEF LocalInv
  <2>3. r \in Field /\ ridx[r] \in Slot /\ (ridx[r] + 1) % MaxChunks \in Slot
    BY ReaderNames DEF LocalInv, Slot
  <2>4. \A g \in Field, s \in Slot :
           mem'[<<g, s>>] = IF g = r /\ s = ridx[r] THEN 1 ELSE mem[<<g, s>>]
    BY <2>1, <2>3 DEF MemoryInv
  <2>5. MemoryInv'
    <3>1. mem' \in [Field \X Slot -> 0 .. MaxMsgs]
      <4>1. 1 \in 0 .. MaxMsgs
        BY <2>1, <2>3 DEF MemoryInv, ReadersInv, Field
      <4> QED BY <2>1, <2>3, <4>1 DEF MemoryInv
    <3>2. \A g \in Field, s \in Slot : g # "body" => mem'[<<g, s>>] \in {0, 1}
      BY <2>4 DEF MemoryInv
    <3> QED BY <2>1, <3>1, <3>2 DEF MemoryInv
  <2>6. LocalInv'
    BY <2>1, <2>2, <2>3 DEF LocalInv, ReaderLoc
  <2>7. StoresInv'
    <3>1. \A g \in Field, s \in Slot : g \notin Reader => mem'[<<g, s>>] = mem[<<g, s>>]
      BY <2>4
    <3>2. "written" \in Field /\ "written" \notin Reader /\ widx \in Slot
      BY DEF Field, LocalInv
    <3>3. mem'[<<"written", widx>>] = mem[<<"written", widx>>]
      BY <3>1, <3>2
    <3>4. \A p \in Reader : mem[<<p, widx>>] = 1 => mem'[<<p, widx>>] = 1
      BY <2>4, <3>2, ReaderNames
    <3> QED BY <2>1, <3>3, <3>4 DEF StoresInv, Unmarking, WrittenStore
  <2>8. ReadersInv'
    <3> SUFFICES ASSUME NEW p \in Reader
                 PROVE  /\ rpc'[p] = "written" /\ loaded'[p] = 0 => mem'[<<p, ridx'[p]>>] = 0
                        /\ rpc'[p] \in InSlot => mem'[<<p, ridx'[p]>>] = 0
                                               /\ mem'[<<"written", ridx'[p]>>] = 1
      BY DEF ReadersInv
    <3>1. CASE p = r
      BY <2>1, <3>1 DEF LocalInv, InSlot
    <3>2. CASE p # r
      <4>1. ridx[p] \in Slot /\ ridx'[p] = ridx[p] /\ rpc'[p] = rpc[p] /\ loaded'[p] = loaded[p]
        BY <2>1, <3>2 DEF LocalInv
      <4>2. mem'[<<p, ridx[p]>>] = mem[<<p, ridx[p]>>] /\ mem'[<<"written", ridx[p]>>] = mem[<<"written", ridx[p]>>]
        BY <2>4, <3>2, <4>1, ReaderNames DEF Field
      <4> QED BY <4>1, <4>2 DEF ReadersInv
    <3> QED BY <3>1, <3>2
  <2> QED BY <2>5, <2>6, <2>7, <2>8
<1>7. CASE RecvPayload(r) \/ RecvTimeout(r)
  <2>1. rpc' = [rpc EXCEPT ![r] = "flag"] /\ UNCHANGED <<mem, stores, wpc, widx, msg, big, notified, ridx, loaded, shut, cancel>>
    BY <1>7 DEF RecvPayload, RecvTimeout
  <2>2. MemoryInv' /\ LocalInv' /\ StoresInv'
    BY <2>1 DEF MemoryInv, LocalInv, StoresInv, Unmarking, WrittenStore, ReaderLoc
  <2>3. ReadersInv'
    BY <2>1 DEF ReadersInv, InSlot, LocalInv
  <2> QED BY <2>2, <2>3
<1>8. CASE SetShuttingDown(r) \/ Cancel(r)
  <2>1. /\ shut' \in [Reader -> BOOLEAN] /\ cancel' \in [Reader -> BOOLEAN]
        /\ UNCHANGED <<mem, stores, wpc, widx, msg, big, notified, rpc, ridx, loaded>>
    BY <1>8 DEF SetShuttingDown, Cancel, LocalInv
  <2> QED BY <2>1 DEF MemoryInv, LocalInv, StoresInv, ReadersInv, Unmarking, WrittenStore
<1> QED BY <1>1, <1>2, <1>3, <1>4, <1>5, <1>6, <1>7, <1>8 DEF Reads

LEMMA RingStep ==
    ASSUME RingInv, StoresInOrder, [Next]_vars
    PROVE  RingInv'
<1>1. CASE Next
  BY <1>1, RingWriter, RingCommit, RingReader DEF Next
<1>2. CASE UNCHANGED vars
  BY <1>2 DEF vars, writerVars, readerVars, shutVars, RingInv, MemoryInv, LocalInv, StoresInv,
              ReadersInv, Unmarking, WrittenStore
<1> QED BY <1>1, <1>2

LEMMA RingInvariant == ASSUME StoresInOrder PROVE Spec => []RingInv
<1>1. Init => RingInv
  BY RingInit
<1>2. RingInv /\ [Next]_vars => RingInv'
  BY RingStep
<1> QED BY <1>1, <1>2, PTL DEF Spec

(* RingSafe holds with any number of readers, slots and messages: while a
   reader is between its check of the flags and its read flag, the only store
   to its slot that can be under way in acquire_write is the one that
   publishes it.  The proof needs the order of the stores: the slot is marked
   unwritten before its read flags are cleared. *)
THEOREM RingIsSafe == ASSUME StoresInOrder PROVE Spec => []RingSafe
<1>1. ASSUME RingInv PROVE RingSafe
  <2> USE <1>1 DEF RingInv
  <2>1. TypeOK
    <3>1. \A l \in DOMAIN mem : mem[l] \in (IF l[1] = "body" THEN 0 .. MaxMsgs ELSE {0, 1})
      <4> SUFFICES ASSUME NEW l \in Field \X Slot
                   PROVE  mem[l] \in (IF l[1] = "body" THEN 0 .. MaxMsgs ELSE {0, 1})
        BY DEF MemoryInv
      <4>1. l = <<l[1], l[2]>> /\ l[1] \in Field /\ l[2] \in Slot
        OBVIOUS
      <4> QED BY <4>1 DEF MemoryInv
    <3>2. \A i \in DOMAIN stores : stores[i].at \in Field \X Slot
      BY StoreParts DEF MemoryInv
    <3>3. Readers({"flag", "written", "wait", "overflow", "body", "mark", "markBig",
                   "recv", "cancelled"}) = Reader
      BY DEF LocalInv, Readers, ReaderLoc, InSlot
    <3> QED BY <3>1, <3>2, <3>3 DEF TypeOK, LocalInv, WriterLoc
  <2>2. SlotNotOverwritten
    <3> SUFFICES ASSUME NEW r \in Reader, rpc[r] \in InSlot,
                        NEW i \in 1 .. Len(stores), stores[i].at[2] = ridx[r]
                 PROVE  stores[i].at[1] = "written" /\ stores[i].val = 1
      BY SMTT(30) DEF SlotNotOverwritten, Readers, InSlot, MemoryInv
    <3>1. ridx[r] = widx /\ mem[<<r, widx>>] = 0 /\ mem[<<"written", widx>>] = 1
      BY DEF MemoryInv, ReadersInv
    <3>2. wpc = "advance" /\ stores = <<WrittenStore(1)>>
      BY <3>1 DEF StoresInv
    <3>3. i = 1 /\ stores[i] = WrittenStore(1)
      BY <3>2
    <3> QED BY <3>3 DEF WrittenStore
  <2> QED BY <2>1, <2>2 DEF RingSafe
<1>2. RingInv => RingSafe
  BY <1>1
<1> QED BY <1>2, RingInvariant, PTL
-----------------------------------------------------------------------------
(* Arithmetic modulo the number of slots. *)
LEMMA MulBound ==
    ASSUME NEW M \in Nat \ {0}, NEW d \in Int, d >= 1
    PROVE  d * M >= M
<1>1. (d - 1) \in Nat /\ M \in Nat
  OBVIOUS
<1>2. (d - 1) * M >= 0
  BY <1>1
<1>3. d * M = (d - 1) * M + M
  OBVIOUS
<1>q. QED BY <1>2, <1>3

LEMMA ModUnique ==
    ASSUME NEW M \in Nat \ {0}, NEW q \in Int, NEW p \in Int, NEW r \in 0 .. M - 1, NEW s \in 0 .. M - 1,
           q * M + r = p * M + s
    PROVE  q = p /\ r = s
<1>1. ~(q - p >= 1)
  <2> SUFFICES ASSUME q - p >= 1 PROVE FALSE
    OBVIOUS
  <2>1. (q - p) * M >= M
    BY MulBound
  <2>2. (q - p) * M = q * M - p * M
    OBVIOUS
  <2> QED BY <2>1, <2>2
<1>2. ~(p - q >= 1)
  <2> SUFFICES ASSUME p - q >= 1 PROVE FALSE
    OBVIOUS
  <2>1. (p - q) * M >= M
    BY MulBound
  <2>2. (p - q) * M = p * M - q * M
    OBVIOUS
  <2> QED BY <2>1, <2>2
<1>3. q = p
  BY <1>1, <1>2
<1> QED BY <1>3

LEMMA ModRange == ASSUME NEW M \in Nat \ {0}, NEW x \in Int
   PROVE x % M \in 0 .. M - 1 /\ x \div M \in Int /\ x = (x \div M) * M + (x % M)
OBVIOUS

LEMMA ModIs ==
    ASSUME NEW M \in Nat \ {0}, NEW x \in Int, NEW q \in Int, NEW r \in 0 .. M - 1, x = q * M + r
    PROVE  x % M = r
<1>1. x % M \in 0 .. M - 1 /\ x \div M \in Int /\ x = (x \div M) * M + (x % M)
  BY ModRange
<1> DEFINE a == x % M
           b == x \div M
<1>2. a \in 0 .. M - 1 /\ b \in Int /\ b * M + a = q * M + r
  BY <1>1
<1> HIDE DEF a, b
<1>3. a = r
  BY <1>2, ModUnique
<1> QED BY <1>3 DEF a

LEMMA ModStep ==
    ASSUME NEW M \in Nat \ {0}, NEW x \in Nat
    PROVE  ((x % M) + 1) % M = (x + 1) % M
<1> DEFINE a == x % M
           b == x \div M
<1>1. a \in 0 .. M - 1 /\ b \in Int /\ x = b * M + a
  BY ModRange
<1> HIDE DEF a, b
<1>2. CASE a + 1 < M
  <2>1. (a + 1) % M = a + 1
    BY <1>1, <1>2
  <2>2. a + 1 \in 0 .. M - 1 /\ x + 1 = b * M + (a + 1)
    BY <1>1, <1>2
  <2>3. (x + 1) % M = a + 1
    BY <1>1, <2>2, ModIs
  <2> QED BY <2>1, <2>3 DEF a
<1>3. CASE a + 1 = M
  <2>1. M % M = 0
    BY 1 * M + 0 = M, ModIs
  <2>2. x + 1 = (b + 1) * M + 0
    <3>1. (b + 1) * M = b * M + M
      BY <1>1
    <3> QED BY <1>1, <1>3, <3>1
  <2>3. (x + 1) % M = 0
    BY <1>1, <2>2, ModIs
  <2> QED BY <1>3, <2>1, <2>3 DEF a
<1> QED BY <1>1, <1>2, <1>3

LEMMA ModDistinct ==
    ASSUME NEW M \in Nat \ {0}, NEW x \in Nat, NEW y \in Nat, x < y, y < x + M
    PROVE  x % M # y % M
<1> DEFINE a == x % M
           b == x \div M
           c == y % M
           d == y \div M
<1>1. /\ a \in 0 .. M - 1 /\ b \in Int /\ x = b * M + a
      /\ c \in 0 .. M - 1 /\ d \in Int /\ y = d * M + c
  BY ModRange
<1> HIDE DEF a, b, c, d
<1>2. SUFFICES ASSUME a = c PROVE FALSE
  BY DEF a, c
<1>3. CASE d - b >= 1
  <2>1. (d - b) * M >= M
    BY <1>1, <1>3, MulBound
  <2>2. (d - b) * M = d * M - b * M
    BY <1>1
  <2> QED BY <1>1, <1>2, <2>1, <2>2
<1>4. CASE b - d >= 1
  <2>1. (b - d) * M >= M
    BY <1>1, <1>4, MulBound
  <2>2. (b - d) * M = b * M - d * M
    BY <1>1
  <2> QED BY <1>1, <1>2, <2>1, <2>2
<1>5. CASE b = d
  BY <1>1, <1>2, <1>5
<1> QED BY <1>1, <1>3, <1>4, <1>5

LEMMA ModWrap ==
    ASSUME NEW M \in Nat \ {0}, NEW x \in Nat
    PROVE  (x + M) % M = x % M
<1> DEFINE a == x % M
           b == x \div M
<1>1. a \in 0 .. M - 1 /\ b \in Int /\ x = b * M + a
  BY ModRange
<1> HIDE DEF a, b
<1>2. x + M = (b + 1) * M + a
  <2>1. (b + 1) * M = b * M + M
    BY <1>1
  <2> QED BY <1>1, <2>1
<1>3. (x + M) % M = a
  BY <1>1, <1>2, ModIs
<1> QED BY <1>3 DEF a

LEMMA ModSmall ==
    ASSUME NEW M \in Nat \ {0}, NEW x \in Nat, x < M
    PROVE  x % M = x
OBVIOUS

LEMMA SlotOfProperties ==
    /\ \A k \in Nat \ {0} : SlotOf(k) \in Slot
    /\ \A k, l \in Nat \ {0} : k < l /\ l < k + MaxChunks => SlotOf(k) # SlotOf(l)
    /\ \A k \in Nat : SlotOf(k + 1) = k % MaxChunks /\ k % MaxChunks \in Slot
    /\ \A k \in Nat : k >= MaxChunks => SlotOf(k - MaxChunks + 1) = k % MaxChunks
    /\ \A k \in Nat : k < MaxChunks => k % MaxChunks = k /\ k \in Slot
<1> USE RingAssumption
<1>1. \A k \in Nat \ {0} : SlotOf(k) \in Slot
  <2> TAKE k \in Nat \ {0}
  <2>1. k - 1 \in Int /\ (k - 1) % MaxChunks \in 0 .. MaxChunks - 1
    BY ModRange
  <2> QED BY <2>1 DEF SlotOf, Slot
<1>2. ASSUME NEW k \in Nat \ {0}, NEW l \in Nat \ {0}, k < l, l < k + MaxChunks
      PROVE  SlotOf(k) # SlotOf(l)
  <2>1. k - 1 \in Nat /\ l - 1 \in Nat /\ k - 1 < l - 1 /\ l - 1 < (k - 1) + MaxChunks
    BY <1>2
  <2>2. (k - 1) % MaxChunks # (l - 1) % MaxChunks
    BY <2>1, ModDistinct
  <2> QED BY <2>2 DEF SlotOf
<1>3. ASSUME NEW k \in Nat
      PROVE  SlotOf(k + 1) = k % MaxChunks /\ k % MaxChunks \in Slot
  <2>1. (k + 1) - 1 = k
    OBVIOUS
  <2>2. k % MaxChunks \in 0 .. MaxChunks - 1
    BY ModRange
  <2> QED BY <2>1, <2>2 DEF SlotOf, Slot
<1>4. ASSUME NEW k \in Nat, k >= MaxChunks
      PROVE  SlotOf(k - MaxChunks + 1) = k % MaxChunks
  <2> DEFINE j == k - MaxChunks
  <2>1. j \in Nat /\ j + MaxChunks = k
    BY <1>4
  <2> HIDE DEF j
  <2>2. (j + MaxChunks) % MaxChunks = j % MaxChunks
    BY <2>1, ModWrap
  <2>3. SlotOf(j + 1) = j % MaxChunks
    BY <1>3, <2>1
  <2> QED BY <2>1, <2>2, <2>3 DEF j
<1>5. ASSUME NEW k \in Nat, k < MaxChunks
      PROVE  k % MaxChunks = k /\ k \in Slot
  BY <1>5, ModSmall DEF Slot
<1> QED BY <1>1, <1>2, <1>3, <1>4, <1>5

(* The quantities of the invariant are numbers. *)
LEMMA QueueTypes ==
    ASSUME QueueInv
    PROVE  /\ Len(log) \in Nat /\ MaxChunks \in Nat \ {0}
           /\ Sent \in Int
           /\ \A r \in Patient : r \in Reader /\ Len(taken[r]) \in Nat /\ Marked(r) \in Nat
           /\ \A r \in Patient : rpc[r] # "recv" => Marked(r) = Len(taken[r])
           /\ \A r \in Patient : rpc[r] = "recv" => Marked(r) = Len(taken[r]) + 1
           /\ ~Committed => widx = Len(log) % MaxChunks
           /\ ~(Filling /\ Committed)
<1>1. Len(log) \in Nat /\ MaxChunks \in Nat \ {0}
  BY RingAssumption DEF QueueInv, LogInv
<1>2. \A r \in Patient : r \in Reader /\ Len(taken[r]) \in Nat
  BY DEF QueueInv, PatientInv, Patient
<1>3. \A r \in Patient : rpc[r] # "recv" => Marked(r) = Len(taken[r])
  BY <1>2 DEF Marked
<1>4. \A r \in Patient : rpc[r] = "recv" => Marked(r) = Len(taken[r]) + 1
  BY <1>2 DEF Marked
<1>5. ~Committed => widx = Len(log) % MaxChunks
  BY <1>1 DEF QueueInv, LogInv
<1>6. ~(Filling /\ Committed)
  BY DEF Filling, Committed
<1> QED BY <1>1, <1>2, <1>3, <1>4, <1>5, <1>6 DEF Sent

(* What the slot of a live message holds. *)
LEMMA LiveFacts ==
    ASSUME QueueInv
    PROVE  /\ \A k \in Live :
                 /\ k \in 1 .. Len(log) /\ k + MaxChunks > Len(log) + (IF Filling THEN 1 ELSE 0)
                 /\ SlotOf(k) \in Slot
                 /\ mem[<<"written", SlotOf(k)>>] = 1
                 /\ mem[<<"overflow", SlotOf(k)>>] = 0 => mem[<<"body", SlotOf(k)>>] = log[k]
           /\ \A k \in Live, r \in Patient : mem[<<r, SlotOf(k)>>] = 1 <=> k <= Marked(r)
           /\ \A k \in Slot : k >= Len(log) => mem[<<"written", k>>] = 0
<1>1. \A k \in Live : k \in 1 .. Len(log) /\ k + MaxChunks > Len(log) + (IF Filling THEN 1 ELSE 0)
  BY DEF Live
<1>2. \A k \in Live : SlotOf(k) \in Slot
  BY <1>1, QueueTypes, SlotOfProperties
<1> QED BY <1>1, <1>2 DEF QueueInv, SlotsInv

(* A reader inside a slot is not in the one being filled, and for a reader
   without deadline it is the slot of the next message of the log. *)
LEMMA InSlotFacts ==
    ASSUME QueueInv, NEW r \in Reader, rpc[r] \in InSlot
    PROVE  /\ Filling => ridx[r] # widx
           /\ r \in Patient => /\ Marked(r) = Len(taken[r]) /\ Marked(r) < Len(log)
                               /\ Marked(r) + 1 \in Live
                               /\ ridx[r] = SlotOf(Marked(r) + 1)
<1>1. mem[<<r, ridx[r]>>] = 0 /\ mem[<<"written", ridx[r]>>] = 1
  BY DEF QueueInv, RingInv, ReadersInv
<1>2. Filling => ridx[r] # widx
  BY <1>1 DEF QueueInv, RingInv, StoresInv, FillInv, Filling
<1>3. ASSUME r \in Patient
      PROVE  /\ Marked(r) = Len(taken[r]) /\ Marked(r) < Len(log)
             /\ Marked(r) + 1 \in Live
             /\ ridx[r] = SlotOf(Marked(r) + 1)
  <2> DEFINE N == Len(log)
             k == N - MaxChunks + 1
  <2>1. N \in Nat /\ MaxChunks \in Nat \ {0} /\ Marked(r) \in Nat /\ Marked(r) = Len(taken[r])
    BY <1>3, QueueTypes DEF InSlot
  <2>2. /\ Marked(r) <= N /\ N + (IF Filling THEN 1 ELSE 0) <= Marked(r) + MaxChunks
        /\ ridx[r] = Marked(r) % MaxChunks
    BY <1>3 DEF QueueInv, PatientInv
  <2>3. Marked(r) # N
    <3> SUFFICES ASSUME Marked(r) = N PROVE FALSE
      OBVIOUS
    <3>1. CASE N < MaxChunks
      <4>1. N % MaxChunks = N /\ N \in Slot
        BY <2>1, <3>1, SlotOfProperties
      <4>2. mem[<<"written", N>>] = 0
        BY <2>1, <4>1, LiveFacts
      <4> QED BY <1>1, <2>2, <4>1, <4>2
    <3>2. CASE N >= MaxChunks /\ ~Filling
      <4>1. k \in 1 .. N /\ k + MaxChunks > N
        BY <2>1, <3>2
      <4>2. k \in Live
        BY <3>2, <4>1 DEF Live
      <4>3. SlotOf(k) = ridx[r]
        BY <2>1, <2>2, <3>2, SlotOfProperties
      <4>4. k <= Marked(r)
        BY <4>1
      <4>5. mem[<<r, SlotOf(k)>>] = 1
        <5> HIDE DEF k
        <5> QED BY <1>3, <4>2, <4>4, LiveFacts
      <4> QED BY <1>1, <4>3, <4>5
    <3>3. CASE Filling
      BY <1>2, <2>2, <3>3, QueueTypes
    <3> QED BY <2>1, <3>1, <3>2, <3>3
  <2>4. Marked(r) + 1 \in 1 .. N /\ Marked(r) + 1 + MaxChunks > N + (IF Filling THEN 1 ELSE 0)
    BY <2>1, <2>2, <2>3
  <2>5. ridx[r] = SlotOf(Marked(r) + 1)
    BY <2>1, <2>2, SlotOfProperties
  <2>6. Marked(r) + 1 \in Live
    BY <2>4 DEF Live
  <2>7. Marked(r) < Len(log)
    BY <2>1, <2>2, <2>3
  <2> QED BY <2>1, <2>5, <2>6, <2>7
<1> QED BY <1>2, <1>3

(* The slot being filled holds no live message. *)
LEMMA LiveNotFilling ==
    ASSUME QueueInv, Filling, NEW k \in Live
    PROVE  SlotOf(k) # widx /\ SlotOf(k) \in Slot
<1>1. Len(log) \in Nat /\ MaxChunks \in Nat \ {0} /\ widx = Len(log) % MaxChunks
  BY QueueTypes
<1>2. k \in 1 .. Len(log) /\ k + MaxChunks > Len(log) + 1
  BY DEF Live
<1>3. widx = SlotOf(Len(log) + 1)
  BY <1>1, SlotOfProperties
<1>4. k \in Nat \ {0} /\ Len(log) + 1 \in Nat \ {0} /\ k < Len(log) + 1 /\ Len(log) + 1 < k + MaxChunks
  BY <1>1, <1>2
<1> QED BY <1>3, <1>4, SlotOfProperties

(* Messages that a reader has not marked as read are live. *)
LEMMA UnreadIsLive ==
    ASSUME QueueInv, NEW r \in Patient, NEW k \in 1 .. Len(log), k > Marked(r)
    PROVE  k \in Live
<1>1. Len(log) \in Nat /\ MaxChunks \in Nat \ {0} /\ Marked(r) \in Nat
  BY QueueTypes
<1>2. Len(log) + (IF Filling THEN 1 ELSE 0) <= Marked(r) + MaxChunks
  BY DEF QueueInv, PatientInv
<1> QED BY <1>1, <1>2 DEF Live

LEMMA QueueInit == Init => QueueInv
<1> SUFFICES ASSUME Init PROVE QueueInv
  OBVIOUS
<1>1. RingInv
  BY RingInit
<1>2. /\ log = <<>> /\ Len(log) = 0 /\ stores = <<>> /\ wpc = "idle" /\ widx = 0 /\ msg = 0
      /\ ~Committed /\ ~Filling /\ ~Unsent
      /\ mem = [l \in Field \X Slot |-> 0]
  BY DEF Init, Committed, Filling, Unsent
<1>3. \A r \in Reader : taken[r] = <<>> /\ socket[r] = <<>> /\ rpc[r] = "flag" /\ ridx[r] = 0
  BY DEF Init
<1>4. 0 % MaxChunks = 0
  BY SlotOfProperties, RingAssumption
<1>5. LogInv
  BY <1>2, <1>4 DEF LogInv, Increasing
<1>6. FillInv
  BY <1>2 DEF FillInv
<1>7. SlotsInv
  <2>1. Live = {}
    BY <1>2 DEF Live
  <2>2. \A k \in Slot : mem[<<"written", k>>] = 0
    BY <1>2 DEF Field
  <2> QED BY <2>1, <2>2 DEF SlotsInv
<1>8. ASSUME NEW r \in Patient
      PROVE  /\ Marked(r) = 0 /\ Awaited(r) = {} /\ Len(taken[r]) = 0 /\ taken[r] \in Seq(Msg)
             /\ Len(socket[r]) = 0 /\ socket[r] \in Seq(Msg)
             /\ ridx[r] = 0 /\ rpc[r] = "flag"
  <2>1. r \in Reader
    BY DEF Patient
  <2>2. Len(taken[r]) = 0 /\ taken[r] \in Seq(Msg) /\ Len(socket[r]) = 0 /\ socket[r] \in Seq(Msg)
    BY <1>3, <2>1, EmptySeq
  <2>3. Marked(r) = 0
    BY <1>3, <2>1, <2>2 DEF Marked
  <2>4. Awaited(r) = {}
    BY <1>2 DEF Awaited
  <2> QED BY <1>3, <2>1, <2>2, <2>3, <2>4
<1>9. PatientInv
  <2>1. Sent = 0
    BY <1>2 DEF Sent
  <2> QED BY <1>2, <1>4, <1>8, <2>1, RingAssumption DEF PatientInv
<1>10. SocketInv
  BY <1>8 DEF SocketInv, Increasing
<1> QED BY <1>1, <1>5, <1>6, <1>7, <1>9, <1>10 DEF QueueInv

(* A step of the writer that leaves the slots, the log and the sockets alone,
   and neither starts nor ends the filling of a slot. *)
LEMMA WriterFrame ==
    ASSUME QueueInv, UNCHANGED <<mem, log, socket, readerVars>>,
           Filling' <=> Filling, Unsent' <=> Unsent
    PROVE  SlotsInv' /\ PatientInv' /\ SocketInv'
<1> USE DEF readerVars
<1>1. Sent' = Sent /\ Live' = Live
  BY DEF Sent, Live
<1>2. \A r \in Patient : Marked(r)' = Marked(r) /\ Awaited(r)' = Awaited(r)
  BY DEF Marked, Awaited
<1>3. SlotsInv'
  BY <1>1, <1>2 DEF QueueInv, SlotsInv
<1>4. PatientInv'
  BY <1>1, <1>2 DEF QueueInv, PatientInv
<1>5. SocketInv'
  BY <1>1, <1>2 DEF QueueInv, SocketInv
<1> QED BY <1>3, <1>4, <1>5

LEMMA QueueEnqueue ==
    ASSUME QueueInv, Enqueue PROVE QueueInv'
<1> USE DEF writerVars, readerVars, shutVars
<1>1. RingInv'
  BY RingWriter DEF QueueInv
<1>2. /\ ~Committed /\ ~Filling /\ ~Unsent /\ ~Committed' /\ ~Filling' /\ ~Unsent'
      /\ wpc = "idle" /\ wpc' = "check" /\ msg' = msg + 1 /\ UNCHANGED <<mem, stores, log, widx, socket, readerVars>>
  BY DEF Enqueue, Committed, Filling, Unsent
<1>3. LogInv'
  <2>1. \A k \in 1 .. Len(log) : log[k] <= msg' /\ log[k] < msg'
    <3>1. msg \in Int
      BY DEF QueueInv, RingInv, LocalInv
    <3>2. log \in Seq(Msg) /\ \A k \in 1 .. Len(log) : log[k] <= msg
      BY DEF QueueInv, LogInv
    <3>3. \A k \in 1 .. Len(log) : log[k] \in Int
      BY <3>2, RingAssumption DEF Msg
    <3> QED BY <1>2, <3>1, <3>2, <3>3
  <2> QED BY <1>2, <2>1 DEF QueueInv, LogInv
<1>4. FillInv'
  BY <1>2 DEF FillInv
<1>5. SlotsInv' /\ PatientInv' /\ SocketInv'
  BY <1>2, WriterFrame
<1> QED BY <1>1, <1>3, <1>4, <1>5 DEF QueueInv

LEMMA QueueQuiet ==
    ASSUME QueueInv, WriteTimeout \/ Notify PROVE QueueInv'
<1> USE DEF writerVars, readerVars, shutVars
<1>1. RingInv'
  BY RingWriter DEF QueueInv, Write
<1>2. /\ ~Committed /\ ~Filling /\ ~Unsent /\ ~Committed' /\ ~Filling' /\ ~Unsent'
      /\ wpc' = "idle" /\ UNCHANGED <<mem, stores, log, widx, msg, big, socket, readerVars>>
  BY DEF WriteTimeout, Notify, Committed, Filling, Unsent
<1>3. LogInv'
  BY <1>2 DEF QueueInv, LogInv
<1>4. FillInv'
  BY <1>2 DEF FillInv
<1>5. SlotsInv' /\ PatientInv' /\ SocketInv'
  BY <1>2, WriterFrame
<1> QED BY <1>1, <1>3, <1>4, <1>5 DEF QueueInv

LEMMA QueuePublish ==
    ASSUME QueueInv, Publish PROVE QueueInv'
<1> USE DEF writerVars, readerVars, shutVars
<1>1. RingInv'
  BY RingWriter DEF QueueInv, Write
<1>2. /\ wpc = "publish" /\ stores = <<>> /\ Len(stores) = 0
      /\ wpc' = "advance" /\ stores' = <<WrittenStore(1)>>
      /\ UNCHANGED <<mem, log, widx, msg, big, socket, readerVars>>
  BY DEF Publish, MemoryFence, WrittenStore
<1>3. stores' # <<>>
  BY <1>2
<1>4. ~Committed /\ Filling /\ ~Unsent /\ ~Committed' /\ Filling' /\ ~Unsent'
  BY <1>2, <1>3 DEF Committed, Filling, Unsent
<1>5. LogInv'
  BY <1>2, <1>4 DEF QueueInv, LogInv
<1>6. FillInv'
  <2>1. mem[<<"written", widx>>] = 0
    BY <1>2 DEF QueueInv, RingInv, StoresInv, Unmarking
  <2> QED BY <1>2, <1>4, <2>1 DEF QueueInv, FillInv
<1>7. SlotsInv' /\ PatientInv' /\ SocketInv'
  BY <1>2, <1>4, WriterFrame
<1> QED BY <1>1, <1>5, <1>6, <1>7 DEF QueueInv

LEMMA QueueAdvance ==
    ASSUME QueueInv, Advance PROVE QueueInv'
<1> USE DEF writerVars, readerVars, shutVars
<1>1. RingInv'
  BY RingWriter DEF QueueInv, Write
<1>2. /\ wpc = "advance" /\ stores = <<>> /\ stores' = <<>>
      /\ widx' = (widx + 1) % MaxChunks
      /\ wpc' = (IF big THEN "send" ELSE "notify")
      /\ UNCHANGED <<mem, log, msg, big, socket, readerVars>>
  BY DEF Advance, MemoryFence
<1>3. Committed /\ ~Filling /\ ~Committed' /\ ~Filling' /\ (Unsent' <=> Unsent)
  BY <1>2 DEF Committed, Filling, Unsent
<1>4. LogInv'
  <2>1. Len(log) \in Nat /\ Len(log) > 0 /\ widx = (Len(log) - 1) % MaxChunks
    BY <1>3, QueueTypes DEF QueueInv, LogInv
  <2>2. Len(log) - 1 \in Nat /\ (Len(log) - 1) + 1 = Len(log)
    BY <2>1
  <2>3. widx' = Len(log) % MaxChunks
    BY <1>2, <2>1, <2>2, ModStep, RingAssumption
  <2> QED BY <1>2, <1>3, <2>3 DEF QueueInv, LogInv
<1>5. FillInv'
  BY <1>2, <1>3 DEF QueueInv, FillInv
<1>6. SlotsInv' /\ PatientInv' /\ SocketInv'
  BY <1>2, <1>3, WriterFrame
<1> QED BY <1>1, <1>4, <1>5, <1>6 DEF QueueInv

LEMMA QueueFill ==
    ASSUME QueueInv, Fill PROVE QueueInv'
<1> USE DEF writerVars, readerVars, shutVars
<1>1. RingInv'
  BY RingWriter DEF QueueInv, Write
<1>2. /\ wpc = "check" /\ wpc' = "publish" /\ stores = <<>> /\ stores' = FillStores
      /\ UNCHANGED <<mem, log, widx, msg, big, socket, readerVars>>
  BY DEF Fill, MemoryFence
<1>3. ~Committed /\ ~Filling /\ ~Unsent /\ ~Committed' /\ Filling' /\ ~Unsent'
  BY <1>2 DEF Committed, Filling, Unsent
<1>4. LogInv'
  BY <1>2, <1>3 DEF QueueInv, LogInv
<1>5. FillInv'
  <2>1. widx \in Slot /\ msg \in Msg /\ big \in BOOLEAN
    BY <1>2 DEF QueueInv, RingInv, LocalInv
  <2> QED BY <1>2, <1>3, <2>1, FillStoresProperties DEF FillInv
<1>6. Sent' = Sent /\ Live' \subseteq Live
  BY <1>2, <1>3, QueueTypes DEF Sent, Live
<1>7. \A r \in Patient : Marked(r)' = Marked(r) /\ Awaited(r)' = Awaited(r)
  BY <1>2 DEF Marked, Awaited
<1>8. SlotsInv'
  BY <1>2, <1>6, <1>7 DEF QueueInv, SlotsInv
<1>9. \A r \in Patient : Len(log) + 1 <= Marked(r) + MaxChunks
  <2> TAKE r \in Patient
  <2> DEFINE N == Len(log)
             k == N - MaxChunks + 1
  <2>1. N \in Nat /\ MaxChunks \in Nat \ {0} /\ Marked(r) \in Nat /\ r \in Reader /\ widx = N % MaxChunks
    BY <1>3, QueueTypes
  <2>2. CASE N < MaxChunks
    BY <2>1, <2>2
  <2>3. CASE N >= MaxChunks
    <3>1. k \in 1 .. N /\ k + MaxChunks > N
      BY <2>1, <2>3
    <3>2. k \in Live
      BY <1>3, <3>1 DEF Live
    <3>3. SlotOf(k) = widx
      BY <2>1, <2>3, SlotOfProperties
    <3>4. mem[<<"written", widx>>] = 1
      BY <3>2, <3>3, LiveFacts
    <3>5. mem[<<r, widx>>] = 1
      BY <2>1, <3>4 DEF Fill, Writable
    <3>6. k <= Marked(r)
      <4> HIDE DEF k
      <4> QED BY <3>2, <3>3, <3>5, LiveFacts
    <3> QED BY <2>1, <3>6
  <2> QED BY <2>1, <2>2, <2>3
<1>10. PatientInv'
  BY <1>2, <1>3, <1>6, <1>7, <1>9 DEF QueueInv, PatientInv
<1>11. SocketInv'
  BY <1>2, <1>6, <1>7 DEF QueueInv, SocketInv
<1> QED BY <1>1, <1>4, <1>5, <1>8, <1>10, <1>11 DEF QueueInv

LEMMA QueueSend ==
    ASSUME QueueInv, SendPayload PROVE QueueInv'
<1> USE DEF writerVars, readerVars, shutVars
<1>1. RingInv'
  BY RingWriter DEF QueueInv, Write
<1>2. /\ wpc = "send" /\ wpc' = "notify" /\ big
      /\ socket' = [r \in Reader |-> Append(socket[r], msg)]
      /\ UNCHANGED <<mem, stores, log, widx, msg, big, readerVars>>
  BY DEF SendPayload, QueueInv, LogInv
<1>3. ~Committed /\ ~Filling /\ Unsent /\ ~Committed' /\ ~Filling' /\ ~Unsent'
  BY <1>2 DEF Committed, Filling, Unsent
<1>4. LogInv'
  BY <1>2, <1>3 DEF QueueInv, LogInv
<1>5. FillInv'
  BY <1>2, <1>3 DEF FillInv
<1>6. /\ Sent = Len(log) - 1 /\ Sent' = Len(log) /\ Live' = Live /\ Len(log) \in Nat /\ Len(log) > 0
      /\ log[Len(log)] = msg
  BY <1>2, <1>3, QueueTypes DEF Sent, Live, QueueInv, LogInv
<1>7. \A r \in Patient : Marked(r)' = Marked(r) /\ Awaited(r)' = Awaited(r)
  BY <1>2 DEF Marked, Awaited
<1>8. SlotsInv'
  BY <1>2, <1>6, <1>7 DEF QueueInv, SlotsInv
<1>9. PatientInv'
  <2>1. \A r \in Patient : Len(taken[r]) <= Sent'
    <3>1. \A r \in Patient : Len(taken[r]) <= Sent /\ Len(taken[r]) \in Nat
      BY QueueTypes DEF QueueInv, PatientInv
    <3> QED BY <1>6, <3>1
  <2> QED BY <1>2, <1>3, <1>6, <1>7, <2>1 DEF QueueInv, PatientInv
<1>10. SocketInv'
  <2> SUFFICES ASSUME NEW r \in Patient
               PROVE  /\ socket'[r] \in Seq(Msg) /\ Increasing(socket'[r])
                      /\ \A i \in 1 .. Len(socket'[r]) :
                            \E k \in Awaited(r) : k <= Len(log) /\ socket'[r][i] = log[k]
                      /\ \A k \in Awaited(r) :
                            k <= Len(log) => \E i \in 1 .. Len(socket'[r]) : socket'[r][i] = log[k]
    <3>1. \A r \in Patient : Increasing(socket[r])' <=> Increasing(socket'[r])
      BY DEF Increasing
    <3>2. Sent' = Len(log) /\ log' = log
      BY <1>2, <1>6
    <3>3. \A r \in Patient : Awaited(r)' = Awaited(r)
      BY <1>7
    <3>4. SocketInv' <=>
            \A r \in Patient :
                /\ socket'[r] \in Seq(Msg) /\ Increasing(socket[r])'
                /\ \A i \in 1 .. Len(socket'[r]) :
                      \E k \in Awaited(r)' : k <= Sent' /\ socket'[r][i] = log'[k]
                /\ \A k \in Awaited(r)' :
                      k <= Sent' => \E i \in 1 .. Len(socket'[r]) : socket'[r][i] = log'[k]
      BY DEF SocketInv
    <3>5. ASSUME NEW q \in Patient
          PROVE  /\ socket'[q] \in Seq(Msg) /\ Increasing(socket[q])'
                 /\ \A i \in 1 .. Len(socket'[q]) :
                       \E k \in Awaited(q)' : k <= Sent' /\ socket'[q][i] = log'[k]
                 /\ \A k \in Awaited(q)' :
                       k <= Sent' => \E i \in 1 .. Len(socket'[q]) : socket'[q][i] = log'[k]
      <4>1. Increasing(socket[q])' <=> Increasing(socket'[q])
        BY <3>1
      <4>2. Awaited(q)' = Awaited(q)
        BY <3>3
      <4> QED BY <3>2, <4>1, <4>2
    <3> QED BY <3>4, <3>5
  <2> DEFINE s == socket[r]
             n == Len(s)
             N == Len(log)
  <2>1. /\ s \in Seq(Msg) /\ Increasing(s)
        /\ \A i \in 1 .. n : \E k \in Awaited(r) : k <= Sent /\ s[i] = log[k]
        /\ \A k \in Awaited(r) : k <= Sent => \E i \in 1 .. n : s[i] = log[k]
    BY DEF QueueInv, SocketInv
  <2>2. r \in Reader /\ msg \in Msg /\ n \in Nat
    BY <1>2, <2>1 DEF Patient, QueueInv, RingInv, LocalInv
  <2>3. /\ socket'[r] \in Seq(Msg) /\ Len(socket'[r]) = n + 1
        /\ \A i \in 1 .. n : socket'[r][i] = s[i]
        /\ socket'[r][n + 1] = msg
    BY <1>2, <2>1, <2>2, AppendProperties
  <2>4. N \in Awaited(r)
    <3>1. mem[<<"overflow", SlotOf(N)>>] = 1
      BY <1>3 DEF QueueInv, FillInv
    <3>2. Len(taken[r]) < N
      <4>1. Len(taken[r]) <= Sent /\ Len(taken[r]) \in Nat
        BY QueueTypes DEF QueueInv, PatientInv
      <4> QED BY <1>6, <4>1
    <3> QED BY <1>6, <3>1, <3>2 DEF Awaited
  <2>5. \A k \in Awaited(r) : k \in 1 .. N
    BY DEF Awaited
  <2>6. \A i \in 1 .. n : s[i] \in Int /\ msg \in Int /\ s[i] < msg
    <3> TAKE i \in 1 .. n
    <3>1. PICK k \in Awaited(r) : k <= Sent /\ s[i] = log[k]
      BY <2>1
    <3>2. k \in 1 .. N /\ N \in 1 .. N /\ k < N
      BY <1>6, <2>5, <3>1
    <3>3. log[k] < log[N]
      BY <3>2 DEF QueueInv, LogInv, Increasing
    <3>4. log[k] \in Msg
      BY <2>1, <3>1
    <3> QED BY <1>6, <2>2, <3>1, <3>3, <3>4, RingAssumption DEF Msg
  <2>7. Increasing(socket'[r])
    <3> SUFFICES ASSUME NEW i \in 1 .. n + 1, NEW j \in 1 .. n + 1, i < j
                 PROVE  socket'[r][i] < socket'[r][j]
      BY <2>3 DEF Increasing
    <3>1. i \in 1 .. n /\ socket'[r][i] = s[i]
      BY <2>2, <2>3
    <3>2. CASE j = n + 1
      BY <2>3, <2>6, <3>1, <3>2
    <3>3. CASE j \in 1 .. n
      <4>1. s[i] < s[j]
        BY <2>1, <3>1, <3>3 DEF Increasing
      <4> QED BY <2>3, <3>1, <3>3, <4>1
    <3> QED BY <2>2, <3>2, <3>3
  <2>8. ASSUME NEW i \in 1 .. n + 1
        PROVE  \E k \in Awaited(r) : k <= N /\ socket'[r][i] = log[k]
    <3>1. CASE i = n + 1
      BY <1>6, <2>3, <2>4, <3>1
    <3>2. CASE i \in 1 .. n
      BY <1>6, <2>1, <2>3, <2>5, <3>2
    <3> QED BY <2>2, <3>1, <3>2
  <2>9. ASSUME NEW k \in Awaited(r)
        PROVE  \E i \in 1 .. n + 1 : socket'[r][i] = log[k]
    <3>1. CASE k = N
      <4>1. n + 1 \in 1 .. n + 1 /\ socket'[r][n + 1] = log[k]
        BY <1>6, <2>2, <2>3, <3>1
      <4> QED BY <4>1
    <3>2. CASE k # N
      <4>1. k <= Sent
        BY <1>6, <2>5, <3>2
      <4>2. PICK i \in 1 .. n : s[i] = log[k]
        BY <2>1, <4>1
      <4>3. i \in 1 .. n + 1 /\ socket'[r][i] = log[k]
        BY <2>2, <2>3, <4>2
      <4> QED BY <4>3
    <3> QED BY <3>1, <3>2
  <2> QED BY <2>3, <2>7, <2>8, <2>9
<1> QED BY <1>1, <1>4, <1>5, <1>8, <1>9, <1>10 DEF QueueInv

(* A store of Fill becomes visible: the slots of the live messages and the
   slots that readers are in are not touched. *)
LEMMA QueueCommitFill ==
    ASSUME QueueInv, StoresInOrder, Commit, wpc = "publish" PROVE QueueInv' /\ log' = log
<1> USE DEF writerVars, readerVars, shutVars
<1> DEFINE f == stores[1].at[1]
           v == stores[1].val
<1>1. RingInv'
  BY RingCommit DEF QueueInv
<1>2. /\ Len(stores) \in Nat \ {0} /\ stores # <<>>
      /\ f \in Field /\ stores[1].at = <<f, widx>>
      /\ mem' = [mem EXCEPT ![<<f, widx>>] = v]
      /\ stores' \in Seq(Store) /\ Len(stores') = Len(stores) - 1
      /\ \A i \in 1 .. Len(stores) - 1 : stores'[i] = stores[i + 1]
      /\ UNCHANGED <<writerVars, socket, notified, readerVars, shutVars>>
  BY CommitFirst DEF QueueInv
<1>3. log' = log /\ (f = "written" => v = 0)
  <2>1. f = "written" => v = 0
    BY <1>2 DEF QueueInv, RingInv, StoresInv, Unmarking, WrittenStore
  <2> QED BY <2>1, CommitFirst DEF QueueInv
<1>4. /\ widx \in Slot /\ mem \in [Field \X Slot -> 0 .. MaxMsgs]
      /\ \A g \in Field, s \in Slot :
            mem'[<<g, s>>] = IF g = f /\ s = widx THEN v ELSE mem[<<g, s>>]
  BY <1>2 DEF QueueInv, RingInv, LocalInv, MemoryInv
<1>5. ~Committed /\ Filling /\ ~Unsent /\ ~Committed' /\ Filling' /\ ~Unsent'
  BY <1>2 DEF Committed, Filling, Unsent
<1>6. LogInv'
  BY <1>2, <1>3, <1>5 DEF QueueInv, LogInv
<1>7. FillInv'
  <2>1. \A i \in 1 .. Len(stores') : i + 1 \in 1 .. Len(stores) /\ stores'[i] = stores[i + 1]
    BY <1>2
  <2>2. \A g \in Field : (\E i \in 1 .. Len(stores) : stores[i].at = <<g, widx>>) =>
           g = f \/ \E i \in 1 .. Len(stores') : stores'[i].at = <<g, widx>>
    <3> SUFFICES ASSUME NEW g \in Field, NEW i \in 1 .. Len(stores), stores[i].at = <<g, widx>>, g # f
                 PROVE  \E j \in 1 .. Len(stores') : stores'[j].at = <<g, widx>>
      OBVIOUS
    <3>1. i # 1
      BY <1>2
    <3>2. i - 1 \in 1 .. Len(stores') /\ stores'[i - 1] = stores[i]
      BY <1>2, <3>1
    <3> QED BY <3>2
  <2>3. 1 \in 1 .. Len(stores)
    BY <1>2
  <2>4. \A i \in 1 .. Len(stores) :
           /\ stores[i].at[1] \in Reader => stores[i].val = 0
           /\ stores[i].at[1] = "overflow" => stores[i].val = (IF big THEN 1 ELSE 0)
           /\ stores[i].at[1] = "body" => ~big /\ stores[i].val = msg
    BY DEF QueueInv, RingInv, StoresInv, FillInv
  <2>5. \A i \in 1 .. Len(stores') :
           /\ stores'[i].at[1] = "overflow" => stores'[i].val = (IF big THEN 1 ELSE 0)
           /\ stores'[i].at[1] = "body" => ~big /\ stores'[i].val = msg
    BY <2>1, <2>4
  <2>6. /\ f \in Reader => v = 0
        /\ f = "overflow" => v = (IF big THEN 1 ELSE 0)
        /\ f = "body" => ~big /\ v = msg
    BY <2>3, <2>4
  <2> HIDE DEF f, v
  <2>7. \A r \in Reader : mem'[<<r, widx>>] = 0 \/ \E i \in 1 .. Len(stores') : stores'[i].at = <<r, widx>>
    BY <1>4, <2>2, <2>6, ReaderNames DEF QueueInv, FillInv
  <2>8. mem'[<<"overflow", widx>>] = (IF big THEN 1 ELSE 0) \/ \E i \in 1 .. Len(stores') : stores'[i].at = <<"overflow", widx>>
    BY <1>4, <2>2, <2>6 DEF QueueInv, FillInv, Field
  <2>9. big \/ mem'[<<"body", widx>>] = msg \/ \E i \in 1 .. Len(stores') : stores'[i].at = <<"body", widx>>
    BY <1>4, <2>2, <2>6 DEF QueueInv, FillInv, Field
  <2> QED BY <1>2, <1>5, <2>5, <2>7, <2>8, <2>9 DEF FillInv
<1> HIDE DEF f, v
<1>8. \A k \in Live, g \in Field : mem'[<<g, SlotOf(k)>>] = mem[<<g, SlotOf(k)>>]
  BY <1>4, <1>5, LiveNotFilling
<1>9. Sent' = Sent /\ Live' = Live
  BY <1>2, <1>3, <1>5 DEF Sent, Live
<1>10. \A r \in Patient : Marked(r)' = Marked(r)
  BY <1>2 DEF Marked
<1>11. SlotsInv'
  <2>1. \A k \in Slot : k >= Len(log) => mem'[<<"written", k>>] = 0
    BY <1>3, <1>4 DEF QueueInv, SlotsInv, Field
  <2>2. \A r \in Patient : r \in Field
    BY ReaderNames DEF Patient
  <2>3. "written" \in Field /\ "overflow" \in Field /\ "body" \in Field
    BY DEF Field
  <2> QED BY <1>3, <1>8, <1>9, <1>10, <2>1, <2>2, <2>3 DEF QueueInv, SlotsInv
<1>12. \A r \in Reader : rpc[r] \in InSlot =>
          \A g \in Field : mem'[<<g, ridx[r]>>] = mem[<<g, ridx[r]>>]
  <2>1. \A r \in Reader : rpc[r] \in InSlot => ridx[r] # widx
    BY <1>5, InSlotFacts
  <2>2. \A r \in Reader : ridx[r] \in Slot
    BY DEF QueueInv, RingInv, LocalInv
  <2> QED BY <1>4, <2>1, <2>2
<1>13. PatientInv'
  <2>1. \A r \in Patient : r \in Reader
    BY DEF Patient
  <2>2. "overflow" \in Field /\ "body" \in Field
    BY DEF Field
  <2>3. \A r \in Patient : rpc[r] \in {"body", "mark", "markBig"} =>
           /\ mem'[<<"overflow", ridx[r]>>] = mem[<<"overflow", ridx[r]>>]
           /\ mem'[<<"body", ridx[r]>>] = mem[<<"body", ridx[r]>>]
    BY <1>12, <2>1, <2>2 DEF InSlot
  <2> QED BY <1>2, <1>3, <1>5, <1>9, <1>10, <2>3 DEF QueueInv, PatientInv
<1>14. SocketInv'
  <2>1. \A r \in Patient, k \in 1 .. Len(log) :
           k > Marked(r) => mem'[<<"overflow", SlotOf(k)>>] = mem[<<"overflow", SlotOf(k)>>]
    BY <1>8, UnreadIsLive DEF Field
  <2>2. \A r \in Patient : Marked(r) \in Int
    BY QueueTypes
  <2>3. \A r \in Patient : Awaited(r)' = Awaited(r)
    BY <1>2, <1>3, <1>10, <2>1, <2>2 DEF Awaited
  <2> QED BY <1>2, <1>3, <1>9, <2>3 DEF QueueInv, SocketInv
<1> QED BY <1>1, <1>3, <1>6, <1>7, <1>11, <1>13, <1>14 DEF QueueInv

(* written := 1 becomes visible: the message enters the log. *)
LEMMA QueueCommitPublish ==
    ASSUME QueueInv, StoresInOrder, Commit, wpc = "advance"
    PROVE  /\ QueueInv'
           /\ log' = Append(log, msg) /\ msg \in Msg
           /\ \A r \in Patient : Len(log) + 1 <= Marked(r) + MaxChunks
<1> USE DEF writerVars, readerVars, shutVars
<1> DEFINE N == Len(log)
<1>1. RingInv'
  BY RingCommit DEF QueueInv
<1>2. stores # <<>> /\ stores = <<WrittenStore(1)>>
  BY CommitFirst DEF QueueInv, RingInv, StoresInv
<1>3. stores[1].at = <<"written", widx>> /\ stores[1].val = 1 /\ Len(stores) = 1
  <2>1. stores[1] = WrittenStore(1) /\ Len(stores) = 1
    BY <1>2
  <2> QED BY <2>1 DEF WrittenStore
<1>4. /\ mem' = [mem EXCEPT ![<<"written", widx>>] = 1]
      /\ stores' = <<>> /\ log' = Append(log, msg)
      /\ UNCHANGED <<writerVars, socket, notified, readerVars, shutVars>>
  <2>1. stores' \in Seq(Store) /\ Len(stores') = 0
    BY <1>3, CommitFirst DEF QueueInv
  <2> QED BY <1>3, <2>1, CommitFirst DEF QueueInv
<1>5. /\ widx \in Slot /\ msg \in Msg /\ mem \in [Field \X Slot -> 0 .. MaxMsgs]
      /\ big \in BOOLEAN
  BY DEF QueueInv, RingInv, LocalInv, MemoryInv
<1>6. \A g \in Field, s \in Slot :
         mem'[<<g, s>>] = IF g = "written" /\ s = widx THEN 1 ELSE mem[<<g, s>>]
  BY <1>4, <1>5 DEF Field
<1>7. ~Committed /\ Filling /\ ~Unsent /\ Committed' /\ ~Filling' /\ (Unsent' <=> big)
  BY <1>2, <1>4 DEF Committed, Filling, Unsent
<1>8. /\ N \in Nat /\ log' \in Seq(Msg) /\ Len(log') = N + 1
      /\ \A k \in 1 .. N : log'[k] = log[k]
      /\ log'[N + 1] = msg
  <2>1. log \in Seq(Msg)
    BY DEF QueueInv, LogInv
  <2> QED BY <1>4, <1>5, <2>1, AppendProperties
<1>9. /\ mem[<<"written", widx>>] = 0
      /\ \A r \in Reader : mem[<<r, widx>>] = 0
      /\ mem[<<"overflow", widx>>] = (IF big THEN 1 ELSE 0)
      /\ big \/ mem[<<"body", widx>>] = msg
  BY <1>2 DEF QueueInv, FillInv
<1>10. widx = N % MaxChunks /\ SlotOf(N + 1) = widx
  BY <1>7, <1>8, QueueTypes, SlotOfProperties
<1>11. LogInv'
  <2>1. \A k \in 1 .. N : log[k] < msg /\ log[k] <= msg /\ log[k] \in Int
    <3>1. \A k \in 1 .. N : log[k] < msg /\ log[k] <= msg /\ log[k] \in Msg
      BY <1>7 DEF QueueInv, LogInv
    <3> QED BY <3>1, RingAssumption DEF Msg
  <2>2. msg \in Int
    BY <1>5, RingAssumption DEF Msg
  <2>3. Increasing(log')
    <3> SUFFICES ASSUME NEW i \in 1 .. N + 1, NEW j \in 1 .. N + 1, i < j
                 PROVE  log'[i] < log'[j]
      BY <1>8 DEF Increasing
    <3>1. i \in 1 .. N /\ log'[i] = log[i]
      BY <1>8
    <3>2. CASE j = N + 1
      BY <1>8, <2>1, <3>1, <3>2
    <3>3. CASE j \in 1 .. N
      <4>1. log[i] < log[j]
        BY <3>1, <3>3 DEF QueueInv, LogInv, Increasing
      <4> QED BY <1>8, <3>1, <3>3, <4>1
    <3> QED BY <1>8, <3>2, <3>3
  <2>4. Increasing(log)'
    BY <2>3 DEF Increasing
  <2>5. \A k \in 1 .. N + 1 : log'[k] <= msg
    BY <1>8, <2>1, <2>2
  <2>6. widx = (Len(log') - 1) % MaxChunks
    BY <1>8, <1>10
  <2>7. Len(log') > 0 /\ log'[Len(log')] = msg
    BY <1>8
  <2> QED BY <1>4, <1>7, <1>8, <2>4, <2>5, <2>6, <2>7 DEF LogInv
<1>12. FillInv'
  <2>1. mem'[<<"overflow", widx>>] = mem[<<"overflow", widx>>]
    BY <1>5, <1>6 DEF Field
  <2>2. SlotOf(Len(log))' = widx
    BY <1>8, <1>10 DEF SlotOf
  <2>3. big => mem'[<<"overflow", SlotOf(Len(log))'>>] = 1
    BY <1>9, <2>1, <2>2
  <2> QED BY <1>4, <1>7, <2>3 DEF FillInv
<1>13. \A r \in Patient : /\ Marked(r)' = Marked(r) /\ Marked(r) \in Nat
                          /\ Marked(r) <= N /\ N + 1 <= Marked(r) + MaxChunks
                          /\ Len(taken[r]) \in Nat /\ Len(taken[r]) <= N
  <2>1. \A r \in Patient : Marked(r)' = Marked(r)
    BY <1>4 DEF Marked
  <2>2. \A r \in Patient : Marked(r) \in Nat /\ Len(taken[r]) \in Nat
    BY QueueTypes
  <2>3. \A r \in Patient : Marked(r) <= N /\ N + 1 <= Marked(r) + MaxChunks /\ Len(taken[r]) <= Sent
    BY <1>7 DEF QueueInv, PatientInv
  <2>4. Sent = N
    BY <1>7, <1>8 DEF Sent
  <2> QED BY <2>1, <2>2, <2>3, <2>4
<1>18. Sent = N /\ Sent' = (IF big THEN N ELSE N + 1)
  <2>1. Sent = N
    BY <1>7, <1>8 DEF Sent
  <2>2. CASE big
    <3>1. Unsent'
      BY <1>7, <2>2
    <3> QED BY <1>8, <2>1, <2>2, <3>1 DEF Sent
  <2>3. CASE ~big
    <3>1. ~Unsent'
      BY <1>7, <2>3
    <3> QED BY <1>8, <2>1, <2>3, <3>1 DEF Sent
  <2> QED BY <2>2, <2>3
<1>14. Live' = Live \cup {N + 1} /\ \A k \in Live : k \in 1 .. N
  BY <1>7, <1>8, RingAssumption DEF Live
<1>15. SlotsInv'
  <2>1. \A k \in Live, g \in Field : mem'[<<g, SlotOf(k)>>] = mem[<<g, SlotOf(k)>>]
    BY <1>6, <1>7, LiveNotFilling
  <2>2. /\ "written" \in Field /\ "overflow" \in Field /\ "body" \in Field
        /\ \A r \in Patient : r \in Field /\ r \in Reader /\ r # "written"
    BY ReaderNames DEF Field, Patient
  <2>3. ASSUME NEW k \in Live
        PROVE  /\ mem'[<<"written", SlotOf(k)>>] = 1
               /\ mem'[<<"overflow", SlotOf(k)>>] = 0 => mem'[<<"body", SlotOf(k)>>] = log'[k]
               /\ \A r \in Patient : mem'[<<r, SlotOf(k)>>] = 1 <=> k <= Marked(r)'
    BY <1>8, <1>13, <1>14, <2>1, <2>2, LiveFacts
  <2>4. /\ mem'[<<"written", SlotOf(N + 1)>>] = 1
        /\ mem'[<<"overflow", SlotOf(N + 1)>>] = 0 => mem'[<<"body", SlotOf(N + 1)>>] = log'[N + 1]
        /\ \A r \in Patient : mem'[<<r, SlotOf(N + 1)>>] = 1 <=> N + 1 <= Marked(r)'
    <3>1. \A r \in Patient : mem'[<<r, SlotOf(N + 1)>>] = 0 /\ ~(N + 1 <= Marked(r)')
      BY <1>5, <1>6, <1>8, <1>9, <1>10, <1>13, <2>2
    <3>2. mem'[<<"written", SlotOf(N + 1)>>] = 1
      BY <1>5, <1>6, <1>10, <2>2
    <3>3. mem'[<<"overflow", widx>>] = mem[<<"overflow", widx>>] /\ mem'[<<"body", widx>>] = mem[<<"body", widx>>]
      BY <1>5, <1>6, <2>2
    <3>4. mem'[<<"overflow", SlotOf(N + 1)>>] = 0 => mem'[<<"body", SlotOf(N + 1)>>] = log'[N + 1]
      BY <1>8, <1>9, <1>10, <3>3, SMTT(30)
    <3> QED BY <3>1, <3>2, <3>4
  <2>5. ASSUME NEW k \in Slot, k >= Len(log')
        PROVE  mem'[<<"written", k>>] = 0
    <3>1. k \in Int /\ k >= N + 1 /\ N < MaxChunks
      BY <1>8, <2>5, RingAssumption DEF Slot
    <3>2. k # widx /\ k >= Len(log)
      <4>1. N % MaxChunks = N
        BY <1>8, <3>1, SlotOfProperties
      <4> QED BY <1>8, <1>10, <3>1, <4>1
    <3> QED BY <1>6, <2>2, <3>2 DEF QueueInv, SlotsInv
  <2>6. \A k \in Live' :
           /\ mem'[<<"written", SlotOf(k)>>] = 1
           /\ mem'[<<"overflow", SlotOf(k)>>] = 0 => mem'[<<"body", SlotOf(k)>>] = log'[k]
           /\ \A r \in Patient : mem'[<<r, SlotOf(k)>>] = 1 <=> k <= Marked(r)'
    BY <1>14, <2>3, <2>4
  <2> QED BY <2>5, <2>6 DEF SlotsInv, SlotOf
<1>16. PatientInv'
  <2> SUFFICES ASSUME NEW r \in Patient
               PROVE  /\ taken[r] \in Seq(Msg) /\ Len(taken[r]) <= Sent'
                      /\ \A k \in 1 .. Len(taken[r]) : taken[r][k] = log'[k]
                      /\ Marked(r)' <= Len(log')
                      /\ Len(log') <= Marked(r)' + MaxChunks
                      /\ ridx[r] = Marked(r)' % MaxChunks
                      /\ rpc[r] = "body" => mem'[<<"overflow", ridx[r]>>] = 0
                      /\ rpc[r] = "markBig" => mem'[<<"overflow", ridx[r]>>] = 1
                      /\ rpc[r] = "mark" => mem'[<<"overflow", ridx[r]>>] = 0 /\ loaded[r] = mem'[<<"body", ridx[r]>>]
    <3>1. Len(log') + (IF Filling' THEN 1 ELSE 0) = Len(log')
      BY <1>7, <1>8
    <3>2. UNCHANGED <<taken, ridx, rpc, loaded>>
      BY <1>4
    <3> QED BY <3>1, <3>2 DEF PatientInv
  <2>1. /\ taken[r] \in Seq(Msg)
        /\ \A k \in 1 .. Len(taken[r]) : taken[r][k] = log[k]
        /\ ridx[r] = Marked(r) % MaxChunks
        /\ rpc[r] = "body" => mem[<<"overflow", ridx[r]>>] = 0
        /\ rpc[r] = "markBig" => mem[<<"overflow", ridx[r]>>] = 1
        /\ rpc[r] = "mark" => mem[<<"overflow", ridx[r]>>] = 0 /\ loaded[r] = mem[<<"body", ridx[r]>>]
    BY DEF QueueInv, PatientInv
  <2>2. mem'[<<"overflow", ridx[r]>>] = mem[<<"overflow", ridx[r]>>] /\ mem'[<<"body", ridx[r]>>] = mem[<<"body", ridx[r]>>]
    <3>1. ridx[r] \in Slot
      BY DEF QueueInv, RingInv, LocalInv, Patient
    <3> QED BY <1>6, <3>1 DEF Field
  <2>3. Len(taken[r]) <= Sent'
    BY <1>8, <1>13, <1>18
  <2>4. \A k \in 1 .. Len(taken[r]) : taken[r][k] = log'[k]
    BY <1>8, <1>13, <2>1
  <2>5. Marked(r)' <= Len(log') /\ Len(log') <= Marked(r)' + MaxChunks
    BY <1>8, <1>13
  <2> QED BY <1>13, <2>1, <2>2, <2>3, <2>4, <2>5
<1>17. SocketInv'
  <2> SUFFICES ASSUME NEW r \in Patient
               PROVE  /\ \A i \in 1 .. Len(socket[r]) :
                            \E k \in Awaited(r)' : k <= Sent' /\ socket[r][i] = log'[k]
                      /\ \A k \in Awaited(r)' :
                            k <= Sent' => \E i \in 1 .. Len(socket[r]) : socket[r][i] = log'[k]
    <3>1. \A r \in Patient : socket'[r] \in Seq(Msg) /\ Increasing(socket[r])' /\ socket'[r] = socket[r]
      BY <1>4 DEF QueueInv, SocketInv, Increasing
    <3> QED BY <3>1, SMTT(30) DEF SocketInv
  <2>1. /\ \A i \in 1 .. Len(socket[r]) : \E k \in Awaited(r) : k <= Sent /\ socket[r][i] = log[k]
        /\ \A k \in Awaited(r) : k <= Sent => \E i \in 1 .. Len(socket[r]) : socket[r][i] = log[k]
    BY DEF QueueInv, SocketInv
  <2>2. Sent = N /\ Sent' = (IF big THEN N ELSE N + 1) /\ N \in Int
    BY <1>8, <1>18
  <2>3. \A k \in 1 .. N : k \in Awaited(r)' <=> k \in Awaited(r)
    <3>1. \A k \in 1 .. N : mem'[<<"overflow", SlotOf(k)>>] = mem[<<"overflow", SlotOf(k)>>]
      <4>1. \A k \in 1 .. N : SlotOf(k) \in Slot
        BY <1>8, SlotOfProperties
      <4> QED BY <1>6, <4>1 DEF Field
    <3>2. \A k \in 1 .. N : k \in 1 .. N + 1 /\ (SlotOf(k))' = SlotOf(k)
      BY <1>8 DEF SlotOf
    <3> QED BY <1>4, <1>8, <1>13, <3>1, <3>2 DEF Awaited
  <2>4. N + 1 \in Awaited(r)' => big
    <3>1. ~(N + 1 <= Marked(r)')
      BY <1>8, <1>13
    <3>2. mem'[<<"overflow", SlotOf(N + 1)>>] = mem[<<"overflow", widx>>]
      BY <1>5, <1>6, <1>10 DEF Field
    <3> QED BY <1>9, <3>1, <3>2 DEF Awaited, SlotOf
  <2>5. \A k \in Awaited(r) : k \in 1 .. N
    BY DEF Awaited
  <2>6. \A k \in Awaited(r)' : k \in 1 .. N \/ k = N + 1
    BY <1>8 DEF Awaited
  <2>7. ASSUME NEW i \in 1 .. Len(socket[r])
        PROVE  \E k \in Awaited(r)' : k <= Sent' /\ socket[r][i] = log'[k]
    <3>1. PICK k \in Awaited(r) : k <= Sent /\ socket[r][i] = log[k]
      BY <2>1
    <3>2. k \in 1 .. N /\ k \in Awaited(r)' /\ k <= Sent' /\ log'[k] = log[k]
      BY <1>8, <2>2, <2>3, <2>5, <3>1
    <3> QED BY <3>1, <3>2
  <2>8. ASSUME NEW k \in Awaited(r)', k <= Sent'
        PROVE  \E i \in 1 .. Len(socket[r]) : socket[r][i] = log'[k]
    <3>1. k \in 1 .. N
      BY <2>2, <2>4, <2>6, <2>8
    <3>2. k \in Awaited(r) /\ k <= Sent /\ log'[k] = log[k]
      BY <1>8, <2>2, <2>3, <3>1
    <3> QED BY <2>1, <3>2
  <2> QED BY <2>7, <2>8
<1> QED BY <1>1, <1>4, <1>5, <1>11, <1>12, <1>13, <1>15, <1>16, <1>17 DEF QueueInv

(* A step of reader p that moves it on without taking or marking anything. *)
LEMMA ReaderFrame ==
    ASSUME QueueInv, RingInv', NEW p \in Reader, NEW loc,
           UNCHANGED <<mem, stores, writerVars, socket, log, ridx, taken>>,
           rpc' = [rpc EXCEPT ![p] = loc], rpc[p] # "recv", loc # "recv",
           \A r \in Reader : r # p => loaded'[r] = loaded[r],
           loc = "body" => mem[<<"overflow", ridx[p]>>] = 0,
           loc = "markBig" => mem[<<"overflow", ridx[p]>>] = 1,
           loc = "mark" /\ p \in Patient =>
               mem[<<"overflow", ridx[p]>>] = 0 /\ loaded'[p] = mem[<<"body", ridx[p]>>]
    PROVE  QueueInv'
<1> USE DEF writerVars
<1>1. /\ (Committed' <=> Committed) /\ (Filling' <=> Filling) /\ (Unsent' <=> Unsent)
      /\ Sent' = Sent /\ Live' = Live
  BY DEF Committed, Filling, Unsent, Sent, Live
<1>2. LogInv' /\ FillInv'
  <2>1. LogInv'
    BY <1>1 DEF QueueInv, LogInv, Increasing
  <2>2. FillInv'
    BY <1>1 DEF QueueInv, FillInv, SlotOf
  <2> QED BY <2>1, <2>2
<1>3. \A r \in Reader : rpc'[r] = IF r = p THEN loc ELSE rpc[r]
  BY DEF QueueInv, RingInv, LocalInv
<1>4. \A r \in Patient : r \in Reader /\ Marked(r)' = Marked(r)
  BY <1>3 DEF Marked, Patient
<1>5. \A r \in Patient : Awaited(r)' = Awaited(r)
  BY <1>4 DEF Awaited, SlotOf
<1>6. SlotsInv'
  BY <1>1, <1>4 DEF QueueInv, SlotsInv, SlotOf
<1>7. PatientInv'
  <2> SUFFICES ASSUME NEW r \in Patient
               PROVE  /\ rpc'[r] = "body" => mem[<<"overflow", ridx[r]>>] = 0
                      /\ rpc'[r] = "markBig" => mem[<<"overflow", ridx[r]>>] = 1
                      /\ rpc'[r] = "mark" => mem[<<"overflow", ridx[r]>>] = 0
                                           /\ loaded'[r] = mem[<<"body", ridx[r]>>]
    BY <1>1, <1>4 DEF QueueInv, PatientInv
  <2>1. /\ rpc[r] = "body" => mem[<<"overflow", ridx[r]>>] = 0
        /\ rpc[r] = "markBig" => mem[<<"overflow", ridx[r]>>] = 1
        /\ rpc[r] = "mark" => mem[<<"overflow", ridx[r]>>] = 0 /\ loaded[r] = mem[<<"body", ridx[r]>>]
    BY DEF QueueInv, PatientInv
  <2> QED BY <1>3, <1>4, <2>1
<1>8. SocketInv'
  BY <1>1, <1>5 DEF QueueInv, SocketInv, Increasing
<1> QED BY <1>2, <1>6, <1>7, <1>8 DEF QueueInv

LEMMA QueueLook ==
    ASSUME QueueInv, NEW p \in Reader,
           CheckReadFlag(p) \/ CheckWritten(p) \/ Waits(p) \/ WaitYields(p)
             \/ ReadOverflow(p) \/ ReadBody(p)
    PROVE  QueueInv'
<1> USE DEF readerVars
<1>1. RingInv'
  BY RingReader DEF Reads, QueueInv
<1>2. CASE CheckReadFlag(p)
  <2>1. \A r \in Reader : r # p => loaded'[r] = loaded[r]
    BY <1>2 DEF CheckReadFlag, QueueInv, RingInv, LocalInv
  <2> QED BY <1>1, <1>2, <2>1, ReaderFrame DEF CheckReadFlag
<1>3. CASE CheckWritten(p)
  <2> DEFINE loc == IF mem[<<"written", ridx[p]>>] = 1 /\ loaded[p] = 0 THEN "overflow" ELSE "wait"
  <2>1. loc \notin {"recv", "body", "mark", "markBig"}
    OBVIOUS
  <2>2. rpc' = [rpc EXCEPT ![p] = loc] /\ rpc[p] # "recv"
        /\ UNCHANGED <<mem, stores, writerVars, socket, log, ridx, taken, loaded>>
    BY <1>3 DEF CheckWritten
  <2> HIDE DEF loc
  <2> QED BY <1>1, <2>1, <2>2, ReaderFrame
<1>4. CASE Waits(p) \/ WaitYields(p)
  <2> DEFINE loc == IF shut[p] THEN "cancelled" ELSE "flag"
  <2>1. loc \notin {"recv", "body", "mark", "markBig"}
    OBVIOUS
  <2>2. rpc' = [rpc EXCEPT ![p] = loc] /\ rpc[p] # "recv"
        /\ UNCHANGED <<mem, stores, writerVars, socket, log, ridx, taken, loaded>>
    BY <1>4 DEF Waits, WaitYields, WaitNotified, WaitCancelled, WaitTimedOut, Rechecks
  <2> HIDE DEF loc
  <2> QED BY <1>1, <2>1, <2>2, ReaderFrame
<1>5. CASE ReadOverflow(p)
  <2> DEFINE loc == IF mem[<<"overflow", ridx[p]>>] = 1 THEN "markBig" ELSE "body"
  <2>1. mem[<<"overflow", ridx[p]>>] \in {0, 1}
    BY DEF QueueInv, RingInv, MemoryInv, LocalInv, Field
  <2>2. /\ loc \notin {"recv", "mark"}
        /\ loc = "body" => mem[<<"overflow", ridx[p]>>] = 0
        /\ loc = "markBig" => mem[<<"overflow", ridx[p]>>] = 1
    BY <2>1
  <2>3. rpc' = [rpc EXCEPT ![p] = loc] /\ rpc[p] # "recv"
        /\ UNCHANGED <<mem, stores, writerVars, socket, log, ridx, taken, loaded>>
    BY <1>5 DEF ReadOverflow
  <2> HIDE DEF loc
  <2> QED BY <1>1, <2>2, <2>3, ReaderFrame
<1>6. CASE ReadBody(p)
  <2>1. /\ \A r \in Reader : r # p => loaded'[r] = loaded[r]
        /\ loaded'[p] = mem[<<"body", ridx[p]>>]
    BY <1>6 DEF ReadBody, QueueInv, RingInv, LocalInv
  <2>2. p \in Patient => mem[<<"overflow", ridx[p]>>] = 0
    BY <1>6 DEF ReadBody, QueueInv, PatientInv
  <2>3. rpc' = [rpc EXCEPT ![p] = "mark"] /\ rpc[p] # "recv"
        /\ UNCHANGED <<mem, stores, writerVars, socket, log, ridx, taken>>
    BY <1>6 DEF ReadBody
  <2> QED BY <1>1, <2>1, <2>2, <2>3, ReaderFrame
<1> QED BY <1>2, <1>3, <1>4, <1>5, <1>6

(* shutdown() changes nothing that the queue is made of. *)
LEMMA QueueStop ==
    ASSUME QueueInv, NEW p \in Reader, SetShuttingDown(p) \/ Cancel(p)
    PROVE  QueueInv'
<1>1. RingInv'
  BY RingReader DEF QueueInv
<1>2. UNCHANGED <<mem, stores, writerVars, socket, readerVars, log>>
  BY DEF SetShuttingDown, Cancel
<1> USE DEF writerVars, readerVars
<1>3. /\ (Committed' <=> Committed) /\ (Filling' <=> Filling) /\ (Unsent' <=> Unsent)
      /\ Sent' = Sent /\ Live' = Live
  BY <1>2 DEF Committed, Filling, Unsent, Sent, Live
<1>4. \A r \in Patient : Marked(r)' = Marked(r) /\ Awaited(r)' = Awaited(r)
  BY <1>2 DEF Marked, Awaited, SlotOf
<1>5. LogInv'
  BY <1>2, <1>3 DEF QueueInv, LogInv, Increasing
<1>6. FillInv'
  BY <1>2, <1>3 DEF QueueInv, FillInv, SlotOf
<1>7. SlotsInv'
  BY <1>2, <1>3, <1>4 DEF QueueInv, SlotsInv, SlotOf
<1>8. PatientInv'
  BY <1>2, <1>3, <1>4 DEF QueueInv, PatientInv
<1>9. SocketInv'
  BY <1>2, <1>3, <1>4 DEF QueueInv, SocketInv, Increasing
<1> QED BY <1>1, <1>5, <1>6, <1>7, <1>8, <1>9 DEF QueueInv

(* A reader marks its slot and goes on to the next one. *)
LEMMA QueueMark ==
    ASSUME QueueInv, HistoryInv, NEW p \in Reader, MarkRead(p)
    PROVE  /\ QueueInv'
           /\ p \in Patient /\ rpc[p] = "mark" =>
                 Len(taken[p]) < Len(log) /\ loaded[p] = log[Len(taken[p]) + 1]
<1> USE DEF writerVars, readerVars, shutVars
<1> DEFINE N == Len(log)
<1>1. RingInv'
  BY RingReader DEF Reads, QueueInv
<1>2. /\ mem' = [mem EXCEPT ![<<p, ridx[p]>>] = 1]
      /\ ridx' = [ridx EXCEPT ![p] = (ridx[p] + 1) % MaxChunks]
      /\ taken' = IF rpc[p] = "mark" THEN [taken EXCEPT ![p] = Append(taken[p], loaded[p])] ELSE taken
      /\ rpc' = [rpc EXCEPT ![p] = IF rpc[p] = "mark" THEN "flag" ELSE "recv"]
      /\ UNCHANGED <<stores, writerVars, socket, loaded, shutVars, log>>
      /\ rpc[p] \in {"mark", "markBig"} /\ rpc[p] \in InSlot
  BY DEF MarkRead, InSlot
<1>3. /\ p \in Field /\ p # "written" /\ p # "overflow" /\ p # "body"
      /\ ridx \in [Reader -> Slot] /\ rpc \in [Reader -> ReaderLoc]
      /\ mem \in [Field \X Slot -> 0 .. MaxMsgs] /\ widx \in Slot
      /\ "written" \in Field /\ "overflow" \in Field /\ "body" \in Field
  BY ReaderNames DEF QueueInv, RingInv, LocalInv, MemoryInv, Field
<1>4. \A g \in Field, s \in Slot :
         mem'[<<g, s>>] = IF g = p /\ s = ridx[p] THEN 1 ELSE mem[<<g, s>>]
  BY <1>2, <1>3
<1>5. /\ (Committed' <=> Committed) /\ (Filling' <=> Filling) /\ (Unsent' <=> Unsent)
      /\ Sent' = Sent /\ Live' = Live
  BY <1>2 DEF Committed, Filling, Unsent, Sent, Live
<1>6. LogInv'
  BY <1>2, <1>5 DEF QueueInv, LogInv, Increasing
<1>7. FillInv'
  <2>1. Filling => ridx[p] # widx
    BY <1>2, InSlotFacts
  <2>2. \A g \in Field : Filling => mem'[<<g, widx>>] = mem[<<g, widx>>]
    BY <1>3, <1>4, <2>1
  <2>3. Unsent => SlotOf(Len(log)) \in Slot
    BY QueueTypes, SlotOfProperties DEF QueueInv, LogInv, Unsent
  <2>4. Unsent => mem'[<<"overflow", SlotOf(Len(log))>>] = 1
    BY <1>3, <1>4, <2>3 DEF QueueInv, FillInv
  <2>5. /\ wpc = "publish" => Filling
        /\ wpc = "advance" /\ stores # <<>> => Filling
    BY DEF Filling
  <2>6. ASSUME Filling
        PROVE  /\ \A r \in Reader : mem'[<<r, widx>>] = mem[<<r, widx>>]
               /\ mem'[<<"written", widx>>] = mem[<<"written", widx>>]
               /\ mem'[<<"overflow", widx>>] = mem[<<"overflow", widx>>]
               /\ mem'[<<"body", widx>>] = mem[<<"body", widx>>]
    BY <1>3, <2>2, <2>6 DEF Field
  <2>7. CASE wpc = "publish"
    BY <1>2, <1>5, <2>4, <2>6, <2>7 DEF QueueInv, FillInv, SlotOf, Filling
  <2>8. CASE wpc = "advance"
    BY <1>2, <1>5, <2>4, <2>6, <2>8 DEF QueueInv, FillInv, SlotOf, Filling
  <2>9. CASE wpc \notin {"publish", "advance"}
    BY <1>2, <1>5, <2>4, <2>9 DEF FillInv, SlotOf
  <2> QED BY <2>7, <2>8, <2>9
<1>8. \A r \in Reader : r # p => rpc'[r] = rpc[r] /\ ridx'[r] = ridx[r] /\ taken'[r] = taken[r]
  <2>1. \A r \in Reader : r # p => taken'[r] = taken[r]
    BY <1>2
  <2> QED BY <1>2, <1>3, <2>1
<1>9. \A r \in Patient : r # p => Marked(r)' = Marked(r) /\ Awaited(r)' = Awaited(r)
  <2> SUFFICES ASSUME NEW r \in Patient, r # p
               PROVE  Marked(r)' = Marked(r) /\ Awaited(r)' = Awaited(r)
    OBVIOUS
  <2>1. r \in Reader
    BY DEF Patient
  <2>2. Marked(r)' = Marked(r)
    BY <1>8, <2>1 DEF Marked
  <2>3. \A k \in 1 .. N : mem'[<<"overflow", SlotOf(k)>>] = mem[<<"overflow", SlotOf(k)>>]
    <3>1. \A k \in 1 .. N : SlotOf(k) \in Slot
      BY QueueTypes, SlotOfProperties
    <3> QED BY <1>3, <1>4, <3>1
  <2> QED BY <1>2, <1>8, <2>1, <2>2, <2>3 DEF Awaited, SlotOf
<1>10. ASSUME p \in Patient
       PROVE  /\ Marked(p) = Len(taken[p]) /\ Marked(p) + 1 \in Live
              /\ Marked(p) \in Nat /\ Marked(p) < N /\ N \in Nat /\ MaxChunks \in Nat \ {0}
              /\ ridx[p] = SlotOf(Marked(p) + 1)
              /\ Marked(p)' = Marked(p) + 1
              /\ rpc[p] = "mark" =>
                    /\ taken'[p] \in Seq(Msg) /\ Len(taken'[p]) = Marked(p) + 1
                    /\ \A k \in 1 .. Len(taken[p]) : taken'[p][k] = taken[p][k]
                    /\ taken'[p][Marked(p) + 1] = log[Marked(p) + 1]
                    /\ loaded[p] = log[Marked(p) + 1]
                    /\ mem[<<"overflow", ridx[p]>>] = 0
                    /\ rpc'[p] = "flag"
              /\ rpc[p] = "markBig" =>
                    /\ taken' = taken /\ rpc'[p] = "recv" /\ mem[<<"overflow", ridx[p]>>] = 1
  <2>1. /\ Marked(p) = Len(taken[p]) /\ Marked(p) + 1 \in Live
        /\ Marked(p) \in Nat /\ Marked(p) < N /\ N \in Nat /\ MaxChunks \in Nat \ {0}
        /\ ridx[p] = SlotOf(Marked(p) + 1)
    BY <1>2, <1>10, InSlotFacts, QueueTypes
  <2>2. ASSUME rpc[p] = "mark"
        PROVE  /\ taken'[p] \in Seq(Msg) /\ Len(taken'[p]) = Marked(p) + 1
               /\ \A k \in 1 .. Len(taken[p]) : taken'[p][k] = taken[p][k]
               /\ taken'[p][Marked(p) + 1] = log[Marked(p) + 1]
               /\ loaded[p] = log[Marked(p) + 1]
               /\ mem[<<"overflow", ridx[p]>>] = 0
               /\ rpc'[p] = "flag"
               /\ Marked(p)' = Marked(p) + 1
    <3>1. /\ mem[<<"overflow", ridx[p]>>] = 0 /\ loaded[p] = mem[<<"body", ridx[p]>>]
          /\ taken[p] \in Seq(Msg) /\ log \in Seq(Msg)
      BY <1>10, <2>2 DEF QueueInv, PatientInv, LogInv
    <3>2. loaded[p] = log[Marked(p) + 1]
      BY <2>1, <3>1, LiveFacts
    <3>3. log[Marked(p) + 1] \in Msg
      <4>1. Marked(p) + 1 \in 1 .. N
        BY <2>1
      <4> QED BY <3>1, <4>1
    <3>4. taken'[p] = Append(taken[p], loaded[p])
      <4>1. p \in DOMAIN taken
        BY DEF HistoryInv
      <4> QED BY <1>2, <2>2, <4>1
    <3>5. rpc'[p] = "flag"
      BY <1>2, <1>3, <2>2
    <3>6. /\ taken'[p] \in Seq(Msg) /\ Len(taken'[p]) = Marked(p) + 1
          /\ \A k \in 1 .. Len(taken[p]) : taken'[p][k] = taken[p][k]
          /\ taken'[p][Marked(p) + 1] = log[Marked(p) + 1]
      BY <2>1, <3>1, <3>2, <3>3, <3>4, AppendProperties
    <3>7. Marked(p)' = Marked(p) + 1
      BY <2>1, <3>5, <3>6 DEF Marked
    <3> QED BY <3>1, <3>2, <3>5, <3>6, <3>7
  <2>3. ASSUME rpc[p] = "markBig"
        PROVE  /\ taken' = taken /\ rpc'[p] = "recv" /\ mem[<<"overflow", ridx[p]>>] = 1
               /\ Marked(p)' = Marked(p) + 1
    <3>1. taken' = taken /\ rpc'[p] = "recv"
      BY <1>2, <1>3, <2>3
    <3>2. mem[<<"overflow", ridx[p]>>] = 1
      BY <1>10, <2>3 DEF QueueInv, PatientInv
    <3>3. Marked(p)' = Marked(p) + 1
      BY <2>1, <3>1 DEF Marked
    <3> QED BY <3>1, <3>2, <3>3
  <2> QED BY <1>2, <2>1, <2>2, <2>3
<1>11. SlotsInv'
  <2>1. ASSUME NEW k \in Live
        PROVE  /\ mem'[<<"written", SlotOf(k)>>] = 1
               /\ mem'[<<"overflow", SlotOf(k)>>] = 0 => mem'[<<"body", SlotOf(k)>>] = log[k]
               /\ \A r \in Patient : mem'[<<r, SlotOf(k)>>] = 1 <=> k <= Marked(r)'
    <3>1. /\ k \in 1 .. N /\ k + MaxChunks > N /\ SlotOf(k) \in Slot
          /\ mem[<<"written", SlotOf(k)>>] = 1
          /\ mem[<<"overflow", SlotOf(k)>>] = 0 => mem[<<"body", SlotOf(k)>>] = log[k]
          /\ \A r \in Patient : mem[<<r, SlotOf(k)>>] = 1 <=> k <= Marked(r)
      <4>1. N \in Nat /\ MaxChunks \in Nat
        BY QueueTypes
      <4> QED BY <4>1, LiveFacts
    <3>2. /\ mem'[<<"written", SlotOf(k)>>] = mem[<<"written", SlotOf(k)>>]
          /\ mem'[<<"overflow", SlotOf(k)>>] = mem[<<"overflow", SlotOf(k)>>]
          /\ mem'[<<"body", SlotOf(k)>>] = mem[<<"body", SlotOf(k)>>]
      BY <1>3, <1>4, <3>1
    <3>3. ASSUME NEW r \in Patient, r # p
          PROVE  mem'[<<r, SlotOf(k)>>] = 1 <=> k <= Marked(r)'
      <4>1. r \in Field
        BY ReaderNames DEF Patient
      <4> QED BY <1>4, <1>9, <3>1, <3>3, <4>1
    <3>4. ASSUME p \in Patient
          PROVE  mem'[<<p, SlotOf(k)>>] = 1 <=> k <= Marked(p)'
      <4> DEFINE m == Marked(p)
      <4>1. /\ m \in Nat /\ m < N /\ N \in Nat /\ MaxChunks \in Nat \ {0}
            /\ ridx[p] = SlotOf(m + 1) /\ Marked(p)' = m + 1
            /\ m + 1 + MaxChunks > N
        <5>1. m + 1 \in Live /\ m \in Nat /\ m < N /\ N \in Nat /\ MaxChunks \in Nat \ {0}
              /\ ridx[p] = SlotOf(m + 1) /\ Marked(p)' = m + 1
          BY <1>10, <3>4
        <5> HIDE DEF m
        <5>2. m + 1 + MaxChunks > N + (IF Filling THEN 1 ELSE 0)
          BY <5>1, LiveFacts
        <5> QED BY <5>1, <5>2
      <4> HIDE DEF m
      <4>2. CASE k = m + 1
        BY <1>3, <1>4, <3>1, <4>1, <4>2
      <4>3. CASE k # m + 1
        <5>1. k \in Nat \ {0} /\ m + 1 \in Nat \ {0}
              /\ (k < m + 1 => m + 1 < k + MaxChunks) /\ (m + 1 < k => k < m + 1 + MaxChunks)
              /\ (k < m + 1 \/ m + 1 < k)
          BY <3>1, <4>1, <4>3
        <5>2. SlotOf(k) # SlotOf(m + 1)
          BY <5>1, SlotOfProperties
        <5>3. mem'[<<p, SlotOf(k)>>] = mem[<<p, SlotOf(k)>>]
          BY <1>3, <1>4, <3>1, <4>1, <5>2
        <5>4. mem[<<p, SlotOf(k)>>] = 1 <=> k <= m
          BY <3>1, <3>4 DEF m
        <5>5. k <= m <=> k <= Marked(p)'
          BY <3>1, <4>1, <4>3
        <5> QED BY <5>3, <5>4, <5>5
      <4> QED BY <4>2, <4>3
    <3> QED BY <3>1, <3>2, <3>3, <3>4
  <2>2. \A k \in Slot : k >= Len(log) => mem'[<<"written", k>>] = 0
    BY <1>3, <1>4 DEF QueueInv, SlotsInv
  <2> QED BY <1>2, <1>5, <2>1, <2>2 DEF SlotsInv, SlotOf
<1>12. PatientInv'
  <2> SUFFICES ASSUME NEW r \in Patient
               PROVE  /\ taken'[r] \in Seq(Msg) /\ Len(taken'[r]) <= Sent
                      /\ \A k \in 1 .. Len(taken'[r]) : taken'[r][k] = log[k]
                      /\ Marked(r)' <= N
                      /\ N + (IF Filling THEN 1 ELSE 0) <= Marked(r)' + MaxChunks
                      /\ ridx'[r] = Marked(r)' % MaxChunks
                      /\ rpc'[r] = "body" => mem'[<<"overflow", ridx'[r]>>] = 0
                      /\ rpc'[r] = "markBig" => mem'[<<"overflow", ridx'[r]>>] = 1
                      /\ rpc'[r] = "mark" => mem'[<<"overflow", ridx'[r]>>] = 0
                                           /\ loaded[r] = mem'[<<"body", ridx'[r]>>]
    BY <1>2, <1>5 DEF PatientInv
  <2>1. /\ taken[r] \in Seq(Msg) /\ Len(taken[r]) <= Sent
        /\ \A k \in 1 .. Len(taken[r]) : taken[r][k] = log[k]
        /\ Marked(r) <= N
        /\ N + (IF Filling THEN 1 ELSE 0) <= Marked(r) + MaxChunks
        /\ ridx[r] = Marked(r) % MaxChunks
        /\ rpc[r] = "body" => mem[<<"overflow", ridx[r]>>] = 0
        /\ rpc[r] = "markBig" => mem[<<"overflow", ridx[r]>>] = 1
        /\ rpc[r] = "mark" => mem[<<"overflow", ridx[r]>>] = 0 /\ loaded[r] = mem[<<"body", ridx[r]>>]
    BY DEF QueueInv, PatientInv
  <2>2. r \in Reader /\ ridx[r] \in Slot
    BY <1>3 DEF Patient
  <2>3. CASE r # p
    <3>1. mem'[<<"overflow", ridx[r]>>] = mem[<<"overflow", ridx[r]>>] /\ mem'[<<"body", ridx[r]>>] = mem[<<"body", ridx[r]>>]
      BY <1>3, <1>4, <2>2
    <3>2. Marked(r)' = Marked(r) /\ rpc'[r] = rpc[r] /\ ridx'[r] = ridx[r] /\ taken'[r] = taken[r]
      BY <1>8, <1>9, <2>2, <2>3
    <3> QED BY <2>1, <3>1, <3>2
  <2>4. CASE r = p
    <3> DEFINE m == Marked(p)
    <3>1. /\ m = Len(taken[p]) /\ m \in Nat /\ m < N /\ N \in Nat /\ MaxChunks \in Nat \ {0}
          /\ Marked(p)' = m + 1 /\ ridx[p] = m % MaxChunks /\ ridx[p] = SlotOf(m + 1)
      BY <1>10, <2>1, <2>4
    <3>2. rpc'[p] \notin {"body", "mark", "markBig"}
      BY <1>2, <1>3
    <3>3. ridx'[p] = (m + 1) % MaxChunks
      <4>1. ridx'[p] = (ridx[p] + 1) % MaxChunks
        BY <1>2, <1>3
      <4> HIDE DEF m
      <4> QED BY <3>1, <4>1, ModStep
    <3>4. Marked(p)' <= N /\ N + (IF Filling THEN 1 ELSE 0) <= Marked(p)' + MaxChunks
      <4>1. N + (IF Filling THEN 1 ELSE 0) <= m + MaxChunks
        BY <2>1, <2>4
      <4> HIDE DEF m
      <4> QED BY <3>1, <4>1
    <3>5. CASE rpc[p] = "mark"
      <4>1. /\ taken'[p] \in Seq(Msg) /\ Len(taken'[p]) = m + 1
            /\ \A k \in 1 .. Len(taken[p]) : taken'[p][k] = taken[p][k]
            /\ taken'[p][m + 1] = log[m + 1]
            /\ mem[<<"overflow", ridx[p]>>] = 0
        BY <1>10, <2>4, <3>5
      <4>2. m + 1 <= Sent
        <5>1. CASE Unsent
          <6>1. mem[<<"overflow", SlotOf(N)>>] = 1 /\ Sent = N - 1
            BY <5>1 DEF QueueInv, FillInv, Sent
          <6> HIDE DEF m
          <6>2. ASSUME m + 1 = N PROVE FALSE
            <7>1. SlotOf(m + 1) = SlotOf(N)
              BY <6>2
            <7>2. mem[<<"overflow", SlotOf(m + 1)>>] = 0
              BY <3>1, <4>1
            <7>3. mem[<<"overflow", SlotOf(m + 1)>>] = 1
              BY <6>1, <7>1
            <7> QED BY <7>2, <7>3
          <6> QED BY <3>1, <6>1, <6>2
        <5>2. CASE ~Unsent
          <6>1. Sent = N
            BY <3>1, <5>2 DEF Sent
          <6> HIDE DEF m
          <6> QED BY <3>1, <6>1
        <5> QED BY <5>1, <5>2
      <4>3. \A k \in 1 .. Len(taken'[p]) : taken'[p][k] = log[k]
        <5> HIDE DEF m
        <5>1. \A k \in 1 .. m + 1 : k \in 1 .. m \/ k = m + 1
          BY <3>1
        <5> QED BY <2>1, <2>4, <3>1, <4>1, <5>1
      <4> QED BY <2>4, <3>1, <3>2, <3>3, <3>4, <4>1, <4>2, <4>3
    <3>6. CASE rpc[p] = "markBig"
      <4>1. taken' = taken
        BY <1>10, <2>4, <3>6
      <4> QED BY <2>1, <2>4, <3>1, <3>2, <3>3, <3>4, <4>1
    <3> QED BY <1>2, <3>5, <3>6
  <2> QED BY <2>3, <2>4
<1>13. \A r \in Patient : Awaited(r)' = Awaited(r)
  <2> SUFFICES ASSUME p \in Patient
               PROVE  Awaited(p)' = Awaited(p)
    BY <1>9
  <2> DEFINE m == Marked(p)
  <2>1. /\ m = Len(taken[p]) /\ m \in Nat /\ m < N /\ N \in Nat
        /\ Marked(p)' = m + 1 /\ ridx[p] = SlotOf(m + 1)
    BY <1>10
  <2>2. \A k \in 1 .. N : mem'[<<"overflow", SlotOf(k)>>] = mem[<<"overflow", SlotOf(k)>>]
    <3>1. \A k \in 1 .. N : SlotOf(k) \in Slot
      BY QueueTypes, SlotOfProperties
    <3> QED BY <1>3, <1>4, <3>1
  <2>3. Awaited(p) = {k \in 1 .. N : k > m /\ (k <= m \/ mem[<<"overflow", SlotOf(k)>>] = 1)}
    BY <2>1 DEF Awaited
  <2>4. Awaited(p)' = {k \in 1 .. N : k > Len(taken'[p]) /\ (k <= m + 1 \/ mem[<<"overflow", SlotOf(k)>>] = 1)}
    <3>1. Awaited(p)' = {k \in 1 .. N : k > Len(taken'[p]) /\ (k <= Marked(p)' \/ mem'[<<"overflow", SlotOf(k)>>] = 1)}
      BY <1>2 DEF Awaited, SlotOf
    <3> QED BY <2>1, <2>2, <3>1
  <2>5. CASE rpc[p] = "mark"
    <3>1. Len(taken'[p]) = m + 1 /\ mem[<<"overflow", SlotOf(m + 1)>>] = 0
      BY <1>10, <2>1, <2>5
    <3> HIDE DEF m
    <3> QED BY <2>1, <2>3, <2>4, <3>1
  <2>6. CASE rpc[p] = "markBig"
    <3>1. Len(taken'[p]) = m /\ mem[<<"overflow", SlotOf(m + 1)>>] = 1
      BY <1>10, <2>1, <2>6
    <3> HIDE DEF m
    <3> QED BY <2>1, <2>3, <2>4, <3>1
  <2> QED BY <1>2, <2>5, <2>6
<1>14. SocketInv'
  BY <1>2, <1>5, <1>13 DEF QueueInv, SocketInv, Increasing
<1>15. p \in Patient /\ rpc[p] = "mark" =>
          Len(taken[p]) < Len(log) /\ loaded[p] = log[Len(taken[p]) + 1]
  BY <1>10
<1> QED BY <1>1, <1>6, <1>7, <1>11, <1>12, <1>14, <1>15 DEF QueueInv

LEMMA MsgIsNat ==
    ASSUME NEW s \in Seq(Msg)
    PROVE  \A i \in 1 .. Len(s) : s[i] \in Nat
BY RingAssumption DEF Msg

(* The payload that a reader without deadline receives is that of the slot
   that it has marked: the socket holds the large messages it has not taken,
   in the order of the log. *)
LEMMA HeadIsNext ==
    ASSUME QueueInv, NEW p \in Patient, rpc[p] = "recv", socket[p] # <<>>
    PROVE  /\ Len(taken[p]) \in Nat /\ Marked(p) = Len(taken[p]) + 1
           /\ Len(taken[p]) + 1 <= Sent /\ Len(taken[p]) + 1 \in 1 .. Len(log)
           /\ socket[p] \in Seq(Msg) /\ Len(socket[p]) > 0
           /\ socket[p][1] = log[Len(taken[p]) + 1]
<1> DEFINE m == Len(taken[p])
           N == Len(log)
<1>1. m \in Nat /\ N \in Nat /\ Marked(p) = m + 1 /\ Sent \in Int /\ Sent <= N
  BY QueueTypes DEF Sent
<1>2. /\ Marked(p) <= N /\ socket[p] \in Seq(Msg) /\ Increasing(socket[p])
      /\ log \in Seq(Msg) /\ Increasing(log)
  BY DEF QueueInv, PatientInv, SocketInv, LogInv
<1>3. Len(socket[p]) \in Nat /\ Len(socket[p]) > 0 /\ 1 \in 1 .. Len(socket[p])
  BY <1>2
<1>4. PICK k \in Awaited(p) : k <= Sent /\ socket[p][1] = log[k]
  BY <1>3 DEF QueueInv, SocketInv
<1>5. k \in 1 .. N /\ k > m
  BY DEF Awaited
<1> HIDE DEF m, N
<1>6. m + 1 <= Sent /\ m + 1 \in 1 .. N /\ m + 1 <= k
  BY <1>1, <1>2, <1>4, <1>5
<1>7. m + 1 \in Awaited(p)
  BY <1>1, <1>6 DEF Awaited, m, N
<1>8. PICK i \in 1 .. Len(socket[p]) : socket[p][i] = log[m + 1]
  BY <1>6, <1>7 DEF QueueInv, SocketInv
<1>9. i = 1
  <2> SUFFICES ASSUME i > 1 PROVE FALSE
    BY <1>3
  <2>1. socket[p][1] < socket[p][i]
    BY <1>2, <1>3 DEF Increasing
  <2>2. log[m + 1] <= log[k]
    <3>1. log[m + 1] \in Nat /\ log[k] \in Nat
      BY <1>2, <1>5, <1>6, MsgIsNat DEF N
    <3>2. m + 1 < k => log[m + 1] < log[k]
      BY <1>2, <1>5, <1>6 DEF Increasing, N
    <3>3. m + 1 = k \/ m + 1 < k
      BY <1>1, <1>5, <1>6
    <3>4. CASE m + 1 = k
      BY <3>1, <3>4
    <3>5. CASE m + 1 < k
      BY <3>1, <3>2, <3>5
    <3> QED BY <3>3, <3>4, <3>5
  <2>3. log[m + 1] \in Nat /\ log[k] \in Nat
    BY <1>2, <1>5, <1>6, MsgIsNat DEF N
  <2> QED BY <1>4, <1>8, <2>1, <2>2, <2>3
<1> QED BY <1>1, <1>2, <1>3, <1>6, <1>8, <1>9 DEF m, N

(* A reader gets the payload of a large message, or gives up waiting for it:
   then its calls have a deadline. *)
LEMMA QueueRecv ==
    ASSUME QueueInv, HistoryInv, NEW p \in Reader, RecvPayload(p) \/ RecvTimeout(p)
    PROVE  /\ QueueInv'
           /\ p \in Patient =>
                 /\ RecvPayload(p) /\ Len(taken[p]) < Len(log)
                 /\ Head(socket[p]) = log[Len(taken[p]) + 1]
<1> USE DEF writerVars, readerVars, shutVars
<1> DEFINE N == Len(log)
<1>1. RingInv'
  BY RingReader DEF Reads, QueueInv
<1>2. /\ rpc[p] = "recv" /\ rpc' = [rpc EXCEPT ![p] = "flag"]
      /\ UNCHANGED <<mem, stores, writerVars, ridx, loaded, log>>
  BY DEF RecvPayload, RecvTimeout
<1>3. p \in Patient => RecvPayload(p)
  BY DEF RecvTimeout, Patient
<1>4. \A r \in Reader : r # p => rpc'[r] = rpc[r] /\ taken'[r] = taken[r] /\ socket'[r] = socket[r]
  <2>1. \A r \in Reader : r # p => rpc'[r] = rpc[r]
    BY <1>2 DEF QueueInv, RingInv, LocalInv
  <2>2. \A r \in Reader : r # p => taken'[r] = taken[r]
    BY DEF RecvPayload, RecvTimeout, HistoryInv
  <2>3. \A r \in Reader : r # p => socket'[r] = socket[r]
    BY DEF RecvPayload, RecvTimeout, HistoryInv
  <2> QED BY <2>1, <2>2, <2>3
<1>5. /\ (Committed' <=> Committed) /\ (Filling' <=> Filling) /\ (Unsent' <=> Unsent)
      /\ Sent' = Sent /\ Live' = Live
  BY <1>2 DEF Committed, Filling, Unsent, Sent, Live
<1>6. LogInv' /\ FillInv'
  <2>1. LogInv'
    BY <1>2, <1>5 DEF QueueInv, LogInv, Increasing
  <2>2. FillInv'
    BY <1>2, <1>5 DEF QueueInv, FillInv, SlotOf
  <2> QED BY <2>1, <2>2
<1>7. ASSUME NEW r \in Patient, r # p
      PROVE  Marked(r)' = Marked(r) /\ Awaited(r)' = Awaited(r)
  <2>1. r \in Reader
    BY DEF Patient
  <2> QED BY <1>2, <1>4, <1>7, <2>1 DEF Marked, Awaited, SlotOf
<1>8. ASSUME p \in Patient
      PROVE  /\ Len(taken[p]) \in Nat /\ N \in Nat /\ Sent \in Int
             /\ Len(taken[p]) + 1 <= Sent /\ Len(taken[p]) + 1 \in 1 .. N
             /\ socket[p] \in Seq(Msg) /\ Len(socket[p]) > 0
             /\ socket[p][1] = log[Len(taken[p]) + 1]
             /\ Head(socket[p]) = log[Len(taken[p]) + 1]
             /\ taken'[p] \in Seq(Msg) /\ Len(taken'[p]) = Len(taken[p]) + 1
             /\ \A k \in 1 .. Len(taken[p]) : taken'[p][k] = taken[p][k]
             /\ taken'[p][Len(taken[p]) + 1] = log[Len(taken[p]) + 1]
             /\ socket'[p] \in Seq(Msg) /\ Len(socket'[p]) = Len(socket[p]) - 1
             /\ \A i \in 1 .. Len(socket'[p]) : socket'[p][i] = socket[p][i + 1]
             /\ rpc'[p] = "flag"
             /\ Marked(p) = Len(taken[p]) + 1 /\ Marked(p)' = Marked(p)
  <2>1. /\ socket[p] # <<>> /\ taken' = [taken EXCEPT ![p] = Append(taken[p], Head(socket[p]))]
        /\ socket' = [socket EXCEPT ![p] = Tail(socket[p])]
    BY <1>3, <1>8 DEF RecvPayload
  <2>2. taken'[p] = Append(taken[p], Head(socket[p])) /\ socket'[p] = Tail(socket[p])
    BY <2>1 DEF HistoryInv
  <2>3. /\ Len(taken[p]) \in Nat /\ Marked(p) = Len(taken[p]) + 1
        /\ Len(taken[p]) + 1 <= Sent /\ Len(taken[p]) + 1 \in 1 .. N
        /\ socket[p] \in Seq(Msg) /\ Len(socket[p]) > 0
        /\ socket[p][1] = log[Len(taken[p]) + 1]
    BY <1>2, <1>8, <2>1, HeadIsNext
  <2>4. Head(socket[p]) = socket[p][1] /\ Head(socket[p]) \in Msg
    BY <2>1, <2>3, HeadTailProperties
  <2>5. taken[p] \in Seq(Msg)
    BY <1>8 DEF QueueInv, PatientInv
  <2>6. /\ taken'[p] \in Seq(Msg) /\ Len(taken'[p]) = Len(taken[p]) + 1
        /\ \A k \in 1 .. Len(taken[p]) : taken'[p][k] = taken[p][k]
        /\ taken'[p][Len(taken[p]) + 1] = Head(socket[p])
    BY <2>2, <2>4, <2>5, AppendProperties
  <2>7. /\ socket'[p] \in Seq(Msg) /\ Len(socket'[p]) = Len(socket[p]) - 1
        /\ \A i \in 1 .. Len(socket'[p]) : socket'[p][i] = socket[p][i + 1]
    <3>1. /\ Tail(socket[p]) \in Seq(Msg) /\ Len(Tail(socket[p])) = Len(socket[p]) - 1
          /\ \A i \in 1 .. Len(Tail(socket[p])) : Tail(socket[p])[i] = socket[p][i + 1]
      BY <2>1, <2>3, HeadTailProperties
    <3> QED BY <2>2, <3>1
  <2>8. rpc'[p] = "flag"
    BY <1>2 DEF QueueInv, RingInv, LocalInv
  <2>9. Marked(p)' = Marked(p)
    <3>1. Len(taken'[p]) \in Nat
      BY <2>6
    <3>2. Marked(p)' = Len(taken'[p])
      BY <2>8, <3>1 DEF Marked
    <3> QED BY <2>3, <2>6, <3>2
  <2> QED BY <2>3, <2>4, <2>6, <2>7, <2>8, <2>9, QueueTypes
<1>9. \A r \in Patient : Marked(r)' = Marked(r)
  BY <1>7, <1>8
<1>10. SlotsInv'
  BY <1>2, <1>5, <1>9 DEF QueueInv, SlotsInv, SlotOf
<1>11. PatientInv'
  <2> SUFFICES ASSUME NEW r \in Patient
               PROVE  /\ taken'[r] \in Seq(Msg) /\ Len(taken'[r]) <= Sent
                      /\ \A k \in 1 .. Len(taken'[r]) : taken'[r][k] = log[k]
                      /\ Marked(r) <= N
                      /\ N + (IF Filling THEN 1 ELSE 0) <= Marked(r) + MaxChunks
                      /\ ridx[r] = Marked(r) % MaxChunks
                      /\ rpc'[r] = "body" => mem[<<"overflow", ridx[r]>>] = 0
                      /\ rpc'[r] = "markBig" => mem[<<"overflow", ridx[r]>>] = 1
                      /\ rpc'[r] = "mark" => mem[<<"overflow", ridx[r]>>] = 0
                                           /\ loaded[r] = mem[<<"body", ridx[r]>>]
    BY <1>2, <1>5, <1>9 DEF PatientInv
  <2>1. /\ taken[r] \in Seq(Msg) /\ Len(taken[r]) <= Sent
        /\ \A k \in 1 .. Len(taken[r]) : taken[r][k] = log[k]
        /\ Marked(r) <= N
        /\ N + (IF Filling THEN 1 ELSE 0) <= Marked(r) + MaxChunks
        /\ ridx[r] = Marked(r) % MaxChunks
        /\ rpc[r] = "body" => mem[<<"overflow", ridx[r]>>] = 0
        /\ rpc[r] = "markBig" => mem[<<"overflow", ridx[r]>>] = 1
        /\ rpc[r] = "mark" => mem[<<"overflow", ridx[r]>>] = 0 /\ loaded[r] = mem[<<"body", ridx[r]>>]
    BY DEF QueueInv, PatientInv
  <2>2. CASE r # p
    <3>1. rpc'[r] = rpc[r] /\ taken'[r] = taken[r]
      BY <1>4, <2>2 DEF Patient
    <3> QED BY <2>1, <3>1
  <2>3. CASE r = p
    <3> DEFINE m == Len(taken[p])
    <3>1. /\ m \in Nat /\ m + 1 <= Sent /\ taken'[p] \in Seq(Msg) /\ Len(taken'[p]) = m + 1
          /\ \A k \in 1 .. m : taken'[p][k] = taken[p][k]
          /\ taken'[p][m + 1] = log[m + 1] /\ rpc'[p] = "flag"
      BY <1>8, <2>3
    <3>2. \A k \in 1 .. m : taken[p][k] = log[k]
      BY <2>1, <2>3
    <3> HIDE DEF m
    <3>3. \A k \in 1 .. m + 1 : k \in 1 .. m \/ k = m + 1
      BY <3>1
    <3>4. \A k \in 1 .. Len(taken'[p]) : taken'[p][k] = log[k]
      BY <3>1, <3>2, <3>3
    <3> QED BY <2>1, <2>3, <3>1, <3>4
  <2> QED BY <2>2, <2>3
<1>12. SocketInv'
  <2> SUFFICES ASSUME NEW r \in Patient
               PROVE  /\ socket'[r] \in Seq(Msg) /\ Increasing(socket'[r])
                      /\ \A i \in 1 .. Len(socket'[r]) :
                            \E k \in Awaited(r)' : k <= Sent /\ socket'[r][i] = log[k]
                      /\ \A k \in Awaited(r)' :
                            k <= Sent => \E i \in 1 .. Len(socket'[r]) : socket'[r][i] = log[k]
    BY <1>2, <1>5 DEF SocketInv, Increasing
  <2>1. /\ socket[r] \in Seq(Msg) /\ Increasing(socket[r])
        /\ \A i \in 1 .. Len(socket[r]) :
              \E k \in Awaited(r) : k <= Sent /\ socket[r][i] = log[k]
        /\ \A k \in Awaited(r) :
              k <= Sent => \E i \in 1 .. Len(socket[r]) : socket[r][i] = log[k]
    BY DEF QueueInv, SocketInv
  <2>2. CASE r # p
    <3>1. socket'[r] = socket[r]
      BY <1>4, <2>2 DEF Patient
    <3> QED BY <1>7, <2>1, <2>2, <3>1
  <2>3. CASE r = p
    <3> DEFINE m == Len(taken[p])
               s == socket[p]
               t == socket'[p]
    <3>1. /\ m \in Nat /\ N \in Nat /\ m + 1 \in 1 .. N /\ Len(taken'[p]) = m + 1
          /\ s \in Seq(Msg) /\ Len(s) \in Nat /\ Len(s) > 0 /\ s[1] = log[m + 1]
          /\ t \in Seq(Msg) /\ Len(t) = Len(s) - 1 /\ \A i \in 1 .. Len(t) : t[i] = s[i + 1]
          /\ Marked(p) = m + 1 /\ Marked(p)' = m + 1
      BY <1>8, <2>3
    <3>2. /\ Increasing(s) /\ log \in Seq(Msg) /\ Increasing(log)
          /\ \A i \in 1 .. Len(s) : \E k \in Awaited(p) : k <= Sent /\ s[i] = log[k]
          /\ \A k \in Awaited(p) : k <= Sent => \E i \in 1 .. Len(s) : s[i] = log[k]
      BY <2>1, <2>3 DEF QueueInv, LogInv
    <3>3. /\ Awaited(p) = {k \in 1 .. N : k > m /\ (k <= m + 1 \/ mem[<<"overflow", SlotOf(k)>>] = 1)}
          /\ Awaited(p)' = {k \in 1 .. N : k > m + 1 /\ (k <= m + 1 \/ mem[<<"overflow", SlotOf(k)>>] = 1)}
      BY <1>2, <3>1 DEF Awaited, SlotOf
    <3> HIDE DEF m, s, t, N
    <3>4. \A k : k \in Awaited(p)' <=> k \in Awaited(p) /\ k # m + 1
      BY <3>1, <3>3
    <3>5. Increasing(t)
      <4> SUFFICES ASSUME NEW i \in 1 .. Len(t), NEW j \in 1 .. Len(t), i < j
                   PROVE  t[i] < t[j]
        BY DEF Increasing
      <4>1. i + 1 \in 1 .. Len(s) /\ j + 1 \in 1 .. Len(s) /\ i + 1 < j + 1
        BY <3>1
      <4>2. s[i + 1] < s[j + 1]
        BY <3>2, <4>1 DEF Increasing
      <4> QED BY <3>1, <4>2
    <3>6. ASSUME NEW i \in 1 .. Len(t)
          PROVE  \E k \in Awaited(p)' : k <= Sent /\ t[i] = log[k]
      <4>1. i + 1 \in 1 .. Len(s) /\ 1 \in 1 .. Len(s) /\ 1 < i + 1 /\ t[i] = s[i + 1]
        BY <3>1
      <4>2. s[1] < s[i + 1] /\ s[1] \in Nat /\ s[i + 1] \in Nat
        BY <3>1, <3>2, <4>1, MsgIsNat DEF Increasing
      <4>3. PICK k \in Awaited(p) : k <= Sent /\ s[i + 1] = log[k]
        BY <3>2, <4>1
      <4>4. k # m + 1
        BY <3>1, <4>2, <4>3
      <4>5. k \in Awaited(p)'
        BY <3>4, <4>4
      <4> QED BY <4>1, <4>3, <4>5
    <3>7. ASSUME NEW k \in Awaited(p)', k <= Sent
          PROVE  \E i \in 1 .. Len(t) : t[i] = log[k]
      <4>1. k \in Awaited(p) /\ k \in 1 .. N /\ k > m + 1
        BY <3>3, <3>4
      <4>2. PICK j \in 1 .. Len(s) : s[j] = log[k]
        BY <3>2, <3>7, <4>1
      <4>3. log[m + 1] < log[k] /\ log[k] \in Nat /\ log[m + 1] \in Nat
        BY <3>1, <3>2, <4>1, MsgIsNat DEF Increasing, N
      <4>4. j # 1
        BY <3>1, <4>2, <4>3
      <4>5. j - 1 \in 1 .. Len(t) /\ (j - 1) + 1 = j
        BY <3>1, <4>4
      <4>6. t[j - 1] = log[k]
        BY <3>1, <4>2, <4>5
      <4> QED BY <4>5, <4>6
    <3> QED BY <2>3, <3>1, <3>5, <3>6, <3>7 DEF t
  <2> QED BY <2>2, <2>3
<1>13. p \in Patient =>
          /\ RecvPayload(p) /\ Len(taken[p]) < Len(log)
          /\ Head(socket[p]) = log[Len(taken[p]) + 1]
  BY <1>3, <1>8
<1> QED BY <1>1, <1>6, <1>10, <1>11, <1>12, <1>13 DEF QueueInv

(* The histories keep their types. *)
LEMMA HistoryStep ==
    ASSUME QueueInv, HistoryInv, Next PROVE HistoryInv'
<1> USE DEF writerVars, readerVars, shutVars
<1>1. Msg \subseteq 0 .. MaxMsgs
  BY RingAssumption DEF Msg
<1>2. CASE SendPayload
  <2>1. msg \in Msg
    BY <1>2 DEF SendPayload, QueueInv, RingInv, LocalInv
  <2>2. \A r \in Reader : Append(socket[r], msg) \in Seq(Msg)
    BY <2>1, AppendProperties DEF HistoryInv
  <2> QED BY <1>2, <2>2 DEF SendPayload, HistoryInv
<1>3. ASSUME NEW r \in Reader, MarkRead(r)
      PROVE  HistoryInv'
  <2>1. loaded[r] \in 0 .. MaxMsgs /\ taken[r] \in Seq(0 .. MaxMsgs)
    BY DEF QueueInv, RingInv, LocalInv, HistoryInv
  <2>2. Append(taken[r], loaded[r]) \in Seq(0 .. MaxMsgs)
    BY <2>1, AppendProperties
  <2>3. taken' = taken \/ taken' = [taken EXCEPT ![r] = Append(taken[r], loaded[r])]
    BY <1>3 DEF MarkRead
  <2>4. taken' \in [Reader -> Seq(0 .. MaxMsgs)]
    BY <2>2, <2>3 DEF HistoryInv
  <2> QED BY <1>3, <2>4 DEF MarkRead, HistoryInv
<1>4. ASSUME NEW r \in Reader, RecvPayload(r)
      PROVE  HistoryInv'
  <2>1. socket[r] \in Seq(Msg) /\ socket[r] # <<>> /\ taken[r] \in Seq(0 .. MaxMsgs)
    BY <1>4 DEF RecvPayload, HistoryInv
  <2>2. Head(socket[r]) \in Msg /\ Tail(socket[r]) \in Seq(Msg)
    BY <2>1, HeadTailProperties
  <2>3. Head(socket[r]) \in 0 .. MaxMsgs
    BY <1>1, <2>2
  <2>4. Append(taken[r], Head(socket[r])) \in Seq(0 .. MaxMsgs)
    BY <2>1, <2>3, AppendProperties
  <2> QED BY <1>4, <2>2, <2>4 DEF RecvPayload, HistoryInv
<1>5. ASSUME UNCHANGED <<taken, socket>>
      PROVE  HistoryInv'
  BY <1>5 DEF HistoryInv
<1>6. CASE Enqueue \/ Fill \/ Publish \/ Advance \/ Notify \/ WriteTimeout \/ Commit
  <2>1. UNCHANGED <<taken, socket>>
    BY <1>6 DEF Enqueue, Fill, Publish, Advance, Notify, WriteTimeout, Commit
  <2> QED BY <1>5, <2>1
<1>7. ASSUME NEW r \in Reader,
             CheckReadFlag(r) \/ CheckWritten(r) \/ Waits(r) \/ ReadOverflow(r) \/ ReadBody(r)
               \/ WaitYields(r) \/ RecvTimeout(r) \/ SetShuttingDown(r) \/ Cancel(r)
      PROVE  HistoryInv'
  <2>1. UNCHANGED <<taken, socket>>
    BY <1>7 DEF CheckReadFlag, CheckWritten, Waits, ReadOverflow, ReadBody, WaitYields, WaitNotified,
                WaitCancelled, WaitTimedOut, Rechecks, RecvTimeout, SetShuttingDown, Cancel
  <2> QED BY <1>5, <2>1
<1> QED BY <1>2, <1>3, <1>4, <1>6, <1>7 DEF Next, Write, Reads

LEMMA QueueStep ==
    ASSUME QueueInv, HistoryInv, StoresInOrder, [Next]_vars
    PROVE  QueueInv' /\ HistoryInv'
<1>1. CASE Next
  <2>1. ASSUME Enqueue \/ Write \/ WriteTimeout PROVE QueueInv'
    BY <2>1, QueueEnqueue, QueueFill, QueuePublish, QueueAdvance, QueueSend, QueueQuiet DEF Write
  <2>2. ASSUME Commit PROVE QueueInv'
    <3>1. wpc = "publish" \/ wpc = "advance"
      BY <2>2 DEF Commit, QueueInv, RingInv, StoresInv
    <3> QED BY <2>2, <3>1, QueueCommitFill, QueueCommitPublish
  <2>3. ASSUME NEW r \in Reader,
               Reads(r) \/ WaitYields(r) \/ RecvTimeout(r) \/ SetShuttingDown(r) \/ Cancel(r)
        PROVE  QueueInv'
    BY <2>3, QueueLook, QueueStop, QueueMark, QueueRecv DEF Reads
  <2>4. QueueInv'
    BY <1>1, <2>1, <2>2, <2>3 DEF Next
  <2> QED BY <1>1, <2>4, HistoryStep
<1>2. CASE UNCHANGED vars
  <2> USE <1>2 DEF vars, writerVars, readerVars, shutVars
  <2>1. RingInv'
    BY RingStep DEF QueueInv
  <2>2. /\ (Committed' <=> Committed) /\ (Filling' <=> Filling) /\ (Unsent' <=> Unsent)
        /\ Sent' = Sent /\ Live' = Live
    BY DEF Committed, Filling, Unsent, Sent, Live
  <2>3. \A r \in Patient : Marked(r)' = Marked(r) /\ Awaited(r)' = Awaited(r)
    BY DEF Marked, Awaited, SlotOf
  <2>4. LogInv'
    BY <2>2 DEF QueueInv, LogInv, Increasing
  <2>5. FillInv'
    BY <2>2 DEF QueueInv, FillInv, SlotOf
  <2>6. SlotsInv'
    BY <2>2, <2>3 DEF QueueInv, SlotsInv, SlotOf
  <2>7. PatientInv'
    BY <2>2, <2>3 DEF QueueInv, PatientInv
  <2>8. SocketInv'
    BY <2>2, <2>3 DEF QueueInv, SocketInv, Increasing
  <2> QED BY <2>1, <2>4, <2>5, <2>6, <2>7, <2>8 DEF QueueInv, HistoryInv
<1> QED BY <1>1, <1>2

LEMMA QueueInvariant == ASSUME StoresInOrder PROVE Spec => [](QueueInv /\ HistoryInv)
<1>1. Init => QueueInv /\ HistoryInv
  <2>1. Init => HistoryInv
    BY DEF Init, HistoryInv
  <2> QED BY <2>1, QueueInit
<1>2. (QueueInv /\ HistoryInv) /\ [Next]_vars => (QueueInv /\ HistoryInv)'
  BY QueueStep
<1> QED BY <1>1, <1>2, PTL DEF Spec
-----------------------------------------------------------------------------
(* The variables of the broadcast queue. *)
takenBar == [r \in Patient |-> taken[r]]
leftBar == Readers({"cancelled"}) \cap Patient

(* The store that publishes a slot sends the message. *)
LEMMA CommitSends ==
    ASSUME QueueInv, StoresInOrder, Commit
    PROVE  [Broadcast!Next]_<<log, takenBar, leftBar>>
<1> USE DEF readerVars, writerVars
<1>1. UNCHANGED <<takenBar, leftBar>>
  BY DEF Commit, takenBar, leftBar, Readers
<1>2. CASE wpc = "publish"
  <2>1. log' = log
    BY <1>2, QueueCommitFill
  <2> QED BY <1>1, <2>1
<1>3. CASE wpc = "advance"
  <2>1. /\ log' = Append(log, msg) /\ msg \in Msg
        /\ \A r \in Patient : Len(log) + 1 <= Marked(r) + MaxChunks
    BY <1>3, QueueCommitPublish
  <2>2. \A r \in Patient : Len(log) < Len(takenBar[r]) + (MaxChunks + 1)
    <3> SUFFICES ASSUME NEW r \in Patient
                 PROVE  Len(log) < Len(takenBar[r]) + (MaxChunks + 1)
      OBVIOUS
    <3>1. takenBar[r] = taken[r]
      BY DEF takenBar
    <3>2. Len(taken[r]) \in Nat /\ Len(log) \in Nat /\ MaxChunks \in Nat /\ Marked(r) \in Nat
          /\ (Marked(r) = Len(taken[r]) \/ Marked(r) = Len(taken[r]) + 1)
      BY QueueTypes
    <3>3. Len(log) + 1 <= Marked(r) + MaxChunks
      BY <2>1
    <3>4. Len(log) < Len(taken[r]) + (MaxChunks + 1)
      <4> DEFINE n == Len(log)
                 t == Len(taken[r])
                 m == Marked(r)
      <4>1. t \in Nat /\ n \in Nat /\ MaxChunks \in Nat /\ m \in Nat /\ (m = t \/ m = t + 1)
            /\ n + 1 <= m + MaxChunks
        BY <3>2, <3>3
      <4> HIDE DEF n, t, m
      <4>2. n < t + (MaxChunks + 1)
        BY <4>1
      <4> QED BY <4>2 DEF n, t
    <3> QED BY <3>1, <3>4
  <2>3. Broadcast!Send(msg)
    BY <1>1, <2>1, <2>2 DEF Broadcast!Send, takenBar, leftBar
  <2> QED BY <2>1, <2>3 DEF Broadcast!Next
<1>4. wpc = "publish" \/ wpc = "advance"
  BY DEF Commit, QueueInv, RingInv, StoresInv
<1> QED BY <1>2, <1>3, <1>4

(* A reader that marks a slot as read, or receives a payload, takes the next
   message; for a large message the mark itself is not visible. *)
LEMMA ReaderTakes ==
    ASSUME QueueInv, HistoryInv, NEW p \in Reader, NEW m, NEW loc,
           rpc[p] # "cancelled", loc # "cancelled", rpc' = [rpc EXCEPT ![p] = loc], log' = log,
           taken' = [taken EXCEPT ![p] = Append(taken[p], m)],
           p \in Patient => Len(taken[p]) < Len(log) /\ m = log[Len(taken[p]) + 1]
    PROVE  [Broadcast!Next]_<<log, takenBar, leftBar>>
<1>1. leftBar' = leftBar /\ p \notin leftBar
  BY DEF leftBar, Readers, QueueInv, RingInv, LocalInv
<1>2. \A r \in Reader : taken'[r] = IF r = p THEN Append(taken[p], m) ELSE taken[r]
  BY DEF HistoryInv
<1>3. CASE p \notin Patient
  <2>1. takenBar' = takenBar
    BY <1>2, <1>3 DEF takenBar, Patient
  <2> QED BY <1>1, <2>1
<1>4. CASE p \in Patient
  <2>1. takenBar[p] = taken[p]
    BY <1>4 DEF takenBar
  <2>2. takenBar' = [takenBar EXCEPT ![p] = Append(takenBar[p], log[Len(takenBar[p]) + 1])]
    BY <1>2, <1>4, <2>1 DEF takenBar, Patient
  <2>3. Broadcast!Take(p)
    BY <1>1, <1>4, <2>1, <2>2 DEF Broadcast!Take, takenBar, leftBar
  <2> QED BY <1>4, <2>3 DEF Broadcast!Next
<1> QED BY <1>3, <1>4

LEMMA QueueRefines ==
    ASSUME QueueInv, HistoryInv, StoresInOrder, [Next]_vars
    PROVE  [Broadcast!Next]_<<log, takenBar, leftBar>>
<1> USE DEF writerVars, readerVars, shutVars
<1>1. CASE Enqueue \/ Write \/ WriteTimeout \/ UNCHANGED vars
  <2>1. UNCHANGED <<log, taken, rpc>>
    BY <1>1 DEF Enqueue, Write, Fill, Publish, Advance, SendPayload, Notify, WriteTimeout, vars
  <2> QED BY <2>1 DEF takenBar, leftBar, Readers
<1>2. CASE Commit
  BY <1>2, CommitSends
<1>3. ASSUME NEW p \in Reader, Waits(p) \/ WaitYields(p)
      PROVE  [Broadcast!Next]_<<log, takenBar, leftBar>>
  <2>1. /\ rpc[p] = "wait" /\ UNCHANGED <<log, taken>>
        /\ rpc' = [rpc EXCEPT ![p] = IF shut[p] THEN "cancelled" ELSE "flag"]
    BY <1>3 DEF Waits, WaitYields, WaitNotified, WaitCancelled, WaitTimedOut, Rechecks
  <2>2. takenBar' = takenBar
    BY <2>1 DEF takenBar
  <2>3. CASE shut[p] /\ p \in Patient
    <3>1. leftBar' = leftBar \cup {p}
      BY <2>1, <2>3 DEF leftBar, Readers, QueueInv, RingInv, LocalInv
    <3>2. Broadcast!Leave(p)
      BY <2>1, <2>2, <3>1 DEF Broadcast!Leave, takenBar, leftBar
    <3> QED BY <2>3, <3>2 DEF Broadcast!Next
  <2>4. CASE ~(shut[p] /\ p \in Patient)
    <3>1. leftBar' = leftBar
      BY <2>1, <2>4 DEF leftBar, Readers, QueueInv, RingInv, LocalInv
    <3> QED BY <2>1, <2>2, <3>1
  <2> QED BY <2>3, <2>4
<1>4. ASSUME NEW p \in Reader,
             CheckReadFlag(p) \/ CheckWritten(p) \/ ReadOverflow(p) \/ ReadBody(p) \/ RecvTimeout(p)
               \/ SetShuttingDown(p) \/ Cancel(p) \/ (MarkRead(p) /\ rpc[p] = "markBig")
      PROVE  [Broadcast!Next]_<<log, takenBar, leftBar>>
  <2>1. /\ UNCHANGED <<log, taken>>
        /\ \/ rpc' = rpc
           \/ \E loc : loc # "cancelled" /\ rpc[p] # "cancelled" /\ rpc' = [rpc EXCEPT ![p] = loc]
    BY <1>4 DEF CheckReadFlag, CheckWritten, ReadOverflow, ReadBody, RecvTimeout, SetShuttingDown,
                Cancel, MarkRead
  <2>2. leftBar' = leftBar
    BY <2>1 DEF leftBar, Readers, QueueInv, RingInv, LocalInv
  <2> QED BY <2>1, <2>2 DEF takenBar
<1>5. ASSUME NEW p \in Reader, MarkRead(p), rpc[p] = "mark"
      PROVE  [Broadcast!Next]_<<log, takenBar, leftBar>>
  <2>1. /\ log' = log /\ rpc' = [rpc EXCEPT ![p] = "flag"]
        /\ taken' = [taken EXCEPT ![p] = Append(taken[p], loaded[p])]
    BY <1>5 DEF MarkRead
  <2>2. p \in Patient => Len(taken[p]) < Len(log) /\ loaded[p] = log[Len(taken[p]) + 1]
    BY <1>5, QueueMark
  <2> QED BY <1>5, <2>1, <2>2, ReaderTakes
<1>6. ASSUME NEW p \in Reader, RecvPayload(p)
      PROVE  [Broadcast!Next]_<<log, takenBar, leftBar>>
  <2>1. /\ log' = log /\ rpc[p] = "recv" /\ rpc' = [rpc EXCEPT ![p] = "flag"]
        /\ taken' = [taken EXCEPT ![p] = Append(taken[p], Head(socket[p]))]
    BY <1>6 DEF RecvPayload
  <2>2. p \in Patient => Len(taken[p]) < Len(log) /\ Head(socket[p]) = log[Len(taken[p]) + 1]
    BY <1>6, QueueRecv
  <2> QED BY <2>1, <2>2, ReaderTakes
<1>7. \A p \in Reader : MarkRead(p) => rpc[p] \in {"mark", "markBig"}
  BY DEF MarkRead
<1> QED BY <1>1, <1>2, <1>3, <1>4, <1>5, <1>6, <1>7 DEF Next, Reads

(* MessageQueue is a broadcast queue, for any number of readers, slots and
   messages, in the slot or through the socket: a reader whose calls have no
   deadline takes exactly the messages that acquire_write published, once and
   in order, whatever other readers do, and the writer is never more than the
   ring (and the one large message whose slot is free again) ahead of it. *)
THEOREM RingImplementsQueue == ASSUME StoresInOrder PROVE Spec => Broadcast!Safety
<1>1. Init => Broadcast!Init
  <2> SUFFICES ASSUME Init PROVE Broadcast!Init
    OBVIOUS
  <2>1. log = <<>> /\ takenBar = [r \in Patient |-> <<>>] /\ leftBar = {}
    BY DEF Init, takenBar, leftBar, Readers, Patient
  <2> QED BY <2>1 DEF Broadcast!Init, takenBar, leftBar
<1>2. (QueueInv /\ HistoryInv) /\ [Next]_vars => [Broadcast!Next]_<<log, takenBar, leftBar>>
  BY QueueRefines
<1>3. (QueueInv /\ HistoryInv) /\ [Next]_vars =>
         [Broadcast!Next]_<<log, [r \in Patient |-> taken[r]], Readers({"cancelled"}) \cap Patient>>
  BY <1>2 DEF takenBar, leftBar
<1> QED BY <1>1, <1>3, QueueInvariant, PTL DEF Spec, Broadcast!Safety
=============================================================================
