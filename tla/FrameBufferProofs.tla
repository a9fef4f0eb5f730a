-------------------------- MODULE FrameBufferProofs --------------------------
(***************************************************************************)
(* The frame buffer is a bounded queue that mixes up no memory, for any    *)
(* capacity and any number of callers.                                     *)
(***************************************************************************)
EXTENDS FrameBuffer, SequenceTheorems, TLAPS

(* The index that wraps, without the remainder. *)
LEMMA Wrap ==
    ASSUME NEW a \in Slots, NEW k \in 0 .. Capacity
    PROVE  /\ (a + k) % Capacity =
                 IF a + k < Capacity THEN a + k ELSE a + k - Capacity
           /\ (a + k) % Capacity \in Slots
  <1>1. Capacity \in Nat \ {0} BY ConstantsAssumption
  <1>2. CASE a + k < Capacity BY <1>1, <1>2, SMT DEF Slots
  <1>3. CASE a + k >= Capacity
    <2>1. a + k - Capacity \in 0 .. Capacity - 1
      BY <1>1, <1>3, SMT DEF Slots
    <2>2. (a + k) % Capacity = a + k - Capacity
      BY <1>1, <1>3, <2>1, SMT DEF Slots
    <2> QED BY <2>1, <2>2, <1>3, <1>1, SMT DEF Slots
  <1> QED BY <1>1, <1>2, <1>3, SMT DEF Slots

(* Where the k-th frame of a well-typed ring is. *)
LEMMA SlotAtIs ==
    ASSUME TypeOK, NEW k \in 0 .. Capacity
    PROVE  /\ SlotAt(k) = IF read_index + k < Capacity
                            THEN read_index + k
                            ELSE read_index + k - Capacity
           /\ SlotAt(k) \in Slots
  BY Wrap DEF SlotAt, TypeOK

(* The initial state. *)
LEMMA InitIInv == Init => IInv
  <1> SUFFICES ASSUME Init PROVE IInv OBVIOUS
  <1> USE ConstantsAssumption DEF Init
  <1>1. TypeOK
    BY DEF TypeOK, NoFrame, Slots, VideoFrames, Calls, Idle, Queue!NoResult
  <1>2. SemaphoreInv BY DEF SemaphoreInv, Inside, Idle
  <1>3. \A t \in Threads : CallInv(t) BY DEF CallInv, Idle, At, NoFrame
  <1>4. RingInv
    <2>1. SlotAt(0) = 0 BY <1>1, SlotAtIs DEF Slots
    <2> QED BY <2>1 DEF RingInv, NoFrame
  <1>5. PixelsIntact BY DEF PixelsIntact, Intact, NoFrame, Idle
  <1>6. OneOwner BY DEF OneOwner, Owning, NoFrame, Idle
  <1> QED BY <1>1, <1>2, <1>3, <1>4, <1>5, <1>6 DEF IInv

(* A caller enters; its frame is in a block nobody owned, or has none. *)
LEMMA EnterPreserves ==
    ASSUME IInv, NEW t \in Threads, NEW op \in {"push", "pop", "size"},
           NEW frame \in VideoFrames, Enter(t, op, frame),
           op # "push" => frame = NoFrame,
           op = "push" => frame.id # NULL,
           \/ frame.data = NULL /\ UNCHANGED memory
           \/ /\ frame.data # NULL /\ frame.id # NULL
              /\ memory[frame.data] = NULL
              /\ memory' = [memory EXCEPT ![frame.data] = frame.id]
    PROVE  IInv'
  <1> USE ConstantsAssumption DEF IInv, Enter, ring
  <1>a. /\ call' = [call EXCEPT ![t] = [op |-> op, pc |-> "wait",
                                         frame |-> frame]]
        /\ call[t].pc = "idle" /\ alive
        /\ UNCHANGED <<frames, count, read_index, write_index, semaphore,
                       alive, result>>
    OBVIOUS
  <1>b. /\ call'[t] = [op |-> op, pc |-> "wait", frame |-> frame]
        /\ \A s \in Threads : s # t => call'[s] = call[s]
    BY <1>a DEF TypeOK
  <1>1. TypeOK' BY <1>a DEF TypeOK, Calls, VideoFrames
  <1>2. SemaphoreInv' BY <1>a, <1>b DEF SemaphoreInv, Inside
  <1>3. ASSUME NEW s \in Threads PROVE CallInv(s)'
    <2>1. CASE s = t BY <2>1, <1>b DEF CallInv, At
    <2>2. CASE s # t BY <2>2, <1>a, <1>b DEF CallInv, At
    <2> QED BY <2>1, <2>2
  <1>4. RingInv'
    <2>1. SlotAt(0)' = SlotAt(0) /\ \A k : SlotAt(k)' = SlotAt(k)
      BY <1>a DEF SlotAt
    <2>2. \A s \in Threads, pc \in {"copy", "index"} :
             At(s, "push", pc) => At(s, "push", pc)'
      BY <1>a, <1>b DEF At
    <2> QED BY <2>1, <2>2, <1>a DEF RingInv
  <1>5. PixelsIntact'
    <2>1. \A b \in Blocks : memory[b] # NULL => memory'[b] = memory[b]
      BY DEF TypeOK, VideoFrames
    <2>2. \A f \in VideoFrames : Intact(f) => Intact(f)'
      BY <2>1 DEF Intact, VideoFrames
    <2>3. \A i \in Slots : Intact(frames[i])'
      BY <2>2, <1>a DEF PixelsIntact, Intact, TypeOK
    <2>4. Intact(frame)'
      BY <1>1 DEF Intact, TypeOK, VideoFrames
    <2>5. \A s \in Threads : Intact(call[s].frame)'
      BY <2>2, <2>4, <1>b DEF PixelsIntact, Intact, TypeOK, Calls
    <2> QED BY <2>3, <2>5 DEF PixelsIntact
  <1>6. OneOwner'
    <2>1. /\ \A i \in Slots : frames[i].data # NULL =>
                                frames[i].data # frame.data
          /\ \A s \in Threads : call[s].frame.data # NULL =>
                                call[s].frame.data # frame.data
      BY DEF PixelsIntact, Intact
    <2>2. \A i \in Slots : i \in Owning' => i \in Owning
      BY <1>a, <1>b DEF Owning, At
    <2>3. \A i : i \in Owning' => i \in Slots BY DEF Owning
    <2>4. \A r, s \in Threads : r # s /\ call'[r].frame.data # NULL =>
             call'[r].frame.data # call'[s].frame.data
      BY <2>1, <1>b DEF OneOwner
    <2>5. \A i, j \in Owning' :
            i # j /\ frames'[i].data # NULL =>
                frames'[i].data # frames'[j].data
      BY <2>2, <2>3, <1>a DEF OneOwner
    <2>6. \A s \in Threads, i \in Owning' :
             frames'[i].data # NULL => frames'[i].data # call'[s].frame.data
      BY <2>1, <2>2, <2>3, <1>a, <1>b DEF OneOwner
    <2> QED BY <2>4, <2>5, <2>6 DEF OneOwner
  <1> QED BY <1>1, <1>2, <1>3, <1>4, <1>5, <1>6

(* A step of a call that changes neither the ring nor the memory. *)
LEMMA MovePreserves ==
    ASSUME IInv, NEW t \in Threads, NEW pc \in {"inside", "post", "return"},
           call' = [call EXCEPT ![t].pc = pc],
           UNCHANGED <<ring, alive, memory>>,
           call[t].pc \in {"wait", "inside", "post"},
           semaphore' \in {0, 1},
           pc \in {"inside", "post"} => semaphore' = 0,
           \A s \in Threads \ {t} : ~Inside(s),
           \A s \in Threads : result'[s] \in [ok : BOOLEAN,
                            id : Ids \cup {NULL}, size : 0 .. Capacity],
           result' \in [Threads -> [ok : BOOLEAN, id : Ids \cup {NULL},
                                    size : 0 .. Capacity]],
           pc = "inside" => call[t].pc = "wait"
    PROVE  IInv'
  <1> USE ConstantsAssumption DEF IInv, ring
  <1>b. /\ call'[t] = [call[t] EXCEPT !.pc = pc]
        /\ \A s \in Threads : s # t => call'[s] = call[s]
        /\ \A s \in Threads : call'[s].frame = call[s].frame
        /\ \A s \in Threads : call'[s].op = call[s].op
        /\ call'[t].pc = pc
    BY DEF TypeOK, Calls
  <1>1. TypeOK' BY DEF TypeOK, Calls
  <1>2. SemaphoreInv' BY <1>b DEF SemaphoreInv, Inside
  <1>3. ASSUME NEW s \in Threads PROVE CallInv(s)'
    <2>1. CASE s = t BY <2>1, <1>b DEF CallInv, At
    <2>2. CASE s # t BY <2>2, <1>b DEF CallInv, At
    <2> QED BY <2>1, <2>2
  <1>c. \A s \in Threads, p \in {"copy", "index"} :
           At(s, "push", p)' <=> At(s, "push", p)
    BY <1>b DEF At, CallInv
  <1>4. RingInv'
    <2>1. \A k : SlotAt(k)' = SlotAt(k) BY DEF SlotAt
    <2> QED BY <2>1, <1>c DEF RingInv
  <1>5. PixelsIntact' BY <1>b DEF PixelsIntact, Intact
  <1>6. OneOwner'
    <2>1. Owning' = Owning BY <1>c DEF Owning
    <2> QED BY <2>1, <1>b DEF OneOwner
  <1> QED BY <1>1, <1>2, <1>3, <1>4, <1>5, <1>6

(* The write index is outside a ring that is not full. *)
LEMMA WriteIndexFree ==
    ASSUME IInv, count < Capacity
    PROVE  \A k \in 0 .. count - 1 : SlotAt(k) # write_index
  <1> USE ConstantsAssumption DEF IInv
  <1>1. TAKE k \in 0 .. count - 1
  <1>2. k \in 0 .. Capacity /\ count \in 0 .. Capacity BY SMT DEF TypeOK
  <1>3. write_index = SlotAt(count) BY DEF RingInv
  <1>4. SlotAt(k) = IF read_index + k < Capacity THEN read_index + k
                                                 ELSE read_index + k - Capacity
    BY <1>2, SlotAtIs
  <1>5. SlotAt(count) = IF read_index + count < Capacity
                          THEN read_index + count
                          ELSE read_index + count - Capacity
    BY <1>2, SlotAtIs
  <1>6. read_index \in 0 .. Capacity - 1 /\ Capacity \in Nat
    BY DEF TypeOK, Slots
  <1> QED BY <1>2, <1>3, <1>4, <1>5, <1>6, SMT

(* What the actions on one call leave of the others. *)
LEMMA OthersKeep ==
    ASSUME TypeOK, NEW t \in Threads, NEW x, call' = [call EXCEPT ![t] = x]
    PROVE  /\ call'[t] = x
           /\ \A s \in Threads : s # t => call'[s] = call[s]
  BY DEF TypeOK

(* push stores the frame: the slot points to the caller's block. *)
LEMMA StoreFramePreserves ==
    ASSUME IInv, NEW t \in Threads, StoreFrame(t)
    PROVE  IInv'
  <1> USE ConstantsAssumption DEF IInv, StoreFrame
  <1>a. /\ frames' = [frames EXCEPT ![write_index] = call[t].frame]
        /\ call' = [call EXCEPT ![t].pc = "copy"]
        /\ call[t].op = "push" /\ call[t].pc = "inside"
        /\ count < Capacity
        /\ UNCHANGED <<count, read_index, write_index, semaphore, alive,
                       memory, result>>
    BY SMT DEF At, Full, TypeOK
  <1>b. /\ call'[t] = [call[t] EXCEPT !.pc = "copy"]
        /\ \A s \in Threads : s # t => call'[s] = call[s]
        /\ \A s \in Threads : call'[s].frame = call[s].frame
        /\ \A s \in Threads : call'[s].op = call[s].op
        /\ call'[t].pc = "copy"
    BY <1>a DEF TypeOK, Calls
  <1>c. /\ write_index \in Slots
        /\ frames'[write_index] = call[t].frame
        /\ \A i \in Slots : i # write_index => frames'[i] = frames[i]
    BY <1>a DEF TypeOK
  <1>d. \A s \in Threads : s # t => ~Inside(s)
    BY <1>a DEF SemaphoreInv, Inside
  <1>1. TypeOK' BY <1>a DEF TypeOK, Calls
  <1>2. SemaphoreInv' BY <1>a, <1>b, <1>d DEF SemaphoreInv, Inside
  <1>3. ASSUME NEW s \in Threads PROVE CallInv(s)'
    <2>1. CASE s = t BY <2>1, <1>a, <1>b, <1>c DEF CallInv, At
    <2>2. CASE s # t
      <3>1. call'[s] = call[s] /\ call[s].pc \notin {"copy", "index"}
        BY <2>2, <1>b, <1>d DEF Inside
      <3> QED BY <3>1 DEF CallInv, At
    <2> QED BY <2>1, <2>2
  <1>4. RingInv'
    <2>1. \A k : SlotAt(k)' = SlotAt(k) BY <1>a DEF SlotAt
    <2>2. At(t, "push", "copy")' BY <1>a, <1>b DEF At
    <2>3. \A s \in Threads : ~At(s, "push", "copy")
                             /\ ~At(s, "push", "index")
      BY <1>a, <1>d DEF At, Inside
    <2>4. ASSUME alive', NEW i \in Slots, frames'[i].data # NULL
          PROVE  \/ \E k \in 0 .. count - 1 : i = SlotAt(k)
                 \/ i = write_index
      BY <2>3, <2>4, <1>a, <1>c DEF RingInv
    <2> QED BY <2>1, <2>2, <2>4, <1>a DEF RingInv
  <1>5. PixelsIntact' BY <1>a, <1>b, <1>c DEF PixelsIntact, Intact
  <1>6. OneOwner'
    <2>1. Owning' \subseteq Owning \ {write_index}
      <3>1. \A i \in Owning' : i \in Slots /\ i # write_index
        BY <1>a, <1>b DEF Owning, At
      <3>2. \A i \in Slots : i \in Owning
        BY <1>a, <1>d DEF Owning, At, Inside
      <3> QED BY <3>1, <3>2
    <2>2. \A i \in Owning' : frames'[i] = frames[i] /\ i \in Owning
      BY <2>1, <1>c DEF Owning
    <2> QED BY <2>2, <1>b DEF OneOwner
  <1> QED BY <1>1, <1>2, <1>3, <1>4, <1>5, <1>6

(* push copies the pixels: the slot gets a block of its own. *)
LEMMA CopyDataPreserves ==
    ASSUME IInv, NEW t \in Threads, NEW b \in Blocks, CopyData(t, b)
    PROVE  IInv'
  <1> USE ConstantsAssumption DEF IInv
  <1> DEFINE f == call[t].frame
             copied == f.data # NULL
  <1>a. /\ call' = [call EXCEPT ![t].pc = "index"]
        /\ call[t].op = "push" /\ call[t].pc = "copy"
        /\ UNCHANGED <<count, read_index, write_index, semaphore, alive,
                       result>>
        /\ ~copied => UNCHANGED <<frames, memory>>
        /\ copied => /\ memory[b] = NULL
                     /\ memory' = [memory EXCEPT ![b] = memory[f.data]]
                     /\ frames' = [frames EXCEPT ![write_index].data = b]
    BY DEF At, CopyData
  <1>b. /\ call'[t] = [call[t] EXCEPT !.pc = "index"]
        /\ \A s \in Threads : s # t => call'[s] = call[s]
        /\ \A s \in Threads : call'[s].frame = call[s].frame
        /\ \A s \in Threads : call'[s].op = call[s].op
        /\ call'[t].pc = "index"
    BY <1>a DEF TypeOK, Calls
  <1>c. /\ write_index \in Slots
        /\ frames[write_index] = f /\ f \in VideoFrames /\ f.id # NULL
        /\ frames'[write_index].id = f.id
        /\ copied => frames'[write_index] = [id |-> f.id, data |-> b]
        /\ ~copied => frames'[write_index] = f
        /\ \A i \in Slots : i # write_index => frames'[i] = frames[i]
    <2>1. write_index \in Slots /\ f \in VideoFrames BY DEF TypeOK, Calls
    <2>2. frames[write_index] = f /\ f.id # NULL BY <1>a DEF CallInv
    <2>3. f = [id |-> f.id, data |-> f.data] BY <2>1 DEF VideoFrames
    <2>4. copied => frames'[write_index] = [f EXCEPT !.data = b]
      BY <1>a, <2>1, <2>2 DEF TypeOK
    <2>5. [f EXCEPT !.data = b] = [id |-> f.id, data |-> b]
      BY <2>1 DEF VideoFrames
    <2>6. \A i \in Slots : i # write_index => frames'[i] = frames[i]
      BY <1>a DEF TypeOK
    <2>7. ~copied => frames'[write_index] = f BY <1>a, <2>2
    <2> HIDE DEF f
    <2> QED BY <2>1, <2>2, <2>4, <2>5, <2>6, <2>7
  <1>d. \A s \in Threads : s # t => ~Inside(s)
    BY <1>a DEF SemaphoreInv, Inside
  <1>e. copied => memory[f.data] = f.id BY DEF PixelsIntact, Intact
  <1>g. copied => b # NULL /\ memory' = [memory EXCEPT ![b] = f.id]
    BY <1>a, <1>e, ConstantsAssumption
  <1> HIDE DEF f
  <1>1. TypeOK'
    <2>1. memory' \in [Blocks -> Ids \cup {NULL}]
      BY <1>a, <1>g, <1>c DEF TypeOK, VideoFrames
    <2>2. frames' \in [Slots -> VideoFrames]
      BY <1>a, <1>c DEF TypeOK, VideoFrames
    <2>3. call' \in [Threads -> Calls] BY <1>a DEF TypeOK, Calls
    <2> QED BY <2>1, <2>2, <2>3, <1>a DEF TypeOK
  <1>2. SemaphoreInv' BY <1>a, <1>b, <1>d DEF SemaphoreInv, Inside
  <1>3. ASSUME NEW s \in Threads PROVE CallInv(s)'
    <2>1. CASE s = t
      <3>1. call'[t].frame.id = frames'[write_index].id
        BY <1>b, <1>c DEF f
      <3> QED BY <2>1, <3>1, <1>a, <1>b DEF CallInv, At
    <2>2. CASE s # t
      <3>1. call'[s] = call[s] /\ call[s].pc \notin {"copy", "index"}
        BY <2>2, <1>b, <1>d DEF Inside
      <3> QED BY <3>1 DEF CallInv, At
    <2> QED BY <2>1, <2>2
  <1>4. RingInv'
    <2>1. \A k : SlotAt(k)' = SlotAt(k) BY <1>a DEF SlotAt
    <2>2. At(t, "push", "index")' BY <1>a, <1>b DEF At
    <2>3. ASSUME alive', NEW i \in Slots, frames'[i].data # NULL
          PROVE  \/ \E k \in 0 .. count - 1 : i = SlotAt(k)
                 \/ i = write_index
      BY <2>3, <1>a, <1>c DEF RingInv
    <2> QED BY <2>1, <2>2, <2>3, <1>a DEF RingInv
  <1>5. PixelsIntact'
    <2>1. \A c \in Blocks : memory[c] # NULL => memory'[c] = memory[c]
      BY <1>a, <1>g DEF TypeOK
    <2>2. \A g \in VideoFrames : Intact(g) => Intact(g)'
      BY <2>1 DEF Intact, VideoFrames
    <2>3. Intact(frames[write_index])'
      <3>1. CASE copied
        <4>1. memory'[b] = f.id BY <3>1, <1>g DEF TypeOK
        <4>2. frames'[write_index'] = [id |-> f.id, data |-> b]
          BY <3>1, <1>a, <1>c
        <4> QED BY <4>1, <4>2, <1>c DEF Intact
      <3>2. CASE ~copied
        <4>1. frames'[write_index'].data = NULL BY <3>2, <1>a, <1>c
        <4> QED BY <4>1 DEF Intact
      <3> QED BY <3>1, <3>2
    <2>4. \A i \in Slots : Intact(frames[i])'
      <3>1. TAKE i \in Slots
      <3>2. CASE i = write_index BY <3>2, <2>3, <1>a
      <3>3. CASE i # write_index
        <4>1. frames'[i] = frames[i] /\ frames[i] \in VideoFrames
          BY <3>3, <1>c DEF TypeOK
        <4> QED BY <4>1, <2>2 DEF PixelsIntact, Intact
      <3> QED BY <3>2, <3>3
    <2>5. \A s \in Threads : Intact(call[s].frame)'
      BY <2>2, <1>b DEF PixelsIntact, Intact, TypeOK, Calls
    <2> QED BY <2>4, <2>5 DEF PixelsIntact
  <1>6. OneOwner'
    <2>1. \A i \in Slots : i # write_index => i \in Owning
      BY <1>a, <1>d DEF Owning, At, Inside
    <2>2. \A i \in Owning' : i \in Slots BY DEF Owning
    <2>3. copied =>
             /\ \A i \in Slots : frames[i].data # b
             /\ \A s \in Threads : call[s].frame.data # b
      BY <1>a, <1>g DEF PixelsIntact, Intact
    <2>4. \A i \in Owning' :
             \/ i # write_index /\ i \in Owning /\ frames'[i] = frames[i]
             \/ /\ i = write_index
                /\ frames'[i].data = IF copied THEN b ELSE NULL
      BY <2>1, <2>2, <1>c DEF f
    <2>5. \A i, j \in Owning' :
            i # j /\ frames'[i].data # NULL =>
                frames'[i].data # frames'[j].data
      BY <2>2, <2>3, <2>4 DEF OneOwner
    <2>6. \A s \in Threads, i \in Owning' :
             frames'[i].data # NULL => frames'[i].data # call'[s].frame.data
      BY <2>2, <2>3, <2>4, <1>b DEF OneOwner
    <2> QED BY <2>5, <2>6, <1>b DEF OneOwner
  <1> QED BY <1>1, <1>2, <1>3, <1>4, <1>5, <1>6

(* push advances the write index: the ring grows by its last slot. *)
LEMMA PushFramePreserves ==
    ASSUME IInv, NEW t \in Threads, PushFrame(t)
    PROVE  IInv'
  <1> USE ConstantsAssumption DEF IInv
  <1>a. /\ call' = [call EXCEPT ![t].pc = "post"]
        /\ call[t].op = "push" /\ call[t].pc = "index"
        /\ count' = count + 1 /\ count < Capacity
        /\ write_index' = (write_index + 1) % Capacity
        /\ result' = [result EXCEPT ![t] = Queue!Pushed]
        /\ UNCHANGED <<frames, read_index, semaphore, alive, memory>>
    BY DEF PushFrame, Settle, At, CallInv
  <1>b. /\ call'[t] = [call[t] EXCEPT !.pc = "post"]
        /\ \A s \in Threads : s # t => call'[s] = call[s]
        /\ \A s \in Threads : call'[s].frame = call[s].frame
        /\ \A s \in Threads : call'[s].op = call[s].op
        /\ call'[t].pc = "post"
    BY <1>a DEF TypeOK, Calls
  <1>d. \A s \in Threads : s # t => ~Inside(s)
    BY <1>a DEF SemaphoreInv, Inside
  <1>1. TypeOK'
    <2>1. count' \in 0 .. Capacity BY <1>a, SMT DEF TypeOK
    <2>2. write_index' \in Slots
      <3>1. 1 \in 0 .. Capacity BY SMT
      <3> QED BY <3>1, <1>a, Wrap DEF TypeOK
    <2>3. result' \in [Threads -> [ok : BOOLEAN, id : Ids \cup {NULL},
                                   size : 0 .. Capacity]]
      BY <1>a DEF TypeOK, Queue!Pushed
    <2> QED BY <2>1, <2>2, <2>3, <1>a DEF TypeOK, Calls
  <1>2. SemaphoreInv' BY <1>a, <1>b, <1>d DEF SemaphoreInv, Inside
  <1>3. ASSUME NEW s \in Threads PROVE CallInv(s)'
    <2>1. CASE s = t BY <2>1, <1>a, <1>b DEF CallInv, At
    <2>2. CASE s # t
      <3>1. call'[s] = call[s] /\ call[s].pc \notin {"copy", "index"}
        BY <2>2, <1>b, <1>d DEF Inside
      <3> QED BY <3>1 DEF CallInv, At
    <2> QED BY <2>1, <2>2
  <1>4. RingInv'
    <2>1. \A k : SlotAt(k)' = SlotAt(k) BY <1>a DEF SlotAt
    <2>2. write_index' = SlotAt(count + 1)
      <3> DEFINE next(i) == IF i + 1 < Capacity THEN i + 1
                                                ELSE i + 1 - Capacity
      <3>1. count \in 0 .. Capacity /\ count + 1 \in 0 .. Capacity
            /\ 1 \in 0 .. Capacity
        BY <1>a, SMT DEF TypeOK
      <3>2. write_index \in 0 .. Capacity - 1 /\ Capacity \in Nat
            /\ read_index \in 0 .. Capacity - 1
        BY DEF TypeOK, Slots
      <3>3. write_index' = next(write_index)
        BY <1>a, <3>1, Wrap DEF TypeOK
      <3>4. write_index = IF read_index + count < Capacity
                            THEN read_index + count
                            ELSE read_index + count - Capacity
        BY <3>1, SlotAtIs DEF RingInv
      <3>5. SlotAt(count + 1) = IF read_index + (count + 1) < Capacity
                                  THEN read_index + (count + 1)
                                  ELSE read_index + (count + 1) - Capacity
        BY <3>1, SlotAtIs
      <3> QED BY <3>1, <3>2, <3>3, <3>4, <3>5, <1>a, SMT
    <2>3. ASSUME alive, NEW i \in Slots, frames[i].data # NULL
          PROVE  \E k \in 0 .. count : i = SlotAt(k)
      <3>1. CASE i = write_index
        <4>1. count \in 0 .. count BY SMT DEF TypeOK
        <4> QED BY <3>1, <4>1 DEF RingInv
      <3>2. CASE i # write_index
        <4>1. PICK k \in 0 .. count - 1 : i = SlotAt(k)
          BY <2>3, <3>2 DEF RingInv
        <4>2. k \in 0 .. count BY SMT DEF TypeOK
        <4> QED BY <4>1, <4>2
      <3> QED BY <3>1, <3>2
    <2>4. count' - 1 = count BY <1>a, SMT DEF TypeOK
    <2> QED BY <2>1, <2>2, <2>3, <2>4, <1>a DEF RingInv
  <1>5. PixelsIntact' BY <1>a, <1>b DEF PixelsIntact, Intact
  <1>6. OneOwner'
    <2>1. Owning = Slots BY <1>a, <1>d DEF Owning, At, Inside
    <2>2. \A i \in Owning' : i \in Owning BY <2>1 DEF Owning
    <2> QED BY <2>2, <1>a, <1>b DEF OneOwner
  <1> QED BY <1>1, <1>2, <1>3, <1>4, <1>5, <1>6

(* pop takes the frame: its block goes from the slot to the caller. *)
LEMMA TakeFramePreserves ==
    ASSUME IInv, NEW t \in Threads, TakeFrame(t)
    PROVE  IInv'
  <1> USE ConstantsAssumption DEF IInv
  <1> DEFINE f == frames[read_index]
  <1>a. /\ call' = [call EXCEPT ![t].frame = f, ![t].pc = "index"]
        /\ call[t].op = "pop" /\ call[t].pc = "inside"
        /\ count # 0
        /\ frames' = [frames EXCEPT ![read_index].data = NULL]
        /\ UNCHANGED <<count, read_index, write_index, semaphore, alive,
                       memory, result>>
    BY DEF TakeFrame, ClearPointer, At
  <1>b. /\ call'[t].frame = f /\ call'[t].pc = "index"
        /\ call'[t].op = "pop"
        /\ \A s \in Threads : s # t => call'[s] = call[s]
    BY <1>a DEF TypeOK, Calls
  <1>c. /\ read_index \in Slots /\ f \in VideoFrames
        /\ frames'[read_index] = [f EXCEPT !.data = NULL]
        /\ frames'[read_index].data = NULL
        /\ \A i \in Slots : i # read_index => frames'[i] = frames[i]
    BY <1>a DEF TypeOK, VideoFrames
  <1>d. \A s \in Threads : s # t => ~Inside(s)
    BY <1>a DEF SemaphoreInv, Inside
  <1> HIDE DEF f
  <1>1. TypeOK'
    <2>1. frames' \in [Slots -> VideoFrames] BY <1>a DEF TypeOK, VideoFrames
    <2>2. call' \in [Threads -> Calls] BY <1>a, <1>c DEF TypeOK, Calls
    <2> QED BY <2>1, <2>2, <1>a DEF TypeOK
  <1>2. SemaphoreInv' BY <1>a, <1>b, <1>d DEF SemaphoreInv, Inside
  <1>3. ASSUME NEW s \in Threads PROVE CallInv(s)'
    <2>1. CASE s = t BY <2>1, <1>a, <1>b, <1>c DEF CallInv, At
    <2>2. CASE s # t
      <3>1. call'[s] = call[s] /\ call[s].pc \notin {"copy", "index"}
        BY <2>2, <1>b, <1>d DEF Inside
      <3> QED BY <3>1 DEF CallInv, At
    <2> QED BY <2>1, <2>2
  <1>e. \A s \in Threads, p \in {"copy", "index"} :
           ~At(s, "push", p) /\ ~At(s, "push", p)'
    BY <1>a, <1>b, <1>d DEF At, Inside
  <1>4. RingInv'
    <2>1. \A k : SlotAt(k)' = SlotAt(k) BY <1>a DEF SlotAt
    <2>2. ASSUME alive', NEW i \in Slots, frames'[i].data # NULL
          PROVE  \E k \in 0 .. count - 1 : i = SlotAt(k)
      BY <2>2, <1>a, <1>c, <1>e DEF RingInv
    <2> QED BY <2>1, <2>2, <1>a DEF RingInv
  <1>5. PixelsIntact'
    <2>1. \A i \in Slots : Intact(frames[i])'
      BY <1>a, <1>c DEF PixelsIntact, Intact
    <2>2. Intact(call[t].frame)'
      BY <1>a, <1>b, <1>c DEF PixelsIntact, Intact, f
    <2>3. \A s \in Threads : Intact(call[s].frame)'
      BY <2>2, <1>a, <1>b DEF PixelsIntact, Intact
    <2> QED BY <2>1, <2>3 DEF PixelsIntact
  <1>6. OneOwner'
    <2>1. Owning = Slots /\ Owning' = Slots BY <1>e DEF Owning
    <2>0. /\ \A i, j \in Slots : i # j /\ frames[i].data # NULL =>
                frames[i].data # frames[j].data
          /\ \A s \in Threads, i \in Slots : frames[i].data # NULL =>
                frames[i].data # call[s].frame.data
      BY <2>1 DEF OneOwner
    <2>2. \A r, s \in Threads : r # s /\ call'[r].frame.data # NULL =>
             call'[r].frame.data # call'[s].frame.data
      BY <2>1, <1>b, <1>c DEF OneOwner, f
    <2>3. \A i, j \in Slots : i # j /\ frames'[i].data # NULL =>
             frames'[i].data # frames'[j].data
      BY <2>0, <1>c DEF f
    <2>4. \A s \in Threads, i \in Slots : frames'[i].data # NULL =>
             frames'[i].data # call'[s].frame.data
      <3>1. TAKE s \in Threads, i \in Slots
      <3>2. i # read_index /\ frames'[i].data # NULL =>
               /\ frames'[i] = frames[i]
               /\ frames[i].data # f.data
               /\ frames[i].data # call[s].frame.data
        BY <2>0, <1>c DEF f
      <3> QED BY <3>2, <1>b, <1>c
    <2> QED BY <2>1, <2>2, <2>3, <2>4 DEF OneOwner
  <1> QED BY <1>1, <1>2, <1>3, <1>4, <1>5, <1>6

(* pop advances the read index: the ring loses its first slot. *)
LEMMA PopFramePreserves ==
    ASSUME IInv, NEW t \in Threads, PopFrame(t)
    PROVE  /\ IInv'
           /\ \A k \in 0 .. count - 1 :
                 (read_index' + k) % Capacity = SlotAt(k + 1)
  <1> USE ConstantsAssumption DEF IInv
  <1>a. /\ call' = [call EXCEPT ![t].pc = "post"]
        /\ call[t].op = "pop" /\ call[t].pc = "index"
        /\ count' = count - 1 /\ count # 0
        /\ frames[read_index].data = NULL
        /\ read_index' = (read_index + 1) % Capacity
        /\ result' = [result EXCEPT ![t] = Queue!Popped(call[t].frame.id)]
        /\ UNCHANGED <<frames, write_index, semaphore, alive, memory>>
    <2>1. frames[read_index] = [call[t].frame EXCEPT !.data = NULL]
          /\ count # 0 /\ call[t].frame \in VideoFrames
      BY DEF PopFrame, At, CallInv, TypeOK, Calls
    <2>2. frames[read_index].data = NULL BY <2>1 DEF VideoFrames
    <2> QED BY <2>1, <2>2 DEF PopFrame, Settle, At
  <1>b. /\ call'[t] = [call[t] EXCEPT !.pc = "post"]
        /\ \A s \in Threads : s # t => call'[s] = call[s]
        /\ \A s \in Threads : call'[s].frame = call[s].frame
        /\ \A s \in Threads : call'[s].op = call[s].op
        /\ call'[t].pc = "post"
    BY <1>a DEF TypeOK, Calls
  <1>d. \A s \in Threads : s # t => ~Inside(s)
    BY <1>a DEF SemaphoreInv, Inside
  <1>c. /\ count \in 1 .. Capacity /\ 1 \in 0 .. Capacity
        /\ Capacity \in Nat /\ read_index \in 0 .. Capacity - 1
        /\ read_index' \in 0 .. Capacity - 1
        /\ read_index' = IF read_index + 1 < Capacity
                           THEN read_index + 1
                           ELSE read_index + 1 - Capacity
    <2>1. count \in 1 .. Capacity /\ 1 \in 0 .. Capacity
      BY <1>a, SMT DEF TypeOK
    <2> QED BY <2>1, <1>a, Wrap DEF TypeOK, Slots
  <1>1. TypeOK'
    <2>1. count' \in 0 .. Capacity BY <1>a, <1>c, SMT
    <2>2. read_index' \in Slots BY <1>c DEF Slots
    <2>3. Queue!Popped(call[t].frame.id) \in
             [ok : BOOLEAN, id : Ids \cup {NULL}, size : 0 .. Capacity]
      <3>1. 0 \in 0 .. Capacity /\ call[t].frame.id \in Ids \cup {NULL}
        BY DEF TypeOK, Calls, VideoFrames
      <3> QED BY <3>1 DEF Queue!Popped
    <2> QED BY <2>1, <2>2, <2>3, <1>a DEF TypeOK, Calls
  <1>e. ASSUME NEW k \in 0 .. count - 1
        PROVE  (read_index' + k) % Capacity = SlotAt(k + 1)
    <2>1. k \in 0 .. Capacity /\ k + 1 \in 0 .. Capacity /\ k \in Nat
      BY <1>c, SMT
    <2>2. SlotAt(k + 1) = IF read_index + (k + 1) < Capacity
                            THEN read_index + (k + 1)
                            ELSE read_index + (k + 1) - Capacity
      BY <2>1, SlotAtIs
    <2>4. (read_index' + k) % Capacity =
             IF read_index' + k < Capacity THEN read_index' + k
                                           ELSE read_index' + k - Capacity
      BY <2>1, <1>c, Wrap DEF Slots
    <2> QED BY <2>1, <2>2, <2>4, <1>c, SMT
  <1>2. SemaphoreInv' BY <1>a, <1>b, <1>d DEF SemaphoreInv, Inside
  <1>3. ASSUME NEW s \in Threads PROVE CallInv(s)'
    <2>1. CASE s = t BY <2>1, <1>a, <1>b DEF CallInv, At
    <2>2. CASE s # t
      <3>1. call'[s] = call[s] /\ call[s].pc \notin {"copy", "index"}
        BY <2>2, <1>b, <1>d DEF Inside
      <3> QED BY <3>1 DEF CallInv, At
    <2> QED BY <2>1, <2>2
  <1>f. \A s \in Threads, p \in {"copy", "index"} :
           ~At(s, "push", p) /\ ~At(s, "push", p)'
    BY <1>a, <1>b, <1>d DEF At, Inside
  <1>4. RingInv'
    <2>1. write_index' = (read_index' + count') % Capacity
      <3>1. count - 1 \in 0 .. count - 1 /\ (count - 1) + 1 = count
        BY <1>c, SMT
      <3>2. (read_index' + (count - 1)) % Capacity = write_index
        <4>1. (read_index' + (count - 1)) % Capacity = SlotAt((count - 1) + 1)
          BY <3>1, <1>e
        <4> QED BY <4>1, <3>1 DEF RingInv
      <3> QED BY <3>2, <1>a
    <2>2. ASSUME alive, NEW i \in Slots, frames[i].data # NULL
          PROVE  \E k \in 0 .. count' - 1 : i = (read_index' + k) % Capacity
      <3>1. PICK k \in 0 .. count - 1 : i = SlotAt(k)
        BY <2>2, <1>f DEF RingInv
      <3>2. k # 0
        <4>1. SlotAt(0) = read_index
          BY <1>c, SlotAtIs, SMT
        <4> QED BY <4>1, <3>1, <2>2, <1>a
      <3>3. k - 1 \in 0 .. count' - 1 /\ k - 1 \in 0 .. count - 1
            /\ (k - 1) + 1 = k
        BY <3>2, <1>a, <1>c, SMT
      <3>4. (read_index' + (k - 1)) % Capacity = i BY <3>1, <3>3, <1>e
      <3> QED BY <3>3, <3>4
    <2> QED BY <2>1, <2>2, <1>a DEF RingInv, SlotAt
  <1>5. PixelsIntact' BY <1>a, <1>b DEF PixelsIntact, Intact
  <1>6. OneOwner'
    <2>1. Owning = Slots /\ Owning' = Slots BY <1>f DEF Owning
    <2> QED BY <2>1, <1>a, <1>b DEF OneOwner
  <1> QED BY <1>1, <1>2, <1>3, <1>4, <1>5, <1>6, <1>e

(* A caller returns and frees its block: nobody else has it. *)
LEMMA ReturnPreserves ==
    ASSUME IInv, NEW t \in Threads, Return(t)
    PROVE  IInv'
  <1> USE ConstantsAssumption DEF IInv
  <1> DEFINE d == call[t].frame.data
  <1>a. /\ call' = [call EXCEPT ![t] = Idle]
        /\ call[t].pc = "return"
        /\ memory' = [b \in Blocks |-> IF b = d THEN NULL ELSE memory[b]]
        /\ UNCHANGED <<frames, count, read_index, write_index, semaphore,
                       alive, result>>
    BY DEF Return, ring
  <1>b. /\ call'[t] = Idle
        /\ \A s \in Threads : s # t => call'[s] = call[s]
    BY <1>a, OthersKeep
  <1>c. \A s \in Threads, p \in {"copy", "index"} :
           At(s, "push", p)' <=> At(s, "push", p)
    BY <1>a, <1>b DEF At, Idle
  <1>1. TypeOK' BY <1>a DEF TypeOK, Calls, Idle, NoFrame, VideoFrames
  <1>2. SemaphoreInv' BY <1>a, <1>b DEF SemaphoreInv, Inside, Idle
  <1>3. ASSUME NEW s \in Threads PROVE CallInv(s)'
    <2>1. CASE s = t BY <2>1, <1>b DEF CallInv, At, Idle, NoFrame
    <2>2. CASE s # t BY <2>2, <1>a, <1>b DEF CallInv, At
    <2> QED BY <2>1, <2>2
  <1>4. RingInv'
    <2>1. \A k : SlotAt(k)' = SlotAt(k) BY <1>a DEF SlotAt
    <2> QED BY <2>1, <1>a, <1>c DEF RingInv
  <1>d. d # NULL => \A i \in Slots : frames[i].data # d
    <2>1. \A i \in Owning : d # NULL => frames[i].data # d
      BY DEF OneOwner
    <2>2. ASSUME NEW i \in Slots, i \notin Owning, d # NULL
          PROVE  frames[i].data # d
      <3>1. PICK s \in Threads : At(s, "push", "copy") /\ i = write_index
        BY <2>2 DEF Owning
      <3>2. frames[i] = call[s].frame /\ s # t
        BY <3>1, <1>a DEF CallInv, At
      <3> QED BY <3>2, <2>2 DEF OneOwner
    <2> QED BY <2>1, <2>2
  <1>5. PixelsIntact'
    <2>1. \A i \in Slots : frames[i].data # NULL =>
             memory'[frames[i].data] = memory[frames[i].data]
      BY <1>a, <1>d DEF TypeOK, VideoFrames
    <2>2. \A s \in Threads : s # t /\ call[s].frame.data # NULL =>
             memory'[call[s].frame.data] = memory[call[s].frame.data]
      BY <1>a DEF OneOwner, TypeOK, Calls, VideoFrames
    <2>3. \A i \in Slots : Intact(frames[i])'
      BY <2>1, <1>a DEF PixelsIntact, Intact
    <2>4. \A s \in Threads : Intact(call[s].frame)'
      BY <2>2, <1>b DEF PixelsIntact, Intact, Idle, NoFrame
    <2> QED BY <2>3, <2>4 DEF PixelsIntact
  <1>6. OneOwner'
    <2>1. Owning' = Owning BY <1>a, <1>c DEF Owning
    <2> QED BY <2>1, <1>a, <1>b DEF OneOwner, Idle, NoFrame
  <1> QED BY <1>1, <1>2, <1>3, <1>4, <1>5, <1>6

(* destroy frees what the first slots point to and clears them. *)
LEMMA DestroyPreserves ==
    ASSUME IInv, Destroy
    PROVE  IInv'
  <1> USE ConstantsAssumption DEF IInv
  <1>a. /\ memory' = [b \in Blocks |->
                        IF \E i \in FreedSlots : frames[i].data = b
                          THEN NULL ELSE memory[b]]
        /\ frames' = [i \in Slots |-> IF i \in FreedSlots
                                        THEN [frames[i] EXCEPT !.data = NULL]
                                        ELSE frames[i]]
        /\ count' = 0 /\ read_index' = 0 /\ write_index' = 0
        /\ alive' = FALSE
        /\ \A t \in Threads : call[t].pc = "idle"
        /\ UNCHANGED <<semaphore, call, result>>
    BY DEF Destroy
  <1>b. FreedSlots \subseteq Slots BY SMT DEF FreedSlots, Slots, TypeOK
  <1>c. 0 \in Slots /\ 0 \in 0 .. Capacity BY SMT DEF Slots
  <1>d. \A t \in Threads : call[t].frame = NoFrame /\ call[t].op = "none"
    BY <1>a DEF CallInv
  <1>1. TypeOK'
    <2>1. memory' \in [Blocks -> Ids \cup {NULL}] BY <1>a DEF TypeOK
    <2>2. frames' \in [Slots -> VideoFrames] BY <1>a DEF TypeOK, VideoFrames
    <2> QED BY <2>1, <2>2, <1>a, <1>c DEF TypeOK
  <1>2. SemaphoreInv' BY <1>a DEF SemaphoreInv, Inside
  <1>3. ASSUME NEW t \in Threads PROVE CallInv(t)'
    BY <1>a, <1>d DEF CallInv, At
  <1>4. RingInv'
    <2>1. SlotAt(count)' = (0 + 0) % Capacity BY <1>a DEF SlotAt
    <2>2. (0 + 0) % Capacity = 0 BY <1>c, Wrap, SMT DEF Slots
    <2> QED BY <2>1, <2>2, <1>a DEF RingInv
  <1>e. Owning = Slots BY <1>a DEF Owning, At
  <1>5. PixelsIntact'
    <2>1. ASSUME NEW i \in Slots PROVE Intact(frames[i])'
      <3>1. CASE i \in FreedSlots
        <4>1. frames'[i].data = NULL BY <3>1, <1>a, <1>b DEF TypeOK, VideoFrames
        <4> QED BY <4>1 DEF Intact
      <3>2. CASE i \notin FreedSlots
        <4>1. frames'[i] = frames[i] BY <3>2, <1>a
        <4>2. frames[i].data # NULL =>
                 \A j \in FreedSlots : frames[j].data # frames[i].data
          BY <3>2, <1>b, <1>e DEF OneOwner
        <4>3. frames[i].data # NULL =>
                 memory'[frames[i].data] = memory[frames[i].data]
          BY <4>2, <1>a DEF TypeOK, VideoFrames
        <4> QED BY <4>1, <4>3 DEF PixelsIntact, Intact
      <3> QED BY <3>1, <3>2
    <2>2. ASSUME NEW t \in Threads PROVE Intact(call[t].frame)'
      BY <1>a, <1>d DEF Intact, NoFrame
    <2> QED BY <2>1, <2>2 DEF PixelsIntact
  <1>6. OneOwner'
    <2>1. \A i \in Slots : \/ frames'[i].data = NULL
                           \/ frames'[i].data = frames[i].data
      BY <1>a DEF TypeOK, VideoFrames
    <2>2. \A i \in Owning' : i \in Slots BY DEF Owning
    <2>3. \A i, j \in Slots : i # j /\ frames[i].data # NULL =>
             frames[i].data # frames[j].data
      BY <1>e DEF OneOwner
    <2>4. \A i, j \in Owning' : i # j /\ frames'[i].data # NULL =>
             frames'[i].data # frames'[j].data
      BY <2>1, <2>2, <2>3
    <2>5. \A t \in Threads : call'[t].frame.data = NULL
      BY <1>a, <1>d DEF NoFrame
    <2> QED BY <2>4, <2>5 DEF OneOwner
  <1> QED BY <1>1, <1>2, <1>3, <1>4, <1>5, <1>6

-----------------------------------------------------------------------------
(* The invariant.                                                          *)

(* The values a call may return. *)
Results == [ok : BOOLEAN, id : Ids \cup {NULL}, size : 0 .. Capacity]

LEMMA NextPreserves == IInv /\ [Next]_vars => IInv'
  <1> SUFFICES ASSUME IInv, [Next]_vars PROVE IInv' OBVIOUS
  <1> USE ConstantsAssumption
  <1>a. IInv => IInv /\ TypeOK /\ SemaphoreInv BY DEF IInv
  <1>b. ASSUME NEW t \in Threads, call[t].pc \in {"inside", "post"}
        PROVE  /\ \A s \in Threads \ {t} : ~Inside(s)
               /\ semaphore = 0
    BY <1>a, <1>b DEF SemaphoreInv, Inside
  <1>r. ASSUME NEW t \in Threads, NEW r \in Results,
               result' = [result EXCEPT ![t] = r]
        PROVE  /\ result' \in [Threads -> Results]
               /\ \A s \in Threads : result'[s] \in Results
    BY <1>a, <1>r DEF TypeOK, Results
  <1>v. 0 \in 0 .. Capacity /\ count \in 0 .. Capacity
    BY <1>a, SMT DEF TypeOK
  <1>1. ASSUME NEW t \in Threads, NEW f \in Ids, NEW b \in Blocks,
               PushWithData(t, f, b)
        PROVE  IInv'
    BY <1>1, EnterPreserves DEF PushWithData, VideoFrames
  <1>2. ASSUME NEW t \in Threads, NEW f \in Ids, PushWithoutData(t, f)
        PROVE  IInv'
    BY <1>2, EnterPreserves DEF PushWithoutData, VideoFrames
  <1>3. ASSUME NEW t \in Threads, StartPop(t) \/ StartSize(t)
        PROVE  IInv'
    BY <1>3, EnterPreserves DEF StartPop, StartSize, VideoFrames, NoFrame
  <1>4. ASSUME NEW t \in Threads, Wait(t) PROVE IInv'
    <2>1. \A s \in Threads \ {t} : ~Inside(s)
      BY <1>4, <1>a DEF Wait, SemaphoreInv
    <2> QED BY <2>1, <1>4, <1>a, MovePreserves DEF Wait, TypeOK
  <1>5. ASSUME NEW t \in Threads, Post(t) PROVE IInv'
    BY <1>5, <1>a, <1>b, MovePreserves DEF Post, TypeOK
  <1>6. ASSUME NEW t \in Threads, PushRefused(t) \/ PopRefused(t)
        PROVE  IInv'
    <2>1. Queue!NoResult \in Results BY <1>v DEF Queue!NoResult, Results
    <2>2. /\ result' = [result EXCEPT ![t] = Queue!NoResult]
          /\ call' = [call EXCEPT ![t].pc = "post"]
          /\ UNCHANGED <<ring, semaphore, alive, memory>>
          /\ call[t].pc = "inside"
      BY <1>6 DEF PushRefused, PopRefused, Settle, At
    <2> QED BY <2>1, <2>2, <1>b, <1>r, MovePreserves DEF Results
  <1>7. ASSUME NEW t \in Threads, ReadSize(t) PROVE IInv'
    <2>1. Queue!Counted(count) \in Results
      BY <1>v DEF Queue!Counted, Results
    <2>2. /\ result' = [result EXCEPT ![t] = Queue!Counted(count)]
          /\ call' = [call EXCEPT ![t].pc = "post"]
          /\ UNCHANGED <<ring, semaphore, alive, memory>>
          /\ call[t].pc = "inside"
      BY <1>7 DEF ReadSize, Settle, At
    <2> QED BY <2>1, <2>2, <1>b, <1>r, MovePreserves DEF Results
  <1>8. CASE UNCHANGED vars
    BY <1>8 DEF vars, ring, IInv, TypeOK, SemaphoreInv, Inside, CallInv, At,
                RingInv, SlotAt, PixelsIntact, Intact, OneOwner, Owning
  <1> QED BY <1>1, <1>2, <1>3, <1>4, <1>5, <1>6, <1>7, <1>8,
             StoreFramePreserves, CopyDataPreserves, PushFramePreserves,
             TakeFramePreserves, PopFramePreserves, ReturnPreserves,
             DestroyPreserves
       DEF Next, Destroyed

(* The inductive invariant holds of every behaviour of the buffer. *)
THEOREM Invariant == Spec => []IInv
  BY InitIInv, NextPreserves, PTL DEF Spec

(* The variables keep their values, and the ring never holds more frames   *)
(* than it has slots.                                                      *)
THEOREM Types == Spec => []TypeOK
  <1>1. IInv => TypeOK BY DEF IInv
  <1> QED BY <1>1, Invariant, PTL

(* A frame that push or pop exchanges has its own pixels. *)
THEOREM FramesIntact == Spec => []PixelsIntact
  <1>1. IInv => PixelsIntact BY DEF IInv
  <1> QED BY <1>1, Invariant, PTL

(* A block is never in the hands of two, so it is freed once. *)
THEOREM FreedOnce == Spec => []OneOwner
  <1>1. IInv => OneOwner BY DEF IInv
  <1> QED BY <1>1, Invariant, PTL

-----------------------------------------------------------------------------
(* The memory in use.                                                      *)

(* A block that somebody can still free. *)
Held(b) == \/ \E t \in Threads : call[t].frame.data = b
           \/ alive /\ \E i \in Slots : frames[i].data = b

(* An inside thread works on a buffer that is alive, and alone. *)
LEMMA InsideAlone ==
    ASSUME IInv, NEW t \in Threads, Inside(t)
    PROVE  alive /\ \A s \in Threads \ {t} : ~Inside(s)
  BY DEF IInv, SemaphoreInv, Inside

(* No step loses a block, but for a destroy of a ring whose oldest frame   *)
(* is not in its first slot.                                               *)
LEMMA NothingLostStep ==
    IInv /\ [Next]_vars =>
        (Lost' = Lost \/ (alive /\ ~alive' /\ read_index # 0))
  <1> SUFFICES ASSUME IInv, [Next]_vars
               PROVE  Lost' = Lost \/ (alive /\ ~alive' /\ read_index # 0)
    OBVIOUS
  <1> USE ConstantsAssumption
  <1>a. Lost = {b \in Blocks : memory[b] # NULL /\ ~Held(b)}
    BY DEF Lost, Held
  <1>b. Lost' = {b \in Blocks : memory'[b] # NULL /\ ~Held(b)'}
    BY DEF Lost, Held
  <1>c. TypeOK /\ \A t \in Threads : CallInv(t) BY DEF IInv
  <1>s. ASSUME \A b \in Blocks :
                  (memory'[b] # NULL /\ ~Held(b)')
                      <=> (memory[b] # NULL /\ ~Held(b))
        PROVE  Lost' = Lost
    BY <1>a, <1>b, <1>s
  <1>1. ASSUME NEW t \in Threads, NEW frame \in VideoFrames, NEW op,
               Enter(t, op, frame),
               \/ frame.data = NULL /\ UNCHANGED memory
               \/ /\ frame.data \in Blocks /\ memory[frame.data] = NULL
                  /\ \E f : memory' = [memory EXCEPT ![frame.data] = f]
        PROVE  Lost' = Lost
    <2>1. /\ call'[t].frame = frame
          /\ \A s \in Threads : s # t => call'[s] = call[s]
          /\ call[t].frame.data = NULL
          /\ UNCHANGED <<frames, alive>>
      BY <1>1, <1>c DEF Enter, ring, TypeOK, CallInv, NoFrame
    <2>2. \A b \in Blocks : Held(b)' <=> Held(b) \/ b = frame.data
      BY <2>1 DEF Held
    <2>3. \A b \in Blocks : b # frame.data => memory'[b] = memory[b]
      BY <1>1, <1>c DEF TypeOK
    <2> QED BY <2>2, <2>3, <1>1, <1>s
  <1>2. ASSUME UNCHANGED <<frames, alive, memory>>,
               \A t \in Threads : call'[t].frame = call[t].frame
        PROVE  Lost' = Lost
    BY <1>2, <1>s DEF Held
  <1>3. ASSUME NEW t \in Threads, StoreFrame(t) PROVE Lost' = Lost
    <2>1. /\ frames' = [frames EXCEPT ![write_index] = call[t].frame]
          /\ call' = [call EXCEPT ![t].pc = "copy"]
          /\ call[t].pc = "inside" /\ count < Capacity
          /\ UNCHANGED <<alive, memory>>
      BY <1>3, <1>c, SMT DEF StoreFrame, At, Full, TypeOK
    <2>2. Inside(t) BY <2>1 DEF Inside
    <2>3. \A s \in Threads : ~At(s, "push", "copy")
                              /\ ~At(s, "push", "index")
      BY <2>1, <2>2, InsideAlone DEF At, Inside
    <2>4. write_index \in Slots /\ frames[write_index].data = NULL
      BY <2>1, <2>2, <2>3, <1>c, InsideAlone, WriteIndexFree
         DEF IInv, RingInv, TypeOK
    <2>5. \A s \in Threads : call'[s].frame = call[s].frame
      BY <2>1, <1>c DEF TypeOK, Calls
    <2>6. \A i \in Slots : frames'[i] = IF i = write_index
                                          THEN call[t].frame ELSE frames[i]
      BY <2>1, <1>c DEF TypeOK
    <2>7. \A b \in Blocks : Held(b)' <=> Held(b)
      <3>1. TAKE b \in Blocks
      <3>2. Held(b) => Held(b)' BY <2>1, <2>4, <2>5, <2>6 DEF Held
      <3>3. Held(b)' => Held(b) BY <2>1, <2>4, <2>5, <2>6 DEF Held
      <3> QED BY <3>2, <3>3
    <2> QED BY <2>1, <2>7, <1>s
  <1>4. ASSUME NEW t \in Threads, NEW c \in Blocks, CopyData(t, c)
        PROVE  Lost' = Lost
    <2>1. /\ call' = [call EXCEPT ![t].pc = "index"]
          /\ call[t].pc = "copy" /\ At(t, "push", "copy")
          /\ UNCHANGED <<alive, write_index>>
      BY <1>4 DEF CopyData, At
    <2>2. \A s \in Threads : call'[s].frame = call[s].frame
      BY <2>1, <1>c DEF TypeOK, Calls
    <2>3. alive BY <2>1, InsideAlone DEF Inside
    <2>4. frames[write_index] = call[t].frame /\ write_index \in Slots
      BY <2>1, <1>c DEF CallInv, At, TypeOK
    <2>5. CASE call[t].frame.data = NULL
      BY <2>5, <2>1, <2>2, <1>2, <1>4 DEF CopyData
    <2>6. CASE call[t].frame.data # NULL
      <3>1. /\ memory[c] = NULL
            /\ \A b \in Blocks : b # c => memory'[b] = memory[b]
            /\ \A i \in Slots : i # write_index => frames'[i] = frames[i]
            /\ frames'[write_index].data = c
        BY <2>4, <2>6, <1>4, <1>c DEF CopyData, TypeOK, VideoFrames
      <3>2. \A b \in Blocks : Held(b)' <=> Held(b) \/ b = c
        <4>1. TAKE b \in Blocks
        <4>2. Held(b)' => Held(b) \/ b = c
          BY <2>1, <2>2, <2>3, <3>1 DEF Held
        <4>3. Held(b) => Held(b)'
          BY <2>1, <2>2, <2>3, <2>4, <3>1 DEF Held
        <4>4. b = c => Held(b)'
          BY <2>1, <2>3, <2>4, <3>1 DEF Held
        <4> QED BY <4>2, <4>3, <4>4
      <3> QED BY <3>1, <3>2, <1>s
    <2> QED BY <2>5, <2>6
  <1>5. ASSUME NEW t \in Threads, TakeFrame(t) PROVE Lost' = Lost
    <2>1. /\ call[t].pc = "inside" /\ call[t].op = "pop"
          /\ frames' = [frames EXCEPT ![read_index].data = NULL]
          /\ call' = [call EXCEPT ![t].frame = frames[read_index],
                                  ![t].pc = "index"]
          /\ UNCHANGED <<alive, memory>>
      BY <1>5 DEF TakeFrame, At, ClearPointer
    <2>2. alive BY <2>1, InsideAlone DEF Inside
    <2>3. call[t].frame.data = NULL /\ read_index \in Slots
      BY <2>1, <1>c DEF CallInv, NoFrame, TypeOK
    <2>4. /\ call'[t].frame = frames[read_index]
          /\ \A s \in Threads : s # t => call'[s] = call[s]
          /\ frames'[read_index].data = NULL
          /\ \A i \in Slots : i # read_index => frames'[i] = frames[i]
      BY <2>1, <2>3, <1>c DEF TypeOK, Calls, VideoFrames
    <2>5. \A b \in Blocks : Held(b)' <=> Held(b)
      <3>1. TAKE b \in Blocks
      <3>2. Held(b)' => Held(b) BY <2>1, <2>2, <2>3, <2>4 DEF Held
      <3>3. Held(b) => Held(b)' BY <2>1, <2>2, <2>3, <2>4 DEF Held
      <3> QED BY <3>2, <3>3
    <2> QED BY <2>1, <2>5, <1>s
  <1>6. ASSUME NEW t \in Threads, Return(t) PROVE Lost' = Lost
    <2>1. /\ call'[t] = Idle
          /\ \A s \in Threads : s # t => call'[s] = call[s]
          /\ \A b \in Blocks : memory'[b] = IF b = call[t].frame.data
                                            THEN NULL ELSE memory[b]
          /\ UNCHANGED <<frames, alive>>
      BY <1>6, <1>c DEF Return, ring, TypeOK
    <2>2. \A b \in Blocks : b # call[t].frame.data =>
                                (Held(b)' <=> Held(b))
      BY <2>1 DEF Held, Idle, NoFrame
    <2>3. \A b \in Blocks : b = call[t].frame.data =>
                                Held(b) /\ memory'[b] = NULL
      BY <2>1 DEF Held
    <2> QED BY <2>1, <2>2, <2>3, <1>s
  <1>7. ASSUME Destroy, read_index = 0 PROVE Lost' = Lost
    <2>1. /\ \A b \in Blocks : memory'[b] =
                 IF \E i \in FreedSlots : frames[i].data = b
                   THEN NULL ELSE memory[b]
          /\ alive /\ ~alive'
          /\ UNCHANGED call
          /\ \A t \in Threads : call[t].pc = "idle"
      BY <1>7 DEF Destroy
    <2>a. \A t \in Threads : call[t].frame.data = NULL
                             /\ call[t].op = "none"
      <3>1. \A t \in Threads : call[t].frame = NoFrame
                              /\ call[t].op = "none"
        BY <2>1, <1>c DEF CallInv
      <3> QED BY <3>1 DEF NoFrame
    <2>2. \A k \in 0 .. count - 1 : SlotAt(k) = k
      <3>1. TAKE k \in 0 .. count - 1
      <3>2. k \in 0 .. Capacity /\ k < Capacity BY <1>c, SMT DEF TypeOK
      <3>3. SlotAt(k) = IF 0 + k < Capacity THEN 0 + k
                                            ELSE 0 + k - Capacity
        BY <3>2, <1>c, <1>7, SlotAtIs
      <3> QED BY <3>2, <3>3, SMT
    <2>3. \A i \in Slots : frames[i].data # NULL => i \in FreedSlots
      BY <2>1, <2>a, <2>2 DEF IInv, RingInv, FreedSlots, At
    <2>4. FreedSlots \subseteq Slots
      BY <1>c, SMT DEF FreedSlots, Slots, TypeOK
    <2>5. \A b \in Blocks : b # NULL /\ ~Held(b)' BY <2>1, <2>a DEF Held
    <2>6. \A b \in Blocks :
             Held(b) <=> \E i \in FreedSlots : frames[i].data = b
      BY <2>1, <2>a, <2>3, <2>4 DEF Held
    <2> QED BY <2>1, <2>5, <2>6, <1>s
  <1>8. ASSUME Destroy PROVE alive /\ ~alive' BY <1>8 DEF Destroy
  <1>9. ASSUME NEW t \in Threads, NEW p, call' = [call EXCEPT ![t].pc = p]
        PROVE  \A s \in Threads : call'[s].frame = call[s].frame
    BY <1>9, <1>c DEF TypeOK, Calls
  <1>10. ASSUME NEW t \in Threads,
                \/ Wait(t) \/ Post(t) \/ PushRefused(t) \/ PopRefused(t)
                \/ ReadSize(t) \/ PushFrame(t) \/ PopFrame(t)
         PROVE  Lost' = Lost
    <2>1. UNCHANGED <<frames, alive, memory>>
      BY <1>10 DEF Wait, Post, PushRefused, PopRefused, ReadSize, PushFrame,
                   PopFrame, Settle, ring
    <2>2. \E p : call' = [call EXCEPT ![t].pc = p]
      BY <1>10 DEF Wait, Post, PushRefused, PopRefused, ReadSize, PushFrame,
                   PopFrame, Settle
    <2> QED BY <2>1, <2>2, <1>2, <1>9
  <1>11. CASE UNCHANGED vars BY <1>11, <1>2 DEF vars, ring
  <1>12. ASSUME NEW t \in Threads, NEW f \in Ids, PushWithoutData(t, f)
         PROVE  Lost' = Lost
    BY <1>12, <1>1 DEF PushWithoutData, VideoFrames
  <1>13. ASSUME NEW t \in Threads, NEW f \in Ids, NEW b \in Blocks,
                PushWithData(t, f, b)
         PROVE  Lost' = Lost
    BY <1>13, <1>1 DEF PushWithData, VideoFrames
  <1>14. ASSUME NEW t \in Threads, StartPop(t) \/ StartSize(t)
         PROVE  Lost' = Lost
    BY <1>14, <1>1 DEF StartPop, StartSize, VideoFrames, NoFrame
  <1> QED BY <1>3, <1>4, <1>5, <1>6, <1>7, <1>8, <1>10, <1>11, <1>12, <1>13,
             <1>14
       DEF Next, Destroyed

(* Push and pop lose no block.                                             *)
THEOREM PushAndPopLoseNone == Spec => OnlyDestroyLoses
  <1>1. IInv /\ [Next]_vars => [alive' => Lost' = Lost]_vars
    BY NothingLostStep
  <1> QED BY <1>1, Invariant, PTL DEF Spec, OnlyDestroyLoses

-----------------------------------------------------------------------------
(* The buffer is a queue.                                                  *)

(* A step that leaves the frames in the ring, and the indices, keeps the   *)
(* contents.                                                               *)
LEMMA ContentsKept ==
    ASSUME IInv, UNCHANGED <<count, read_index>>,
           \A k \in 0 .. count - 1 :
              frames'[SlotAt(k)].id = frames[SlotAt(k)].id
    PROVE  Contents' = Contents
  <1>1. count \in Nat BY SMT DEF IInv, TypeOK
  <1>2. \A i \in 1 .. count : i - 1 \in 0 .. count - 1 BY <1>1, SMT
  <1>3. \A i \in 1 .. count : SlotAt(i - 1)' = SlotAt(i - 1) BY DEF SlotAt
  <1>4. \A i \in 1 .. count :
           frames'[SlotAt(i - 1)'].id = frames[SlotAt(i - 1)].id
    BY <1>2, <1>3
  <1> QED BY <1>4 DEF Contents

(* push appends its frame. *)
LEMMA ContentsPushed ==
    ASSUME IInv, NEW t \in Threads, PushFrame(t)
    PROVE  /\ Contents' = Append(Contents, call[t].frame.id)
           /\ call[t].frame.id \in Ids
           /\ Len(Contents) < Capacity
  <1> USE ConstantsAssumption
  <1>1. /\ count' = count + 1 /\ count < Capacity
        /\ UNCHANGED <<frames, read_index>>
        /\ frames[write_index].id = call[t].frame.id
        /\ call[t].frame.id \in Ids
    BY DEF PushFrame, At, Settle, IInv, CallInv, TypeOK, Calls, VideoFrames
  <1>2. count \in Nat /\ write_index = SlotAt(count)
    BY SMT DEF IInv, TypeOK, RingInv
  <1>3. \A k : SlotAt(k)' = SlotAt(k) BY <1>1 DEF SlotAt
  <1>4. Len(Contents) = count BY <1>2 DEF Contents
  <1>5. Contents' = [i \in 1 .. count + 1 |-> frames[SlotAt(i - 1)].id]
    BY <1>1, <1>3 DEF Contents
  <1> DEFINE s(i) == frames[SlotAt(i - 1)].id
             long == [i \in 1 .. count + 1 |-> s(i)]
             short == [i \in 1 .. count |-> s(i)]
  <1>6. s(count + 1) = call[t].frame.id
    <2>1. (count + 1) - 1 = count BY <1>2, SMT
    <2> QED BY <2>1, <1>1, <1>2
  <1> HIDE DEF s
  <1>7. long = Append(short, s(count + 1)) BY <1>2
  <1>8. Contents = short /\ Contents' = long BY <1>5 DEF Contents, s
  <1> QED BY <1>1, <1>4, <1>6, <1>7, <1>8

(* pop returns the first frame and leaves the others. *)
LEMMA ContentsPopped ==
    ASSUME IInv, NEW t \in Threads, PopFrame(t)
    PROVE  /\ Contents' = Tail(Contents)
           /\ Contents # <<>>
           /\ Head(Contents) = call[t].frame.id
  <1> USE ConstantsAssumption
  <1>1. /\ count' = count - 1 /\ count # 0
        /\ UNCHANGED frames
        /\ frames[read_index].id = call[t].frame.id
    <2>1. frames[read_index] = [call[t].frame EXCEPT !.data = NULL]
          /\ count # 0 /\ call[t].frame \in VideoFrames
      BY DEF PopFrame, At, IInv, CallInv, TypeOK, Calls
    <2>2. frames[read_index].id = call[t].frame.id BY <2>1 DEF VideoFrames
    <2> QED BY <2>1, <2>2 DEF PopFrame
  <1>2. count \in Nat /\ count \in 1 .. Capacity /\ count - 1 \in Nat
    BY <1>1, SMT DEF IInv, TypeOK
  <1>3. SlotAt(0) = read_index
    BY <1>2, SlotAtIs, SMT DEF IInv, TypeOK, Slots
  <1>4. \A k \in 0 .. count - 1 :
           (read_index' + k) % Capacity = SlotAt(k + 1)
    BY PopFramePreserves
  <1> DEFINE s(i) == frames[SlotAt(i - 1)].id
             long == [i \in 1 .. count |-> s(i)]
             short == [i \in 1 .. count - 1 |-> s(i + 1)]
  <1>5. Contents' = short
    <2>1. Contents' = [i \in 1 .. count - 1 |->
                         frames[(read_index' + (i - 1)) % Capacity].id]
      BY <1>1 DEF Contents, SlotAt
    <2>2. \A i \in 1 .. count - 1 :
             /\ i - 1 \in 0 .. count - 1
             /\ (i - 1) + 1 = (i + 1) - 1
      BY <1>2, SMT
    <2>3. \A i \in 1 .. count - 1 :
             frames[(read_index' + (i - 1)) % Capacity].id = s(i + 1)
      BY <2>2, <1>4
    <2> HIDE DEF s
    <2> QED BY <2>1, <2>3
  <1>6. Contents = long BY DEF Contents
  <1>7. s(1) = call[t].frame.id
    <2>1. 1 - 1 = 0 BY SMT
    <2> QED BY <2>1, <1>1, <1>3
  <1> HIDE DEF s
  <1>8. short = Tail(long) /\ long # <<>> /\ Head(long) = s(1)
    <2>1. Len(long) = count BY <1>2
    <2>2. long # <<>> BY <2>1, <1>2
    <2>3. Head(long) = s(1) BY <1>2
    <2>4. short = Tail(long) BY <1>2, <2>1
    <2> QED BY <2>2, <2>3, <2>4
  <1> QED BY <1>5, <1>6, <1>7, <1>8

LEMMA InitQueue == Init => Queue!Init
  <1> SUFFICES ASSUME Init PROVE Queue!Init OBVIOUS
  <1>1. 1 .. count = {} BY SMT DEF Init
  <1>2. Contents = <<>> BY <1>1 DEF Contents
  <1> QED BY <1>2 DEF Init, Queue!Init, Queue!NoResult

LEMMA NextQueue ==
    IInv /\ [Next]_vars => [Queue!Next]_<<Contents, result>>
  <1> SUFFICES ASSUME IInv, [Next]_vars
               PROVE  Queue!Next \/ UNCHANGED <<Contents, result>>
    OBVIOUS
  <1> USE ConstantsAssumption
  <1>a. TypeOK /\ \A t \in Threads : CallInv(t) BY DEF IInv
  <1>b. Len(Contents) = count /\ (count = 0 <=> Contents = <<>>)
    <2>1. count \in Nat BY <1>a, SMT DEF TypeOK
    <2>2. Len(Contents) = count BY <2>1 DEF Contents
    <2>3. count = 0 => Contents = <<>>
      <3>1. count = 0 => 1 .. count = {} BY SMT
      <3> QED BY <3>1 DEF Contents
    <2> QED BY <2>2, <2>3
  <1>c. ASSUME UNCHANGED ring PROVE Contents' = Contents
    BY <1>c DEF ring, Contents, SlotAt
  <1>1. ASSUME NEW t \in Threads, NEW op, NEW frame, Enter(t, op, frame)
        PROVE  UNCHANGED <<Contents, result>>
    BY <1>1, <1>c DEF Enter
  <1>2. ASSUME NEW t \in Threads, Wait(t) \/ Post(t) \/ Return(t)
        PROVE  UNCHANGED <<Contents, result>>
    BY <1>2, <1>c DEF Wait, Post, Return
  <1>3. ASSUME NEW t \in Threads, PushRefused(t) PROVE Queue!PushRefused(t)
    <2>1. count = Capacity BY <1>3, <1>a, SMT DEF PushRefused, Full, TypeOK
    <2> QED BY <2>1, <1>3, <1>b, <1>c
         DEF PushRefused, Settle, Queue!PushRefused, Queue!NoResult
  <1>4. ASSUME NEW t \in Threads, PopRefused(t) PROVE Queue!PopRefused(t)
    BY <1>4, <1>b, <1>c
    DEF PopRefused, Settle, Queue!PopRefused, Queue!NoResult
  <1>5. ASSUME NEW t \in Threads, ReadSize(t) PROVE Queue!Size(t)
    BY <1>5, <1>b, <1>c DEF ReadSize, Settle, Queue!Size, Queue!Counted
  <1>6. ASSUME NEW t \in Threads, StoreFrame(t)
        PROVE  UNCHANGED <<Contents, result>>
    <2>1. /\ count < Capacity
          /\ frames' = [frames EXCEPT ![write_index] = call[t].frame]
          /\ UNCHANGED <<count, read_index, result>>
      BY <1>6, <1>a, SMT DEF StoreFrame, Full, TypeOK
    <2>2. \A k \in 0 .. count - 1 : frames'[SlotAt(k)] = frames[SlotAt(k)]
      BY <2>1, <1>a, WriteIndexFree DEF TypeOK
    <2> QED BY <2>1, <2>2, ContentsKept
  <1>7. ASSUME NEW t \in Threads, NEW b \in Blocks, CopyData(t, b)
        PROVE  UNCHANGED <<Contents, result>>
    <2>1. UNCHANGED <<count, read_index, result>> BY <1>7 DEF CopyData
    <2>2. \A i \in Slots : frames'[i].id = frames[i].id
      BY <1>7, <1>a DEF CopyData, TypeOK, VideoFrames
    <2>3. \A k \in 0 .. count - 1 : SlotAt(k) \in Slots
      <3>1. \A k \in 0 .. count - 1 : k \in 0 .. Capacity
        BY <1>a, SMT DEF TypeOK
      <3> QED BY <3>1, <1>a, SlotAtIs
    <2> QED BY <2>1, <2>2, <2>3, ContentsKept
  <1>8. ASSUME NEW t \in Threads, TakeFrame(t)
        PROVE  UNCHANGED <<Contents, result>>
    <2>1. UNCHANGED <<count, read_index, result>> BY <1>8 DEF TakeFrame
    <2>2. \A i \in Slots : frames'[i].id = frames[i].id
      BY <1>8, <1>a DEF TakeFrame, ClearPointer, TypeOK, VideoFrames
    <2>3. \A k \in 0 .. count - 1 : SlotAt(k) \in Slots
      <3>1. \A k \in 0 .. count - 1 : k \in 0 .. Capacity
        BY <1>a, SMT DEF TypeOK
      <3> QED BY <3>1, <1>a, SlotAtIs
    <2> QED BY <2>1, <2>2, <2>3, ContentsKept
  <1>9. ASSUME NEW t \in Threads, PushFrame(t)
        PROVE  \E f \in Ids : Queue!Push(t, f)
    <2>1. Queue!Push(t, call[t].frame.id)
      BY <1>9, ContentsPushed
      DEF PushFrame, Settle, Queue!Push, Queue!Pushed
    <2> QED BY <2>1, <1>9, ContentsPushed
  <1>10. ASSUME NEW t \in Threads, PopFrame(t) PROVE Queue!Pop(t)
    BY <1>10, ContentsPopped DEF PopFrame, Settle, Queue!Pop, Queue!Popped
  <1>11. ASSUME Destroy PROVE Queue!Destroy
    <2>1. count' = 0 /\ result' = result BY <1>11 DEF Destroy
    <2>2. 1 .. 0 = {} BY SMT
    <2>3. Contents' = <<>> BY <2>1, <2>2 DEF Contents
    <2> QED BY <2>1, <2>3 DEF Queue!Destroy
  <1>12. CASE UNCHANGED vars BY <1>12, <1>c DEF vars
  <1>13. ASSUME NEW t \in Threads,
                \/ \E f \in Ids : \/ PushWithoutData(t, f)
                                  \/ \E b \in Blocks : PushWithData(t, f, b)
                \/ StartPop(t) \/ StartSize(t)
         PROVE  UNCHANGED <<Contents, result>>
    BY <1>13, <1>1 DEF PushWithoutData, PushWithData, StartPop, StartSize
  <1> QED BY <1>2, <1>3, <1>4, <1>5, <1>6, <1>7, <1>8, <1>9, <1>10, <1>11,
             <1>12, <1>13
       DEF Next, Destroyed, Queue!Next

(* The ring, its indices and its semaphore implement a bounded first-in    *)
(* first-out queue: every call takes effect at one instant, refused        *)
(* exactly when the queue is full or empty.                                *)
THEOREM BufferIsQueue == Spec => QueueSpec
  <1>1. IInv /\ [Next]_vars => [Queue!Next]_<<Contents, result>>
    BY NextQueue
  <1> QED BY <1>1, InitQueue, Invariant, PTL DEF Spec, QueueSpec, Queue!Spec

=============================================================================
