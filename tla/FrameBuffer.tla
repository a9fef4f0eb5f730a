----------------------------- MODULE FrameBuffer -----------------------------
(***************************************************************************)
(* The frame buffer of the receiver source (sei-receiver-source.c:41-151): *)
(* a ring of slots between two indices, a count, and a semaphore, shared   *)
(* by any number of threads that push, pop and ask for the size.  It       *)
(* exchanges memory with them: push keeps a copy of the caller's pixels,   *)
(* pop hands the copy over and the caller frees it, destroy frees the      *)
(* rest.                                                                   *)
(*                                                                         *)
(* The callers are external: the plugin itself creates and destroys the    *)
(* buffer and calls nothing else of it.  They free what they own when      *)
(* their call is over and do not call during or after destroy.             *)
(***************************************************************************)
EXTENDS Naturals

CONSTANTS
    Threads,     \* the callers
    Ids,         \* the frames they push
    Blocks,      \* blocks of memory
    Capacity,    \* MAX_FRAME_BUFFER
    NULL

ASSUME ConstantsAssumption ==
    /\ Capacity \in Nat \ {0}
    /\ NULL \notin Ids \cup Blocks

VARIABLES
    frames,        \* the slots of the ring
    count,
    read_index,
    write_index,
    semaphore,
    alive,         \* the buffer has not been destroyed
    memory,        \* the frame whose pixels a block holds, NULL if it is free
    call,          \* for each thread, the call it is in
    result         \* what its last call returned, from when that is settled

ring == <<frames, count, read_index, write_index>>
vars == <<ring, semaphore, alive, memory, call, result>>

-----------------------------------------------------------------------------

Slots == 0 .. Capacity - 1

(* A video_frame_data_t: which frame it is, and its block of pixels. *)
VideoFrames == [id : Ids \cup {NULL}, data : Blocks \cup {NULL}]

NoFrame == [id |-> NULL, data |-> NULL]

Idle == [op |-> "none", pc |-> "idle", frame |-> NoFrame]

(* The slot k places after the oldest frame's. *)
SlotAt(k) == (read_index + k) % Capacity

(* The frames in the ring, oldest first. *)
Contents == [i \in 1 .. count |-> frames[SlotAt(i - 1)].id]

Queue == INSTANCE BoundedQueue WITH queue <- Contents

Init ==
    /\ frames = [i \in Slots |-> NoFrame]
    /\ count = 0 /\ read_index = 0 /\ write_index = 0
    /\ semaphore = 1
    /\ alive = TRUE
    /\ memory = [b \in Blocks |-> NULL]
    /\ call = [t \in Threads |-> Idle]
    /\ result = [t \in Threads |-> Queue!NoResult]

-----------------------------------------------------------------------------
(* The caller, and the semaphore around every operation.                   *)

(* A caller enters an operation; a frame it pushes is in a block of its    *)
(* own, or has no pixels.                                                  *)
Enter(t, op, frame) ==
    /\ alive
    /\ call[t].pc = "idle"
    /\ call' = [call EXCEPT ![t] = [op |-> op, pc |-> "wait",
                                    frame |-> frame]]
    /\ UNCHANGED <<ring, semaphore, alive, result>>

PushWithData(t, f, b) ==
    /\ memory[b] = NULL
    /\ memory' = [memory EXCEPT ![b] = f]
    /\ Enter(t, "push", [id |-> f, data |-> b])

PushWithoutData(t, f) ==
    Enter(t, "push", [id |-> f, data |-> NULL]) /\ UNCHANGED memory

StartPop(t)  == Enter(t, "pop", NoFrame) /\ UNCHANGED memory
StartSize(t) == Enter(t, "size", NoFrame) /\ UNCHANGED memory

(* Faulty: the semaphore is not waited for. *)
DoNotWait(t) ==
    /\ call[t].pc = "wait"
    /\ semaphore' = 0
    /\ call' = [call EXCEPT ![t].pc = "inside"]
    /\ UNCHANGED <<ring, alive, memory, result>>

(* os_sem_wait. *)
Wait(t) ==
    /\ call[t].pc = "wait"
    /\ semaphore = 1
    /\ semaphore' = 0
    /\ call' = [call EXCEPT ![t].pc = "inside"]
    /\ UNCHANGED <<ring, alive, memory, result>>

(* os_sem_post. *)
Post(t) ==
    /\ call[t].pc = "post"
    /\ semaphore' = 1
    /\ call' = [call EXCEPT ![t].pc = "return"]
    /\ UNCHANGED <<ring, alive, memory, result>>

(* Thread t is at the place pc of the operation op. *)
At(t, op, pc) == call[t].op = op /\ call[t].pc = pc

(* The operation is over and returns r. *)
Settle(t, r) ==
    /\ result' = [result EXCEPT ![t] = r]
    /\ call' = [call EXCEPT ![t].pc = "post"]
    /\ UNCHANGED <<semaphore, alive, memory>>

(* Back in the caller, which frees its block: the one it pushed from, or   *)
(* the one it was given.                                                   *)
Return(t) ==
    /\ call[t].pc = "return"
    /\ memory' = [b \in Blocks |->
                    IF b = call[t].frame.data THEN NULL ELSE memory[b]]
    /\ call' = [call EXCEPT ![t] = Idle]
    /\ UNCHANGED <<ring, semaphore, alive, result>>

-----------------------------------------------------------------------------
(* frame_buffer_push.                                                      *)

(* Faulty: full is noticed one frame late. *)
FullLate == count > Capacity

Full == count >= Capacity

PushRefused(t) ==
    /\ At(t, "push", "inside")
    /\ Full
    /\ Settle(t, Queue!NoResult)
    /\ UNCHANGED ring

(* The slot gets the caller's frame, and with it the caller's block. *)
StoreFrame(t) ==
    /\ At(t, "push", "inside")
    /\ ~Full
    /\ frames' = [frames EXCEPT ![write_index] = call[t].frame]
    /\ call' = [call EXCEPT ![t].pc = "copy"]
    /\ UNCHANGED <<count, read_index, write_index, semaphore, alive, memory,
                   result>>

(* Faulty: the slot keeps the caller's block. *)
KeepData(t, b) ==
    /\ At(t, "push", "copy")
    /\ call' = [call EXCEPT ![t].pc = "index"]
    /\ UNCHANGED <<ring, semaphore, alive, memory, result>>

(* Pixels are copied to a block of the slot's own. *)
CopyData(t, b) ==
    /\ At(t, "push", "copy")
    /\ LET data == call[t].frame.data
       IN  IF data = NULL
             THEN UNCHANGED <<frames, memory>>
             ELSE /\ memory[b] = NULL
                  /\ memory' = [memory EXCEPT ![b] = memory[data]]
                  /\ frames' = [frames EXCEPT ![write_index].data = b]
    /\ call' = [call EXCEPT ![t].pc = "index"]
    /\ UNCHANGED <<count, read_index, write_index, semaphore, alive, result>>

PushFrame(t) ==
    /\ At(t, "push", "index")
    /\ write_index' = (write_index + 1) % Capacity
    /\ count' = count + 1
    /\ Settle(t, Queue!Pushed)
    /\ UNCHANGED <<frames, read_index>>

-----------------------------------------------------------------------------
(* frame_buffer_pop and frame_buffer_size.                                 *)

PopRefused(t) ==
    /\ At(t, "pop", "inside")
    /\ count = 0
    /\ Settle(t, Queue!NoResult)
    /\ UNCHANGED ring

(* Faulty: the slot keeps its pointer. *)
KeepPointer(i) == frames

(* The pointer of a slot is cleared, its block is the caller's now. *)
ClearPointer(i) == [frames EXCEPT ![i].data = NULL]

TakeFrame(t) ==
    /\ At(t, "pop", "inside")
    /\ count # 0
    /\ call' = [call EXCEPT ![t].frame = frames[read_index],
                            ![t].pc = "index"]
    /\ frames' = ClearPointer(read_index)
    /\ UNCHANGED <<count, read_index, write_index, semaphore, alive, memory,
                   result>>

(* Faulty: the read index does not wrap with the write index. *)
PopFrameWithoutWrap(t) ==
    /\ At(t, "pop", "index")
    /\ read_index' = IF read_index + 1 < Capacity THEN read_index + 1
                                                  ELSE read_index
    /\ count' = count - 1
    /\ Settle(t, Queue!Popped(call[t].frame.id))
    /\ UNCHANGED <<frames, write_index>>

PopFrame(t) ==
    /\ At(t, "pop", "index")
    /\ read_index' = (read_index + 1) % Capacity
    /\ count' = count - 1
    /\ Settle(t, Queue!Popped(call[t].frame.id))
    /\ UNCHANGED <<frames, write_index>>

ReadSize(t) ==
    /\ At(t, "size", "inside")
    /\ Settle(t, Queue!Counted(count))
    /\ UNCHANGED ring

-----------------------------------------------------------------------------

(* The slots destroy frees: the first ones, wherever the frames are. *)
FreedSlots == 0 .. count - 1

(* frame_buffer_destroy, when no caller is inside. *)
Destroy ==
    /\ alive
    /\ \A t \in Threads : call[t].pc = "idle"
    /\ semaphore = 1
    /\ memory' = [b \in Blocks |->
                    IF \E i \in FreedSlots : frames[i].data = b
                      THEN NULL ELSE memory[b]]
    /\ frames' = [i \in Slots |-> IF i \in FreedSlots
                                    THEN [frames[i] EXCEPT !.data = NULL]
                                    ELSE frames[i]]
    /\ count' = 0 /\ read_index' = 0 /\ write_index' = 0
    /\ alive' = FALSE
    /\ UNCHANGED <<semaphore, call, result>>

(* After destroy nothing happens. *)
Destroyed == ~alive /\ UNCHANGED vars

Next ==
    \/ \E t \in Threads :
          \/ \E f \in Ids : \/ PushWithoutData(t, f)
                            \/ \E b \in Blocks : PushWithData(t, f, b)
          \/ StartPop(t) \/ StartSize(t)
          \/ Wait(t) \/ Post(t) \/ Return(t)
          \/ PushRefused(t) \/ StoreFrame(t)
          \/ \E b \in Blocks : CopyData(t, b)
          \/ PushFrame(t)
          \/ PopRefused(t) \/ TakeFrame(t) \/ PopFrame(t)
          \/ ReadSize(t)
    \/ Destroy
    \/ Destroyed

Spec == Init /\ [][Next]_vars

-----------------------------------------------------------------------------
(* Properties.                                                             *)

Calls == [op : {"none", "push", "pop", "size"},
          pc : {"idle", "wait", "inside", "copy", "index", "post", "return"},
          frame : VideoFrames]

(* The values the variables take; the ring never holds more than fits.     *)
TypeOK ==
    /\ frames \in [Slots -> VideoFrames]
    /\ count \in 0 .. Capacity
    /\ read_index \in Slots
    /\ write_index \in Slots
    /\ semaphore \in {0, 1}
    /\ alive \in BOOLEAN
    /\ memory \in [Blocks -> Ids \cup {NULL}]
    /\ call \in [Threads -> Calls]
    /\ result \in [Threads -> [ok : BOOLEAN, id : Ids \cup {NULL},
                               size : 0 .. Capacity]]

(* What push and pop exchange is intact: a frame in the ring, or in the    *)
(* hands of a caller, has a block with its own pixels, or none at all,     *)
(* whatever the other callers have pushed, popped and freed meanwhile.     *)
Intact(frame) == frame.data # NULL => /\ frame.id # NULL
                                      /\ memory[frame.data] = frame.id

PixelsIntact ==
    /\ \A i \in Slots : Intact(frames[i])
    /\ \A t \in Threads : Intact(call[t].frame)

(* The slots that own what they point to: all but the one a push has       *)
(* stored its caller's frame in and not yet copied the pixels for.         *)
Owning == {i \in Slots : \A t \in Threads :
                            At(t, "push", "copy") => i # write_index}

(* A block is freed once: no two callers, no two slots, and no caller and  *)
(* slot point to the same one, the slots outside the ring included, which  *)
(* destroy may come across.                                                *)
OneOwner ==
    /\ \A s, t \in Threads :
          s # t /\ call[s].frame.data # NULL =>
              call[s].frame.data # call[t].frame.data
    /\ \A i, j \in Owning :
          i # j /\ frames[i].data # NULL => frames[i].data # frames[j].data
    /\ \A t \in Threads, i \in Owning :
          frames[i].data # NULL => frames[i].data # call[t].frame.data

(* The blocks in use that neither a slot nor a caller can free any more. *)
Lost == {b \in Blocks :
           /\ memory[b] # NULL
           /\ \A t \in Threads : call[t].frame.data # b
           /\ alive => \A i \in Slots : frames[i].data # b}

(* Push and pop lose no block, whoever else pushes and pops: a block in    *)
(* use is always in a slot or with a caller that will free it.             *)
OnlyDestroyLoses == [][alive' => Lost' = Lost]_vars

(* "Free all frame data" (sei-receiver-source.c:61, over destroy's loop):  *)
(* after destroy no block is left in use that nobody can free.  The loop   *)
(* runs over the slots before count and not over those from read_index on. *)
DestroyFreesAll == ~alive => Lost = {}

(* The buffer is a bounded first-in first-out queue.                       *)
QueueSpec == Queue!Spec

-----------------------------------------------------------------------------
(* The inductive invariant behind them.                                    *)

(* Between os_sem_wait and os_sem_post. *)
Inside(t) == call[t].pc \in {"inside", "copy", "index", "post"}

(* The semaphore admits one thread; once destroyed, nobody. *)
SemaphoreInv ==
    /\ \A t \in Threads : Inside(t) => semaphore = 0
    /\ \A s, t \in Threads : Inside(s) /\ Inside(t) => s = t
    /\ ~alive => \A t \in Threads : call[t].pc = "idle"

(* What a call holds at each of its places. *)
CallInv(t) ==
    /\ call[t].op = "none" <=> call[t].pc = "idle"
    /\ call[t].pc = "idle" => call[t].frame = NoFrame
    /\ call[t].op = "push" => call[t].frame.id # NULL
    /\ call[t].op = "size" =>
          call[t].frame = NoFrame /\ call[t].pc \notin {"copy", "index"}
    /\ call[t].op = "pop" =>
          /\ call[t].pc # "copy"
          /\ call[t].pc \in {"wait", "inside"} => call[t].frame = NoFrame
    /\ call[t].op = "push" /\ call[t].pc \in {"copy", "index"} =>
          /\ count < Capacity
          /\ frames[write_index].id = call[t].frame.id
          /\ call[t].pc = "copy" => frames[write_index] = call[t].frame
    /\ At(t, "pop", "index") =>
          /\ count # 0
          /\ frames[read_index] = [call[t].frame EXCEPT !.data = NULL]

(* The write index is count places after the read index, and outside the   *)
(* ring no slot points to a block, but for the one being written.          *)
RingInv ==
    /\ write_index = SlotAt(count)
    /\ alive => \A i \in Slots :
          frames[i].data # NULL =>
              \/ \E k \in 0 .. count - 1 : i = SlotAt(k)
              \/ /\ i = write_index
                 /\ \E t \in Threads : \/ At(t, "push", "copy")
                                       \/ At(t, "push", "index")

IInv ==
    /\ TypeOK
    /\ SemaphoreInv
    /\ \A t \in Threads : CallInv(t)
    /\ RingInv
    /\ PixelsIntact
    /\ OneOwner

=============================================================================
