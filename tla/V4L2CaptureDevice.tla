------------------------- MODULE V4L2CaptureDevice -------------------------
(***************************************************************************)
(* The V4L2 capture device object (src/src/v4l2_capture_device.cpp) as     *)
(* operators over one record, the object's members together with what they *)
(* stand for in the kernel:                                                *)
(*                                                                         *)
(*   fd         fd_ >= 0                                                   *)
(*   streaming  streaming_                                                 *)
(*   buffers    buffers_.size(): mappings the object knows of              *)
(*   lost_fd    an open descriptor was overwritten and never closed        *)
(*   lost_maps  live mappings that buffers_ no longer records              *)
(*   pinned     buffers dequeued and not given back to the driver          *)
(*                                                                         *)
(* What the kernel answers to an ioctl is an argument of the operator.     *)
(***************************************************************************)
EXTENDS Naturals

CONSTANT BufferCount  \* the buffer_count setting: what REQBUFS asks for

ASSUME BufferCountAssumption == BufferCount \in Nat

Device == [fd: BOOLEAN, streaming: BOOLEAN, buffers: Nat,
           lost_fd: BOOLEAN, lost_maps: Nat, pinned: Nat]

OpenResult == {"Opened", "Absent"}

\* How far start_streaming gets: whether REQBUFS succeeds, how many buffers
\* are then mapped, and whether every later ioctl up to STREAMON succeeds.
StartAnswer == [reqbufs: BOOLEAN, mapped: 0..BufferCount, on: BOOLEAN]

Started(s) == s.reqbufs /\ s.on

NewDevice == [fd |-> FALSE, streaming |-> FALSE, buffers |-> 0,
              lost_fd |-> FALSE, lost_maps |-> 0, pinned |-> 0]

-----------------------------------------------------------------------------

\* munmap every recorded buffer and forget it.
unmap_buffers(d) == [d EXCEPT !.buffers = 0]

\* fd_ is assigned whatever ::open returned, whether or not it held one.
open(d, r) == [d EXCEPT !.fd = (r = "Opened"), !.lost_fd = @ \/ d.fd]

\* Closing the descriptor makes the driver take every buffer back.
close(d) == [unmap_buffers(d) EXCEPT !.fd = FALSE, !.pinned = 0]

\* Every error exit after REQBUFS returns without unmapping.
StartKeepsBuffersOnError(d, s) ==
    IF ~s.reqbufs THEN d
    ELSE [d EXCEPT !.lost_maps = @ + d.buffers, !.buffers = s.mapped,
                   !.streaming = s.on \/ @]

\* REQBUFS, then per buffer QUERYBUF, mmap, QBUF, then STREAMON.  buffers_ is
\* cleared, not unmapped, once REQBUFS has succeeded; every error after that
\* unmaps what this call had mapped.
start_streaming(d, s) ==
    LET mapped == [d EXCEPT !.lost_maps = @ + d.buffers, !.buffers = s.mapped]
    IN  IF ~s.reqbufs THEN d
        ELSE IF s.on THEN [mapped EXCEPT !.streaming = TRUE]
        ELSE unmap_buffers(mapped)

\* STREAMOFF, when it is issued, makes the driver take every buffer back.
stop_streaming(d) ==
    [unmap_buffers(d) EXCEPT !.streaming = FALSE,
                             !.pinned = IF d.streaming THEN 0 ELSE @]

\* A successful DQBUF.
dequeue_frame(d) == [d EXCEPT !.pinned = @ + 1]

\* QBUF; its result is ignored, so a refused buffer stays pinned.
requeue_frame(d, accepted) == [d EXCEPT !.pinned = IF accepted THEN @ - 1 ELSE @]
=============================================================================
