-------------------------------- MODULE Fifo --------------------------------
(***************************************************************************)
(* The kernel's named pipe, as far as servod.cc and its clients see it.    *)
(* The pipe exists while somebody has it open: what is in it is lost when  *)
(* the last of them closes.  The daemon opens it with O_NONBLOCK for       *)
(* reading; a client's open waits for a reader.                            *)
(***************************************************************************)
EXTENDS Naturals, Sequences

Empty == [data |-> <<>>,       \* lines written and not read
          writers |-> 0,       \* clients that have it open
          reader |-> FALSE,    \* the daemon has it open
          visited |-> FALSE]   \* a writer was seen since the daemon's open

(* read() of the daemon finds data, the end of file, or EAGAIN. *)
AtEOF(f) == f.data = <<>> /\ f.writers = 0
WouldBlock(f) == f.data = <<>> /\ f.writers > 0

(* select() reports data, and a hang-up: the writers have come and gone.   *)
Readable(f) == f.data # <<>> \/ (f.visited /\ f.writers = 0)

OpenReader(f) == [f EXCEPT !.reader = TRUE, !.visited = f.writers > 0]
CloseReader(f) ==
  [f EXCEPT !.reader = FALSE, !.data = IF f.writers = 0 THEN <<>> ELSE @]
First(f, n) == SubSeq(f.data, 1, IF Len(f.data) < n THEN Len(f.data) ELSE n)
Take(f, n) == [f EXCEPT !.data = SubSeq(@, n + 1, Len(@))]

OpenWriter(f) == [f EXCEPT !.writers = @ + 1, !.visited = TRUE]
Put(f, line) == [f EXCEPT !.data = Append(@, line)]
CloseWriter(f) ==
  [f EXCEPT !.writers = @ - 1,
            !.data = IF f.writers = 1 /\ ~f.reader THEN <<>> ELSE @]
=============================================================================
