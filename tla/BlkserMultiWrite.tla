--------------------------- MODULE BlkserMultiWrite ---------------------------
(***************************************************************************)
(* blkser_multi_write.c: a user program that serves two files over a USB  *)
(* bulk gadget device.  main opens the device and the two files, waits    *)
(* for a first packet from the host, forks one child per file, each of    *)
(* which copies its file to the device in BUFFER_SIZE writes, echoes the  *)
(* host's packets back on the same device meanwhile, and then waits for   *)
(* both children.                                                          *)
(*                                                                         *)
(* The device is one stream shared by three processes: every write() is a *)
(* bulk transfer, recorded in `wire` as a piece naming its writer (0 for  *)
(* the parent's echo, k for child k), its index among that writer's       *)
(* writes, and whether all the bytes read went out.  Contents and sizes   *)
(* are abstracted to these.                                                *)
(***************************************************************************)
EXTENDS Integers, Sequences

CONSTANTS
    Chunks,       \* reads of BUFFER_SIZE or less before read() returns 0
    MaxEcho,      \* bound on host packets the parent echoes
    MayFailOpen   \* files (1 = argv[2], 2 = argv[3]) whose open may fail

Kids == 1..2                 \* child k copies file k
Echoer == 0                  \* the parent's writes
\* What write(dest_fd, buffer, bytes_read) returns: all the bytes, fewer,
\* or -1.
WriteResult == {"whole", "partial", "fail"}

ASSUME Chunks \in Nat /\ MaxEcho \in Nat /\ MayFailOpen \subseteq Kids

VARIABLES
    ppc,      \* the parent's place in main
    cur,      \* the child the parent forks or waits for next
    fdOk,     \* fd1, fd2 are open files (not -1)
    cpc,      \* per child: "none" (not forked), "copy", "exited", "killed"
    pos,      \* per child: reads of its file that returned data
    status,   \* per child: exit status, meaningful once "exited"
    wire,     \* the transfers written to the device, in order
    echoes    \* host packets the parent has echoed

vars == <<ppc, cur, fdOk, cpc, pos, status, wire, echoes>>

Piece == [src : {Echoer} \cup Kids, idx : Nat, whole : BOOLEAN]

TypeOK ==
    /\ ppc \in {"open", "read0", "fork", "echo", "wait", "done", "exit"}
    /\ cur \in Kids
    /\ fdOk \in [Kids -> BOOLEAN]
    /\ cpc \in [Kids -> {"none", "copy", "exited", "killed"}]
    /\ pos \in [Kids -> 0..Chunks]
    /\ status \in [Kids -> {0, 1}]
    /\ wire \in Seq(Piece)
    /\ echoes \in 0..MaxEcho

Init ==
    /\ ppc = "open"
    /\ cur = 1
    /\ fdOk = [k \in Kids |-> FALSE]
    /\ cpc = [k \in Kids |-> "none"]
    /\ pos = [k \in Kids |-> 0]
    /\ status = [k \in Kids |-> 0]
    /\ wire = <<>>
    /\ echoes = 0

\* One write() of writer s's i-th buffer; a write returning -1 sends nothing.
Emit(s, i, w) ==
    wire' = IF w = "fail" THEN wire
            ELSE Append(wire, [src |-> s, idx |-> i, whole |-> w = "whole"])

Terminated(k) == cpc[k] \in {"exited", "killed"}

(***************************************************************************)
(* The parent.                                                             *)
(***************************************************************************)
\* main, argument check and the three opens: a wrong argc or a failed open
\* of the device exits; the results of the file opens are never tested
\* (the checks after them test dev_fd again).
Open ==
    /\ ppc = "open"
    /\ \/ /\ ppc' = "exit"
          /\ UNCHANGED fdOk
       \/ /\ ppc' = "read0"
          /\ \E ok \in [Kids -> BOOLEAN] :
               /\ \A k \in Kids : ~ok[k] => k \in MayFailOpen
               /\ fdOk' = ok
    /\ UNCHANGED <<cur, cpc, pos, status, wire, echoes>>

\* main: the first read() blocks until the host sends; whatever it returns,
\* the transfer starts.
FirstRead ==
    /\ ppc = "read0"
    /\ ppc' = "fork"
    /\ UNCHANGED <<cur, fdOk, cpc, pos, status, wire, echoes>>

\* Mutant: the parent goes on forking after the last file.
Fork_pastLast ==
    /\ ppc = "fork"
    /\ \/ /\ ppc' = "exit"
          /\ UNCHANGED <<cur, cpc>>
       \/ /\ cpc' = [cpc EXCEPT ![cur] = "copy"]
          /\ cur' = cur + 1
          /\ UNCHANGED ppc
    /\ UNCHANGED <<fdOk, pos, status, wire, echoes>>

\* copy_file_with_process for file cur: a failed fork exits the parent,
\* leaving a child forked before it running.
Fork ==
    /\ ppc = "fork"
    /\ \/ /\ ppc' = "exit"
          /\ UNCHANGED <<cur, cpc>>
       \/ /\ cpc' = [cpc EXCEPT ![cur] = "copy"]
          /\ IF cur = 2 THEN ppc' = "echo" /\ UNCHANGED cur
                        ELSE cur' = cur + 1 /\ UNCHANGED ppc
    /\ UNCHANGED <<fdOk, pos, status, wire, echoes>>

\* main's echo loop: read() returning 0 or -1 ends it; otherwise the packet
\* is written back, and a short write or a short read ends it.
Echo ==
    /\ ppc = "echo"
    /\ \/ /\ ppc' = "wait"
          /\ cur' = 1
          /\ UNCHANGED <<wire, echoes>>
       \/ /\ echoes < MaxEcho
          /\ echoes' = echoes + 1
          /\ \E full \in BOOLEAN, w \in WriteResult :
               /\ Emit(Echoer, echoes + 1, w)
               /\ IF full /\ w = "whole" THEN UNCHANGED <<ppc, cur>>
                  ELSE ppc' = "wait" /\ cur' = 1
    /\ UNCHANGED <<fdOk, cpc, pos, status>>

\* Mutant: the waitpid loop ends only on WIFEXITED.
Wait_exitedOnly ==
    /\ ppc = "wait"
    /\ cpc[cur] = "exited"
    /\ IF cur = 2 THEN ppc' = "done" /\ UNCHANGED cur
                  ELSE cur' = cur + 1 /\ UNCHANGED ppc
    /\ UNCHANGED <<fdOk, cpc, pos, status, wire, echoes>>

\* blkser_wait_pid(pid1) then (pid2): waitpid reports stops and continues
\* until the child has exited or been killed by a signal; after the
\* second, main returns.
Wait ==
    /\ ppc = "wait"
    /\ Terminated(cur)
    /\ IF cur = 2 THEN ppc' = "done" /\ UNCHANGED cur
                  ELSE cur' = cur + 1 /\ UNCHANGED ppc
    /\ UNCHANGED <<fdOk, cpc, pos, status, wire, echoes>>

(***************************************************************************)
(* The children.                                                           *)
(***************************************************************************)
\* What read(src_fd, buffer, BUFFER_SIZE) can return for child k: -1 on a
\* file that failed to open, 0 at end of file, and otherwise data or -1
\* (an I/O error).
ReadResults(k) ==
    IF ~fdOk[k] THEN {"fail"}
    ELSE IF pos[k] = Chunks THEN {"eof"}
    ELSE {"data", "fail"}

\* copy_file and the child branch of copy_file_with_process: the loop runs
\* while read() returns more than 0, so -1 ends it as 0 does, and the child
\* exits with EXIT_SUCCESS; a read that returns data is written, and a
\* write that does not write it all exits with EXIT_FAILURE.
Copy(k) ==
    /\ cpc[k] = "copy"
    /\ \E r \in ReadResults(k) :
         IF r # "data"
           THEN /\ cpc' = [cpc EXCEPT ![k] = "exited"]
                /\ status' = [status EXCEPT ![k] = 0]
                /\ UNCHANGED <<pos, wire>>
           ELSE \E w \in WriteResult :
                /\ Emit(k, pos[k] + 1, w)
                /\ pos' = [pos EXCEPT ![k] = @ + 1]
                /\ IF w = "whole" THEN UNCHANGED <<cpc, status>>
                   ELSE /\ cpc' = [cpc EXCEPT ![k] = "exited"]
                        /\ status' = [status EXCEPT ![k] = 1]
    /\ UNCHANGED <<ppc, cur, fdOk, echoes>>

\* A signal from outside the program kills a child while it copies.
Kill(k) ==
    /\ cpc[k] = "copy"
    /\ cpc' = [cpc EXCEPT ![k] = "killed"]
    /\ UNCHANGED <<ppc, cur, fdOk, pos, status, wire, echoes>>

Next ==
    \/ Open \/ FirstRead \/ Fork \/ Echo \/ Wait
    \/ \E k \in Kids : Copy(k) \/ Kill(k)

\* The scheduler runs a runnable process, and a child's blocking write
\* completes because the host drains the device; host packets and
\* signals are not forced.
Fairness == WF_vars(Wait) /\ \A k \in Kids : WF_vars(Copy(k))

Spec == Init /\ [][Next]_vars /\ Fairness

(***************************************************************************)
(* Properties.                                                             *)
(***************************************************************************)
\* The pieces child k wrote, in the order they reached the device.
Sent(k) == SelectSeq(wire, LAMBDA p : p.src = k)

\* A child that exits with status 0 (which blkser_wait_pid reports as
\* "exited, status=0") has put its whole file on the device: every read
\* buffer, in order, written in full.  copy_file exits with failure on a
\* short write, but ends its loop as at end of file when read() fails,
\* whether the file failed to open or an I/O error comes mid-file.
ChildSuccessMeansCopied ==
    \A k \in Kids :
        cpc[k] = "exited" /\ status[k] = 0 =>
            /\ Len(Sent(k)) = Chunks
            /\ \A i \in 1..Len(Sent(k)) : Sent(k)[i].idx = i /\ Sent(k)[i].whole

\* Once the echo loop has ended, main eventually returns: each child ends,
\* by exit or by a signal, and blkser_wait_pid returns for either.
ParentReaps == (ppc = "wait") ~> (ppc = "done")
====
