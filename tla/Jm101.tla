--------------------------------- MODULE Jm101 --------------------------------
(***************************************************************************)
(* One task's use of the library for the JM101 fingerprint reader: a       *)
(* command goes out on the serial line, jm101_reponse reads what has come  *)
(* in 800 ms later and hands the first package to the parser.  The receive *)
(* buffer is not emptied before a command, so an answer that came late is  *)
(* read as the answer of the next command.  The reader and the line are    *)
(* outside the repository.                                                 *)
(***************************************************************************)
EXTENDS Jm101Frames

CONSTANTS
  Code,       \* the confirmation codes the reader gives
  MaxRx       \* bound: answers in the receive buffer

ASSUME Jm101Assumption == {0, 1} \subseteq Code /\ Code \subseteq Byte /\ MaxRx \in Nat \ {0}

VARIABLES
  request,      \* the instruction whose answer is awaited, or None
  reader,       \* what the reader works on
  rx,           \* the answers in the receive buffer
  torn,         \* the buffer starts with the rest of an answer read in part
  confirmation, \* what jm101_reponse returned
  calls,        \* calls of the callback the parser still makes
  callback,     \* fingerprint_confirm_callback has been set
  late,         \* history: an answer came after its command's read, or was cut, and
                \* the line has not been silent at a command since
  origin        \* history: whose answer was parsed since the last command

jmVars == <<request, reader, rx, torn, confirmation, calls, callback, late, origin>>

None == 0
Instr == {19, 29, 50}     \* the commands of the door lock
Param == {0, 1, 5}        \* byte 10 of an answer: for GR_Auto how far the reader is
Answer == [instr : Instr, code : Code, par : Param, own : BOOLEAN]
Nothing == [instr |-> None]
Work == [instr : Instr, ok : BOOLEAN, par : {0, 1, 5}, fresh : BOOLEAN, own : BOOLEAN]
Origins == {"nothing", "own", "another", "torn"}

J_TypeOK ==
  /\ request \in Instr \cup {None}
  /\ reader \in Work \cup {Nothing}
  /\ rx \in Seq(Answer)
  /\ torn \in BOOLEAN
  /\ confirmation \in Code
  /\ calls \in 0..2
  /\ callback \in BOOLEAN
  /\ late \in BOOLEAN
  /\ origin \in Origins

J_Init ==
  /\ request = None
  /\ reader = Nothing
  /\ rx = <<>>
  /\ torn = FALSE
  /\ confirmation = 1
  /\ calls = 0
  /\ callback = FALSE
  /\ late = FALSE
  /\ origin = "nothing"

(* Nothing is under way or left over.                                      *)
Silent == reader = Nothing /\ rx = <<>> /\ ~torn

(* uart_write_bytes: the reader takes the command, and leaves what it is   *)
(* doing for it, or misses it.  Answers still to come are late from now.   *)
Send(frame) ==
  /\ request = None /\ calls = 0
  /\ request' = frame.instr
  /\ rx' = [i \in 1..Len(rx) |-> [rx[i] EXCEPT !.own = FALSE]]
  /\ late' = (late /\ ~Silent)
  /\ \/ reader' = [instr |-> frame.instr, ok |-> Accepted(frame), par |-> 0, fresh |-> TRUE, own |-> TRUE]
     \/ reader' = IF reader = Nothing THEN Nothing ELSE [reader EXCEPT !.own = FALSE]
  /\ origin' = "nothing"
  /\ UNCHANGED <<torn, confirmation, calls, callback>>

(* The reader (external) answers.  GR_Auto may be answered in steps: the   *)
(* command is valid, an image is taken, the comparison is done.            *)
ReaderAnswers ==
  /\ reader # Nothing
  /\ Len(rx) < MaxRx
  /\ \E code \in Code, par \in Param :
       /\ <<reader.instr, code>> \in Answers
       /\ reader.ok \/ code = 1
       /\ IF reader.instr = 50 /\ code = 0
            THEN reader.fresh \/ par > reader.par
            ELSE par = 0
       /\ rx' = Append(rx, [instr |-> reader.instr, code |-> code, par |-> par, own |-> reader.own])
       /\ reader' = IF reader.instr = 50 /\ code = 0 /\ par # 5
                      THEN [reader EXCEPT !.par = par, !.fresh = FALSE]
                      ELSE Nothing
  /\ late' = (late \/ request = None \/ ~reader.own)
  /\ UNCHANGED <<request, torn, confirmation, calls, callback, origin>>

(* Mutant: any GR_Auto answer is a recognised finger.                      *)
CallsOnAnyCode(instr, code, par) == IF instr = 50 THEN (IF par = 5 THEN 2 ELSE 1) ELSE 0

(* jm101_response_parser, by the instruction of the request: what it calls *)
(* for success, once whatever the reader has reached and once more for a   *)
(* completed comparison.                                                   *)
Calls(instr, code, par) ==
  IF instr \in {50, 52} /\ code = 0 THEN (IF par = 5 THEN 2 ELSE 1) ELSE 0

(* Mutant: only the first answer is taken out of the buffer.               *)
DrainedOnlyFirst == IF rx = <<>> THEN <<>> ELSE Tail(rx)

(* uart_read_bytes asks for as much as the buffer can hold.                *)
Drained == <<>>

(* The first package in the buffer is a whole answer.                      *)
Whole(cut) == ~torn /\ ~(cut /\ Len(rx) = 1)

(* jm101_reponse.  Without an answer it returns 1 and parses nothing.  An  *)
(* answer under way when the time is over is cut: byte 9 may then be       *)
(* anything, and the rest is what the next read starts with.               *)
Read(cut) ==
  /\ request # None
  /\ request' = None
  /\ cut => rx # <<>>
  /\ torn' = cut
  /\ rx' = Drained
  /\ late' = (late \/ cut)
  /\ IF rx = <<>> /\ ~torn
       THEN confirmation' = 1 /\ calls' = 0 /\ origin' = "nothing"
       ELSE \E code \in Code, par \in Param :
              /\ Whole(cut) => code = Head(rx).code /\ par = Head(rx).par
              /\ confirmation' = code
              /\ calls' = Calls(request, code, par)
              /\ origin' = IF ~Whole(cut) THEN "torn"
                           ELSE IF Head(rx).own THEN "own" ELSE "another"
  /\ UNCHANGED reader

jm101_reponse == \E cut \in BOOLEAN : Read(cut)

set_fingerprint_confirm_callback == callback' = TRUE

-----------------------------------------------------------------------------
(* As long as every answer is read whole by its own command, no command is *)
(* given the answer of another, and once an answer came too late this is   *)
(* so again from the first command sent while the line is silent: what     *)
(* jm101_reponse reads it takes out of the buffer.  (jm101.c:42; nothing   *)
(* empties the buffer before uart_write_bytes.)                            *)
OwnAnswer == ~late => origin \in {"nothing", "own"}
=============================================================================
