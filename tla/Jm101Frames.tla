------------------------------ MODULE Jm101Frames ------------------------------
(***************************************************************************)
(* What the door lock's library for the JM101 fingerprint reader           *)
(* (src/Smart_door_lock_ESP32-master/Components/jm101.c) puts on the line: *)
(* one operator per command, and the checksum they share.  Header, address *)
(* and the split of the sum into two bytes are the same for all and left   *)
(* out.  Buffers a caller passes are sequences of bytes of the length the  *)
(* code reads; a char is a byte without sign on this processor.            *)
(***************************************************************************)
EXTENDS Naturals, Sequences

Byte == 0..255
Flag == 35          \* '#', at which check_sum takes its data for a length

(* The i-th byte, and 0 behind the end.                                    *)
At(s, i) == IF i \in 1..Len(s) THEN s[i] ELSE 0

(* tx_cmd_data[6..9]: a command, its length with instruction and sum, and  *)
(* the instruction.                                                        *)
Head4(instr, n) == <<1, 0, n + 3, instr>>
Sum4(s) == At(s, 1) + At(s, 2) + At(s, 3) + At(s, 4)
Sum5(s) == Sum4(s) + At(s, 5)

(* Mutant: the sum is taken modulo 256, as jm101.h:26 has it.              *)
NarrowedTo8(s) == s % 256

(* result % 256 only if it is 256 or less.                                 *)
Narrowed(s) == IF s <= 256 THEN s % 256 ELSE s

(* Data of the caller that begin with '#': the two bytes behind it are     *)
(* taken for the length of the frame, and only that much of it is added;   *)
(* the data are not in it yet.  (Of a length beyond the frame's own,       *)
(* memory behind the frame is added too, which is left out.)               *)
Digit(c) == IF c \in 48..57 THEN c - 48 ELSE 0
Length(arg) == IF At(arg, 2) \notin 48..57 THEN 0
               ELSE IF At(arg, 3) \in 48..57 THEN 10 * Digit(arg[2]) + Digit(arg[3])
               ELSE Digit(arg[2])
MarkedSum(instr, n, arg) ==
  CASE Length(arg) <= 10 -> IF Length(arg) = 9 \/ Length(arg) = 10 THEN 1 ELSE 0
    [] Length(arg) = 11 -> 1 + (n + 3)
    [] OTHER -> Sum4(Head4(instr, n))

(* check_sum with data of the caller: four bytes of the frame and always   *)
(* four of the data, for sizeof is that of a pointer.                      *)
CheckSum(instr, n, arg) ==
  Narrowed(IF At(arg, 1) = Flag THEN MarkedSum(instr, n, arg)
           ELSE Sum4(Head4(instr, n)) + Sum4(arg))

(* check_sum with "#12" or "#17": what the frame holds from byte 6 on.     *)
CheckSumOf(instr, data) == Narrowed(Sum4(Head4(instr, Len(data))) + Sum5(data))

(* A frame: instruction, its data (at most five bytes) and the sum.        *)
Frame(instr, data, sum) == [instr |-> instr, data |-> data, sum |-> sum]

(* What the reader adds up itself (external); a frame with another sum is  *)
(* answered by 01, "error receiving package".                              *)
Declared(f) == Sum4(Head4(f.instr, Len(f.data))) + Sum5(f.data)
Accepted(f) == f.sum = Declared(f)

Plain(instr) == Frame(instr, <<>>, CheckSumOf(instr, <<>>))
Passing(instr, data) == Frame(instr, data, CheckSum(instr, Len(data), data))

-----------------------------------------------------------------------------
(* The commands.                                                           *)

VfyPwd(password) == Passing(19, password)
SetPwd(password) == Passing(18, password)
SetAdder(address) == Passing(21, address)

(* One byte goes into the frame, four into the sum.                        *)
PortControl(code) == Frame(23, <<code[1]>>, CheckSum(23, 1, code))

ReadSysPara == Plain(15)
TempleteNum == Plain(29)
GR_Auto == Frame(50, <<3, 255, 255, 0, 0>>, CheckSumOf(50, <<3, 255, 255, 0, 0>>))
GR_Identify == Plain(52)
GenImg == Plain(1)

(* The sum is fixed but for its low byte.                                  *)
AutoEnroll(high, low) == Frame(49, <<high, low, 2, 0, 0>>, (60 + low) % 256)
AutoIdentify == Frame(50, <<2, 255, 255, 0, 0>>, 2 * 256 + 59)

UpImage == Plain(10)
DownImage == Plain(11)

(* The frame names buffer 1 whatever the caller asks for.                  *)
Img2Tz(buffer) == Frame(2, <<1>>, CheckSum(2, 1, buffer))
RegModel == Plain(5)
UpChar(buffer) == Frame(8, <<buffer[1]>>, CheckSum(8, 1, buffer))
DownChar(buffer) == Frame(9, <<buffer[1]>>, CheckSum(9, 1, buffer))

(* The page goes into the sum and not into the frame; strcat ends at the   *)
(* first zero.  The byte behind combined_data is zero once memset has      *)
(* cleared what strlen counts, which ends there or later.                  *)
Combined(b, page) ==
  IF page[1] = 0 THEN <<b, 0, 0, 0>>
  ELSE <<b, page[1], page[2], IF page[2] = 0 THEN 0 ELSE At(page, 3)>>
Store(b, page) == Frame(6, <<b, 0, 0>>, CheckSum(6, 3, Combined(b, page)))
LoadChar(b, page) == Frame(7, <<b, 0, 0>>, CheckSum(7, 3, <<b, page[1], page[2], 0>>))

DeletChar(page, number) == Passing(12, page \o number)
Empty == Plain(13)
Match == Plain(3)

(* Five bytes of data, four of them in the sum.                            *)
Search(b, start, number) == Passing(4, <<b>> \o start \o number)
GetRandomCode == Plain(20)

-----------------------------------------------------------------------------
(* The confirmation codes jm101_response_parser tells apart, as pairs of   *)
(* instruction and code: 0 is success, 1 a frame that was not received.    *)
SystemAnswers == ({18, 21, 15, 29} \X {0, 1}) \cup {<<19, 0>>, <<19, 1>>, <<19, 19>>}
                 \cup ({23} \X {0, 1, 29})
FingerAnswers == {50, 52} \X {0, 1, 7, 9, 11, 23, 35, 36, 38, 39}
ImageAnswers == ({1} \X {0, 1, 2, 3}) \cup ({10} \X {0, 1, 15}) \cup ({11} \X {0, 1, 14})
                \cup ({2} \X {0, 1, 6, 7, 21})
TemplateAnswers == ({5} \X {0, 1, 10}) \cup ({8} \X {0, 1, 13}) \cup ({9} \X {0, 1, 14})
                   \cup ({6} \X {0, 1, 11, 24}) \cup ({7} \X {0, 1, 11, 12})
                   \cup ({12} \X {0, 1, 16})
LibraryAnswers == ({13} \X {0, 1, 17}) \cup ({3} \X {0, 1, 8}) \cup ({4} \X {0, 1, 9})
                  \cup ({20, 49, 50} \X {0, 1})

Answers == SystemAnswers \cup FingerAnswers \cup ImageAnswers \cup TemplateAnswers \cup LibraryAnswers
=============================================================================
